CONSTANTS
  Names <- MCNames
  Characters <- MCCharacters
  Indexes <- MCIndexes
  Numeral <- MCNumeral
  MaxTorrents = 3
SPECIFICATION Spec
INVARIANTS
  TypeOK
  ListArrives
  AnswerFits
  RequestIsAnswered
