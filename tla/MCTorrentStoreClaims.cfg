CONSTANTS
  Contents <- MCContents
  Own <- Second
  Received <- First
  NumPieces = 2
  MaxCopies = 2
  MaxStarts = 3
SPECIFICATION SpecNoCrash
CHECK_DEADLOCK FALSE
INVARIANT
  OwnsWhatItClaims
