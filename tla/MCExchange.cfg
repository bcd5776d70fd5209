CONSTANTS
  a = a
  b = b
  NoNode = NoNode
  NoAnswer = NoAnswer
  Nodes <- MCNodes
  Answers <- Lengths
  LinksBreak = TRUE
  StaleAtStart <- MainThreadOfA
  MaxRequests = 2
SPECIFICATION Spec
CHECK_DEADLOCK FALSE
INVARIANTS
  TypeOK
  ReadsItsAnswer
  WholeUnlessBroken
PROPERTY
  RequestEnds
