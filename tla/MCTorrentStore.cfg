CONSTANTS
  Contents <- MoreContents
  Own <- Third
  Received <- MCContents
  NumPieces = 2
  MaxCopies = 2
  MaxStarts = 3
SPECIFICATION Spec
CHECK_DEADLOCK FALSE
INVARIANTS
  TypeOK
  CreatedIsDurable
  RowsHaveData
  ProgressIsKept
