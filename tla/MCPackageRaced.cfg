CONSTANTS
  ChunkSize = 2
  OffsetLimit = 4
  Sizes <- PackageSizes
  MaxContents = 2
  Own <- MCOwn
  Downloads <- MCDownloads
SPECIFICATION Spec
CHECK_DEADLOCK FALSE
INVARIANT
  PackageHoldsItsFiles
