CONSTANTS
  server = server
  jobManager = jobManager
  Workers <- MCWorkers
  Predicated <- MCPredicated
  MaxItems = 2
SPECIFICATION Spec
INVARIANTS
  TypeOK
  MutexOwned
  PausedIsQuiet
  ClosedIsDone
PROPERTIES
  CallsReturn
  ActivateStartsWork
CHECK_DEADLOCK FALSE
