CONSTANTS
  server = server
  jobManager = jobManager
  JobManager = jobManager
  Workers <- MCWorkers
  Predicated <- MCPredicated
  MaxItems = 2
SPECIFICATION NodeSpec
INVARIANTS
  NodeTypeOK
  SyncRequestExclusive
  SyncRequestResumes
  QuitLeavesNoThread
PROPERTIES
  ClosedIsLeftAlone
  RequestReturns
  QuitTerminates
CHECK_DEADLOCK FALSE
