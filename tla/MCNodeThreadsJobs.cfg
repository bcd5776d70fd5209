CONSTANTS
  server = server
  jobManager = jobManager
  JobManager = jobManager
  Workers <- MCWorkers
  Predicated <- MCPredicated
  MaxItems = 2
SPECIFICATION NodeSpec
PROPERTIES
  DownloadBegins
CHECK_DEADLOCK FALSE
