\* One request through both orchestrators.
SPECIFICATION FairSpec
CONSTANTS
  DomainAgents = {"content_ops_agent"}
  DomainTools = {"http_request", "unknown_tool"}
  DomainResults <- MCDomainResults
  Tasks <- MCTasks
  MaxGraphSteps = 5
  RecursionLimit = 6
INVARIANTS
  RunnersAgree
  
  DecidedOnce
  FailedToolStops
PROPERTIES
  RunnersKeepPromise
  RunsEnd
CHECK_DEADLOCK FALSE
