SPECIFICATION FairSpec
CONSTANTS
  Clients = {c1, c2}
  Server = Server
  None = None
  MaxRetry = 1
  MaxCalls = 1
  MaxCrashes = 0
  SpuriousWakeups = FALSE
PROPERTIES
  
  StopEndsServer
CHECK_DEADLOCK FALSE
