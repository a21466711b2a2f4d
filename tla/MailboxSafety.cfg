SPECIFICATION Spec
CONSTANTS
  Clients = {c1, c2}
  Server = Server
  None = None
  MaxRetry = 2
  MaxCalls = 2
  MaxCrashes = 1
  SpuriousWakeups = TRUE
INVARIANTS
  TypeOK
  AtMostOnce
  ReplyHonest
  HandlerDataLive
  StopsSoon
PROPERTIES
  ImplementsRpc
CHECK_DEADLOCK FALSE
