SPECIFICATION FairSpec
CONSTANTS
  Procs = {"start", "stop", "guest1"}
  None = None
  Command <- Commands
  MaxWait = 1
  MaxKills = 1
  Serial = TRUE
INVARIANTS TypeOK  
PROPERTIES  StopEnds
CHECK_DEADLOCK FALSE
