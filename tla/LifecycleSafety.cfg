SPECIFICATION Spec
CONSTANTS
  CidStart = 4
  MaxCidNum = 6
  UintModulus = 8
  Names = {a, b}
  StrCids <- AutoOrWide
  MaxBuilds = 2
  MaxWait = 1
  StopRequests = TRUE
  StubbornGuest = TRUE
INVARIANTS TypeOK LatchInScope  NoCidLeak WaitFailureCleansUp
  CidExclusiveUnlessStopped ReadyNotLost
SYMMETRY NameSymmetry
CHECK_DEADLOCK FALSE
