SPECIFICATION FairSpec
CONSTANTS
  CidStart = 4
  MaxCidNum = 5
  UintModulus = 8
  Names = {a}
  StrCids <- AutoOnly
  MaxBuilds = 2
  MaxWait = 1
  StopRequests = TRUE
  StubbornGuest = FALSE
PROPERTIES StartAnswered ExitReaped
CHECK_DEADLOCK FALSE
