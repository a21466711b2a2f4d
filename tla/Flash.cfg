SPECIFICATION MCSpec
CONSTANTS
  p1 = p1
  p2 = p2
  Tuis <- MCTuis
  Editors <- MCEditors
  Texts <- MCTexts
  PciLines <- MCPciLines
  HandWritten <- MCHandWritten
  Flashfiles <- MCFlashfiles
  OneGB = 1
  FourGB = 4
  DdBs = 2
CHECK_DEADLOCK FALSE
INVARIANTS
  FormAccepted
  
  SavedAsShown
  DiskFits
  FreshImages
  FreshRpmb
  FormFlashSafe
  CoProcsGone
PROPERTY
  FlashReturns
