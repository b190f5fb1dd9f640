SPECIFICATION Spec
CONSTANTS
  PageSize = 8
  Top = 64
  DmaMask = 128
  BltBlock = 2
  MbltBlock = 4
  MaxLength = 18
  Starts = {0, 1, 2, 3, 5}
  Frames <- High
  Jobs <- AllJobs
  PoolMayFail = TRUE
CHECK_DEADLOCK FALSE
INVARIANTS
  ChainIsTransfer
