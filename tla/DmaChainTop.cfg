SPECIFICATION Spec
CONSTANTS
  PageSize = 8
  Top = 64
  DmaMask = 64
  BltBlock = 2
  MbltBlock = 4
  MaxLength = 12
  Starts = {54, 55}
  Frames <- Scattered
  Jobs <- AllJobs
  PoolMayFail = TRUE
CHECK_DEADLOCK FALSE
INVARIANTS
  VirtInitialised
