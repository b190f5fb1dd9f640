SPECIFICATION FairSpec
CONSTANTS
  t1 = t1
  t2 = t2
  t3 = t3
  NoTask = NoTask
  Tasks = {t1, t2}
  NumChannels = 1
  Faults = {"sgl", "pages", "chip", "pin", "map"}
  Kernel = {t2}
  Unbind = TRUE
  AbortSettles = FALSE
INVARIANTS
  NothingLeaked
PROPERTIES
  NoTransferAfterDrain
  EveryCallReturns
