SPECIFICATION Spec
CONSTANTS
  t1 = t1
  t2 = t2
  t3 = t3
  NoTask = NoTask
  Tasks = {t1, t2, t3}
  NumChannels = 2
  Faults = {"chip"}
  Kernel = {}
  Unbind = FALSE
  AbortSettles = TRUE
SYMMETRY TaskSymmetry
INVARIANTS
  TypeOK
  SemaphoreAccounted
  AvailChannelExists
  OneOwnerPerChannel
  ChipRunsOnLiveMemory
  NoLostWakeup
  StatusIsOwn
PROPERTIES
  ImplementsPool
