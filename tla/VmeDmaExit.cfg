SPECIFICATION FairSpec
CONSTANTS
  t1 = t1
  t2 = t2
  t3 = t3
  NoTask = NoTask
  Tasks = {t1}
  NumChannels = 1
  Faults = {}
  Kernel = {}
  Unbind = TRUE
  AbortSettles = TRUE
PROPERTIES
  ExitCompletes
