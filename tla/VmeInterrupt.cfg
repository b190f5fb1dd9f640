SPECIFICATION FairSpec
CONSTANTS
  d1 = d1
  d2 = d2
  v1 = v1
  v2 = v2
  a1 = a1
  Nobody = Nobody
  Drivers = {d1, d2}
  Vectors = {v1, v2}
  LevelOf <- TwoLevels
  Latched <- Sources
  Enabled <- SysconEnabled
  Addresses = {a1}
  RangeOf <- Ranges
  Wants <- SameVector
  Pollers = {d2}
  Signals = TRUE
INVARIANTS
  VectorStaysOwned
  ErrorWillBeHandled
  ReportsRealErrors
  HandlersCalledAlive
PROPERTIES
  EveryInterruptServed
