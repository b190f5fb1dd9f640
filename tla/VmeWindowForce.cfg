SPECIFICATION Spec
CONSTANTS
  u1 = u1
  u2 = u2
  k1 = k1
  k2 = k2
  Nobody = Nobody
  Users = {u1, u2}
  Kernel = {k1}
  NumWindows = 2
  Requests <- OwnRequests
  Align = 2
  SpaceA24 = 4
  Top = 16
  Wide = FALSE
  Ops = {"find", "release", "close", "return", "options"}
  Faults = {"chip", "kzalloc"}
  Signals = FALSE
  Serial = TRUE
  MaxHeld = 2
SYMMETRY UserSymmetry
INVARIANTS
  HeldMappingsAlive
  CloseReleasesAll
PROPERTIES
  MappingsArePrivate
