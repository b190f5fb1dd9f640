SPECIFICATION Spec
CONSTANTS
  u1 = u1
  u2 = u2
  k1 = k1
  k2 = k2
  Nobody = Nobody
  Users = {u1}
  Kernel = {}
  NumWindows = 2
  Requests <- TopRequests
  Align = 2
  SpaceA24 = 4
  Top = 16
  Wide = FALSE
  Ops = {"create", "find"}
  Faults = {}
  Signals = FALSE
  Serial = FALSE
  MaxHeld = 1
INVARIANTS
  MappingInsideWindow
