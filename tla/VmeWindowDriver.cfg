SPECIFICATION Spec
CONSTANTS
  u1 = u1
  u2 = u2
  k1 = k1
  k2 = k2
  Nobody = Nobody
  Users = {u1}
  Kernel = {k1}
  NumWindows = 2
  Requests <- OneRequest
  Align = 2
  SpaceA24 = 4
  Top = 16
  Wide = FALSE
  Ops = {"create", "find", "release"}
  Faults = {}
  Signals = FALSE
  Serial = TRUE
  MaxHeld = 1
PROPERTIES
  MappingsArePrivate
