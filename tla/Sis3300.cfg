SPECIFICATION Spec
CONSTANTS
  p1 = p1
  p2 = p2
  s0 = s0
  s1 = s1
  None = None
  Callers = {p1, p2}
  Segments = {s0, s1}
  Groups = {0}
  Requests = {0, 1, 2}
  BankEvents = 2
  MaxAcqs = 2
  MaxCancels = 1
  Wrap = 8
SYMMETRY CallerSymmetry
CHECK_DEADLOCK FALSE
INVARIANTS
  FetchExcludesAcquisition
  OnlyCancelsRace
  ArmedIsAcquiring
  FetchIsFresh
  EventsAreComplete
