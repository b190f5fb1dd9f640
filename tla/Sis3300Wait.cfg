SPECIFICATION FairSpec
CONSTANTS
  p1 = p1
  p2 = p2
  s0 = s0
  s1 = s1
  None = None
  Callers = {p1, p2}
  Segments = {s0}
  Groups = {0}
  Requests = {0, 1, 2}
  BankEvents = 3
  MaxAcqs = 2
  MaxCancels = 0
  Wrap = 8
CHECK_DEADLOCK FALSE
PROPERTIES
  EveryWaitReturns
