CONSTANTS
  Terminal = {p1, p2, p3}
  Client = {c1, c2}
  None = None
  MaxToken = 3
  MaxTicks = 2
  MaxLogouts = 1
  LoginProcess = {l1, l2}
  LowPort = 1
  HighPort = 2
  MaxRequests = 2
  MaxCodes = 2
SPECIFICATION MCSpec
INVARIANTS SessionWhole OwnCodeOnly
SYMMETRY MCSymmetry
CHECK_DEADLOCK FALSE
