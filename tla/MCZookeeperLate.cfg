SPECIFICATION MCSpec
CONSTANTS
  Procs = {p1, p2, p3}
  MaxId = 2
  MaxExpiry = 1
  None = None
  LockProcs = {l1, l2, l3}
  L1 = l1
  L2 = l2
INVARIANTS
  UniqueWhileLive
CHECK_DEADLOCK FALSE
