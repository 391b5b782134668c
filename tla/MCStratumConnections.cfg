SPECIFICATION Spec
CONSTANTS
  Conns = {c1, c2, c3}
  NumIds = 3
  AllocInterval = 2
INVARIANTS
  UniqueSessionIds
  NoIdLeak
  IntervalReserved
PROPERTIES
  DeadReaped
  GracefulStopEnds
CHECK_DEADLOCK FALSE
