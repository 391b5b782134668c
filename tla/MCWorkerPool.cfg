SPECIFICATION Spec
CONSTANTS
  Dispatchers = {d1, d2}
  Workers = {t1, t2}
  Works = {w1, w2, w3, w4}
  Capacity = 2
  NoWork = NoWork
PROPERTIES
  ImplementsQueue
  CallsReturn
CHECK_DEADLOCK FALSE
