SPECIFICATION FlowSpec
CONSTANTS
  Jobs <- SilenceJobs
  Check = Check
  LifeTime = 3
  Interval = 2
  MaxTime = 5
  MaxTasks = 2
  Sessions = {s1}
  Nonces = {x1}
  Invalid = {}
  MaxLocal = 2
  ShortIds = 2
  KeepLocal = 1
  MaxSubmits = 2
  MaxPolls = 1
INVARIANTS
  CurrentJobKnown
CHECK_DEADLOCK FALSE
