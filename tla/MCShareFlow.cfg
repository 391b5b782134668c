SPECIFICATION FlowSpec
CONSTANTS
  Jobs <- MCJobs
  Check = Check
  LifeTime = 2
  Interval = 1
  MaxTime = 3
  MaxTasks = 2
  Sessions = {s1}
  Nonces = {x1}
  Invalid = {}
  MaxLocal = 2
  ShortIds = 2
  KeepLocal = 1
  MaxSubmits = 2
  MaxPolls = 2
INVARIANTS
  RightJob
  SolvedJobStale
  CurrentJobKept
PROPERTIES
  EveryShareLogged
CHECK_DEADLOCK FALSE
