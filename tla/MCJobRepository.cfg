SPECIFICATION Spec
CONSTANTS
  Jobs <- MCJobs
  Check = Check
  LifeTime = 2
  Interval = 1
  MaxTime = 4
  MaxTasks = 3
INVARIANTS
  LatestLive
  SupersededStale
PROPERTIES
  LatestKept
  NotifyKeepsComing
CHECK_DEADLOCK FALSE
