SPECIFICATION Spec
CONSTANTS
  Users = {u1, u2}
  U1 = u1
  Reference = ref
  NoUser = none
  AgentIds = {1, 2}
  AgentWorkers = {m1, m2}
  Slots = 6
  RecordSeconds = 10
  MinDiff = 2
  MaxDiff = 131072
  Scale = 64
  EpochLength = 2
  MaxCacheSize = 1
  None = None
  AuxLife = 1
  Nothing = Nothing
 
INVARIANT CreditedOnce
INVARIANT SolutionsSentOnce
INVARIANT LightsAccounted
INVARIANT BlocksTrue
INVARIANT LowPriorityWaits
PROPERTY UsersFollowZookeeper
PROPERTY DifficultySettles
PROPERTY FoundBlocksReachNodes
PROPERTY DelayedSolutionsSent
CHECK_DEADLOCK FALSE
