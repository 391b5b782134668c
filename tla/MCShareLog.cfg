SPECIFICATION Spec
CONSTANTS
  None = None
  ScoreUnit = 64
  AssumedHeight = 5
  WindowSize = 3
  HoursPerDay = 2
  TrackingHeights = 1
  Configs <- AllConfigs
  MaxHandlers = 1
  BufferPieces = 3
  NonShareLimit = 1
  MaxReadingErrors = 1
  KeepWorkerDays = 1
  KeepWorkerHours = 2
  KeepUserHours = 3
  TailOffset = 3
  TailEvents = 1
  Minute = 1
  RedisConcurrency = 2
  Names = {"a", "b"}
INVARIANTS MemoryIsFile WindowsTrue NamesAreLatest RedisAgrees
PROPERTIES RowsNeverShrink EveryShareAccounted
CHECK_DEADLOCK FALSE
