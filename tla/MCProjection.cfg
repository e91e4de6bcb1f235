CONSTANTS
  Recordings <- Evenings
  MaxBatch = 2
  Limit = 2
  Trailing = 1
  SampleKept = 2
  AuditKept = 3
  HourlyKept = 3
  DayLen = 2
  RollSpan = 2
  Lag = 1
  Ahead = 0
  Horizon = 3
  Crashes = 1
SPECIFICATION FairSpec
INVARIANTS SeenIsCounted SessionAsItWas
PROPERTIES CatchesUp
CHECK_DEADLOCK FALSE
