CONSTANTS
  Recordings <- OneDay
  MaxBatch = 2
  Limit = 2
  Trailing = 1
  SampleKept = 3
  AuditKept = 4
  HourlyKept = 3
  DayLen = 2
  RollSpan = 2
  Lag = 1
  Ahead = 0
  Horizon = 4
  Crashes = 0
SPECIFICATION Spec
PROPERTIES DailyKeepsDay
CHECK_DEADLOCK FALSE
