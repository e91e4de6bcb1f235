CONSTANTS
  DayLen = 8
  None = None
  WindowLists <- Lists
  HolidaySets <- Holidays
  ExceptionDays <- Days
  Minutes <- OneSize
  HorizonDays = 2
  NightEnd = 2
  MaxGrantsPerDay = 2
  MaxMinutesPerDay = 2
  FirstDay = 3
  LastDay = 5
  MaxGrants = 1
  MaxRestarts = 1
  MaxExceptions = 1
  OneWordPerDay = TRUE
SPECIFICATION Spec
INVARIANTS IntentHolds ServerAgrees
PROPERTIES NoChurn NoUnannouncedStart
CHECK_DEADLOCK FALSE
