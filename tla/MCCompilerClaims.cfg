CONSTANTS
  DayLen = 8
  None = None
  WindowLists <- AllLists
  HolidaySets <- Holidays
  ExceptionDays <- Days
  Minutes <- OneSize
  HorizonDays = 2
  NightEnd = 2
  MaxGrantsPerDay = 2
  MaxMinutesPerDay = 2
  FirstDay = 3
  LastDay = 5
  MaxGrants = 1
  MaxRestarts = 0
  MaxExceptions = 2
  OneWordPerDay = FALSE
SPECIFICATION Spec
INVARIANTS NightOff LastWordStands NoBedtimeNoWatch DueFromItsMoment OverlapNeverLess
PROPERTIES GrantRelaxes
CHECK_DEADLOCK FALSE
