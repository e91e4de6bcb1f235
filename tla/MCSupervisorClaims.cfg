SPECIFICATION Spec
CONSTANTS
  Versions = {1, 2, 3}
  First = 1
  Flaws = {{3}, {2, 3}}
  StillBorn = {3}
  None = None
  StaleAfter = 1
  Confirmations = 2
  CrashWindow = 1
  CrashesForRollback = 2
  Cooldown = 4
  Day = 5
  MaxRollbacks = 1
  SoakLength = 2
  KeepNewest = 1
  SyncGap = 2
  Sleeps = {3}
  Back = 0
  MaxFaults = 1
PROPERTIES SleepIsNotDeath SlowIsNotDeath TargetHasSoaked KnownBadStaysOff LastGoodKept HealthyNeverRolledBack
CHECK_DEADLOCK FALSE
