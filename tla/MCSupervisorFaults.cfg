SPECIFICATION Spec
CONSTANTS
  Versions = {1, 2}
  First = 1
  Flaws = {{}, {2}}
  StillBorn = {}
  None = None
  StaleAfter = 1
  Confirmations = 2
  CrashWindow = 1
  CrashesForRollback = 2
  Cooldown = 4
  Day = 5
  MaxRollbacks = 1
  SoakLength = 2
  KeepNewest = 1
  SyncGap = 2
  Sleeps = {3}
  Back = 1
  MaxFaults = 1
INVARIANTS TypeOK
PROPERTIES HealthyNeverRolledBack KicksApart Settles FlawedReplaced
CHECK_DEADLOCK FALSE
