CONSTANTS
  None = None
  Evaluation <- MCEvaluation
  Leads = {3, 6}
  Unsigned = {}
  Reassert = 3
  Tolerance = 1
  Day = 24
  SoakSlack = 1
  Docs = {"school", "free", "late"}
  Gaps = {2, 4}
  SleepGaps = {9}
  Corrections = {}
  Damage = TRUE
  KillUntils = {12, 21}
  SoakLength = 8
  MaxEpisodes = 2
  Horizon = 20
SPECIFICATION Spec
INVARIANTS ShutdownLawful
PROPERTIES BedtimeHolds ActsOnlyWhenLawful
CHECK_DEADLOCK FALSE
