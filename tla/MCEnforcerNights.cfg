CONSTANTS
  None = None
  Evaluation <- MCEvaluation
  Leads = {3, 6}
  Unsigned = {}
  Reassert = 3
  Tolerance = 1
  Day = 24
  SoakSlack = 1
  Docs = {"school"}
  Gaps = {2, 3, 4}
  SleepGaps = {}
  Corrections = {4}
  Damage = FALSE
  KillUntils = {}
  SoakLength = 0
  MaxEpisodes = 1
  Horizon = 45
SPECIFICATION Spec
INVARIANTS TypeOK WarnedForThisBoundary EscalatesInTime BreakerHolds
PROPERTIES NoWarningTwice
CHECK_DEADLOCK FALSE
