CONSTANTS
  None = None
  Evaluation <- MCEvaluation
  Leads = {3, 6}
  Unsigned = {"unsigned"}
  Reassert = 3
  Tolerance = 1
  Day = 24
  SoakSlack = 1
  MaxEpisodes = 2
  Damage = FALSE
  KillUntils = {}
  Docs = {"school"}
  Gaps = {3}
  SleepGaps = {}
  Corrections = {}
  SoakLength = 0
  Horizon = 12
SPECIFICATION Spec
PROPERTY KnownGoodSurvives
CHECK_DEADLOCK FALSE
