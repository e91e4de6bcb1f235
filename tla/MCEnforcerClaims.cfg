CONSTANTS
  None = None
  Evaluation <- MCEvaluation
  Leads = {3, 6}
  Unsigned = {}
  Reassert = 3
  Tolerance = 1
  Day = 24
  SoakSlack = 1
  MaxEpisodes = 2
  Damage = FALSE
  KillUntils = {}
  Docs = {"school"}
  Gaps = {3}
  SleepGaps = {18, 21}
  Corrections = {6}
  SoakLength = 36
  Horizon = 45
SPECIFICATION Spec
INVARIANTS WarnedForThisBoundary GraceOfThisWindow RelocksEveryTick ShadowComputesShutdown
CHECK_DEADLOCK FALSE
