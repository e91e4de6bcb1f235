CONSTANTS
  Writers = {"enforcer"}
  Cap = 2
  SampleAge = 0
  AuditAge = 1
  Batch = 2
  Poison = {2}
  Skews <- Ahead
  SlowWriters = FALSE
  Audits = {1}
  Lines = 2
  Locals = 1
  Horizon = 1
  Faults = 1
  Crashes = 1
SPECIFICATION FairSpec
INVARIANTS Kept
PROPERTIES EvictsRightly Drains
CHECK_DEADLOCK FALSE
