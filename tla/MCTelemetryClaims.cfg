CONSTANTS
  Writers = {"enforcer"}
  Cap = 3
  SampleAge = 1
  AuditAge = 2
  Batch = 2
  Poison = {2}
  Skews <- Behind
  SlowWriters = TRUE
  Audits = {1, 2}
  Lines = 2
  Locals = 1
  Horizon = 0
  Faults = 0
  Crashes = 1
SPECIFICATION Spec
INVARIANTS NothingLost StoredOnce
PROPERTIES AuditsLast
CHECK_DEADLOCK FALSE
