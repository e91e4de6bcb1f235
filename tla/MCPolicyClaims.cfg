CONSTANTS
  Devices = {d1}
  Clients = {c1, c2}
  Pool = 3
  Rules = {early, late}
  FirstRules = early
  Grants = {g1, g2}
  GrantCap = 1
  Bad = Bad
  None = None
  MaxRequests = 2
  MaxFaults = 1
CHECK_DEADLOCK FALSE
SPECIFICATION Spec
INVARIANT CapHolds
PROPERTIES DraftNeedsPublish AlwaysAPolicy
