CONSTANTS
  Devices = {d1}
  Clients = {c1, c2}
  Pool = 2
  Rules = {early, late}
  FirstRules = early
  Grants = {g1}
  GrantCap = 2
  Bad = Bad
  None = None
  MaxRequests = 2
  MaxFaults = 0
CHECK_DEADLOCK FALSE
SPECIFICATION FairSpec
PROPERTY Answered
