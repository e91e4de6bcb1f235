CONSTANTS
  Devices = {d1}
  Clients = {c1, c2}
  Pool = 3
  Rules = {early, late}
  FirstRules = early
  Grants = {g1}
  GrantCap = 2
  Bad = Bad
  None = None
  MaxRequests = 2
  MaxFaults = 1
CHECK_DEADLOCK FALSE
SPECIFICATION DamagedSpec
PROPERTY GrantReaches
