SPECIFICATION FairSpec
CONSTANTS
  None = None
  m1 = m1
  m2 = m2
  d1 = d1
  d2 = d2
  Macs <- OneMac
  Devices <- OneDevice
  Codes <- Two
  Keys <- Three
  Slots <- OneMac
  Ttl = 1
  Overlap = 1
  RotateAfter = 2
  MaxAttempts = 3
  Horizon = 3
  Losses = 1
  Crashes = 0
  Concurrent = FALSE
  Items = TRUE
\* Bounds on time, codes and keys stop the model.
INVARIANTS OverlapHonoured RevokedIsDead KeysAndCodes
PROPERTIES DecommissionReaches
CHECK_DEADLOCK FALSE
