SPECIFICATION FairSpec
CONSTANTS
  None = None
  m1 = m1
  m2 = m2
  d1 = d1
  d2 = d2
  Macs <- OneMac
  Devices <- TwoDevices
  Codes <- Two
  Keys <- Two
  Slots <- OneMac
  Ttl = 1
  Overlap = 1
  RotateAfter = 2
  MaxAttempts = 3
  Horizon = 0
  Losses = 0
  Crashes = 0
  Concurrent = FALSE
  Items = FALSE
\* Bounds on time, codes and keys stop the model.
PROPERTIES DecommissionAlwaysReaches RevokedMacIsSetUpAgain
CHECK_DEADLOCK FALSE
