SPECIFICATION FairSpec
CONSTANTS
  None = None
  m1 = m1
  m2 = m2
  d1 = d1
  d2 = d2
  Macs <- OneMac
  Devices <- OneDevice
  Codes <- One
  Keys <- Two
  Slots <- OneMac
  Ttl = 1
  Overlap = 1
  RotateAfter = 1
  MaxAttempts = 3
  Horizon = 3
  Losses = 0
  Crashes = 0
  Concurrent = FALSE
  Items = FALSE
PROPERTIES
  RenewsOnTheClock
\* Bounds on time, codes and keys stop the model.
CHECK_DEADLOCK FALSE
