SPECIFICATION Spec
CONSTANTS
  None = None
  m1 = m1
  m2 = m2
  d1 = d1
  d2 = d2
  Macs <- OneMac
  Devices <- TwoDevices
  Codes <- Two
  Keys <- Three
  Slots <- Two
  Ttl = 1
  Overlap = 1
  RotateAfter = 2
  MaxAttempts = 3
  Horizon = 2
  Losses = 1
  Crashes = 1
  Concurrent = TRUE
  Items = TRUE
\* Bounds on time, codes and keys stop the model.
INVARIANTS OverlapHonoured EndedStaysEnded NeverStranded RetiredMeansGone NoOrphanKey RevokedIsDead NoSpareWayIn OneMacOneRegistration
CHECK_DEADLOCK FALSE
