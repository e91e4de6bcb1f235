SPECIFICATION Spec
CONSTANTS
  None = None
  m1 = m1
  m2 = m2
  d1 = d1
  d2 = d2
  Macs <- TwoMacs
  Devices <- OneDevice
  Codes <- One
  Keys <- Two
  Slots <- TwoMacs
  Ttl = 1
  Overlap = 1
  RotateAfter = 2
  MaxAttempts = 3
  Horizon = 0
  Losses = 1
  Crashes = 1
  Concurrent = TRUE
  Items = FALSE
SYMMETRY Symmetric
PROPERTIES ImplementsBinding
CHECK_DEADLOCK FALSE
