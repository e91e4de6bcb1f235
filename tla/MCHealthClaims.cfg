SPECIFICATION Spec
CONSTANTS
  HealthyFor = 1
  Unexpected = 3
  TooLong = 6
  NotifyAfter = 2
  DegradedFor = 1
  StopSlack = 1
  GapMin = 3
  AsleepMin = 1
  Online = {0, 1, 2, 3, 4, 5, 7}
  AwayFor = {5}
  InFlight = 2
  Events = 3
  Horizon = 7
INVARIANTS RebootIsNotSleep MachineWasOff NotArmedAtStart
CHECK_DEADLOCK FALSE
