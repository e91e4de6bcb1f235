CONSTANTS
  BedFrom = 4
  BedUntil = 6
  WatchUntil = 8
  Due = 5
  StopEpisode = 1
  BootLaunch = 2
  SameBoot = 1
  BootRows = 2
  ClockIncident = 1
  GapProbe = 2
  GapMin = 2
  AsleepMin = 1
  Offsets <- MCOffsets
  Versions = {1, 2}
  Hidden = {2}
  Often <- MCOften
  Horizon = 8
SPECIFICATION Spec
INVARIANTS RemovedOnce OffIsNotUse OffWhenItWas BootToldOnce PagesAgreeOnBoots
CHECK_DEADLOCK FALSE
