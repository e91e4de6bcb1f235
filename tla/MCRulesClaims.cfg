CONSTANTS
  t1 = t1
  t2 = t2
  Tabs <- TwoTabs
  Macs = {m1}
  Starts = {0, 1, 3}
  Day = 6
  Soon = 1
  Caps = {1}
  FirstStarts = {0}
  FirstCaps = 1
  None = None
  Does <- MCDoesAll
  Horizon = 1
  MaxClicks = 5
SPECIFICATION Spec
INVARIANTS HasTheseRules ReplacedWholesale WarningsSurvive
PROPERTIES WhatWasReviewed RefusedCanConfirm RelaxationNeverAsks BitesAtOnceIsAsked
CHECK_DEADLOCK FALSE
