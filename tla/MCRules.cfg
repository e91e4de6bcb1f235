CONSTANTS
  t1 = t1
  t2 = t2
  Tabs <- TwoTabs
  Macs = {m1, m2}
  Starts = {2, 3}
  Day = 6
  Soon = 1
  Caps = {1, 2}
  FirstStarts = {3}
  FirstCaps = 1
  None = None
  Does <- MCDoes
  Horizon = 1
  MaxClicks = 4
SPECIFICATION Spec
SYMMETRY Symmetry
INVARIANTS NeverGoesBack
PROPERTIES UnaskedOnlyInARace
CHECK_DEADLOCK FALSE
