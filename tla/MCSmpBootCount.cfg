SPECIFICATION Spec
CONSTANTS
  Bsp = bsp
  Aps = {ap1, ap2}
  Listed = 3
  Patience = 2
  Entry = 7
CHECK_DEADLOCK FALSE
INVARIANT
  CountedHaveRun
