SPECIFICATION FairSpec
CONSTANTS
  Bsp = bsp
  Aps = {ap1, ap2, ap3}
  Listed = 4
  Patience = 2
  Entry = 7
CHECK_DEADLOCK FALSE
INVARIANTS
  OneMain
  GateHolds
  CountsEntered
  FreedAfterCounted
PROPERTIES
  BspGetsOn
  WaitingApEnters
  CountShown
