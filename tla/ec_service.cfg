SPECIFICATION FairSpec
CONSTANTS
  MinFloor = 1
  MaxFloor = 3
  Width = 3
  HallCalls <- OneCall
  Recovered <- Stale
  Faults = {"stop"}
INVARIANTS FloorSetsAreSets
PROPERTIES EverythingServed
CHECK_DEADLOCK FALSE
