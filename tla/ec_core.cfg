SPECIFICATION Spec
CONSTANTS
  MinFloor = 1
  MaxFloor = 3
  Width = 3
  HallCalls <- OneCall
  Recovered <- Stale
  Faults = {"stop", "obstruction", "crash"}
INVARIANTS StaysInShaft DoorClosedWhileMoving StopLampMeansHalted
PROPERTIES InsideOrderKept DroppedCallsReported NoReversalPastInside ImplementsHallElevator
CHECK_DEADLOCK FALSE
