SPECIFICATION Spec
CONSTANTS
  MinFloor = 1
  MaxFloor = 3
  Width = 3
  HallCalls <- MiddleCalls
  Recovered <- Stale
  Faults = {"stop"}
PROPERTIES HallCallMeetsDoor
CHECK_DEADLOCK FALSE
