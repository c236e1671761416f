SPECIFICATION Spec
CONSTANTS
  Elevators <- TwoElevators
  Local = "here"
  Unknown = Unknown
  MinFloor = 1
  MaxFloor = 3
  Slack = 1
  Horizon = 6
INVARIANTS LocalIsNeverDead DeadGetNoCalls UnfitIsLast WrongWayIsLastResort
