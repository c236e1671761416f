SPECIFICATION FairSpec
CONSTANTS
  Nodes <- TwoNodes
  MaxCrashes = 2
  MaxLosses = 1
INVARIANTS SameNumbers BarrierHolds RecoveredIsOwn
PROPERTIES EverybodyRunsIfHeard
CHECK_DEADLOCK FALSE
