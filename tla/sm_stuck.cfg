SPECIFICATION FairSpec
CONSTANTS
  Nodes <- TwoNodes
  MaxCrashes = 0
  MaxLosses = 1
PROPERTIES LateNodeIsAnswered
CHECK_DEADLOCK FALSE
