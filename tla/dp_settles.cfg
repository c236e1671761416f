SPECIFICATION FairSpec
CONSTANTS
  n1 = n1
  n2 = n2
  c1 = c1
  Nodes <- TwoNodes
  Calls <- OneCall
  Landings <- OneLanding
  Mishaps = {"loss", "reorder", "unasked", "early"}
  MaxPresses = 2
  MaxEvents = 2
INVARIANTS OwnLampIsTracked NoCommandToOther
PROPERTIES KeepsBooks EventuallySettled LampsGoOff
CHECK_DEADLOCK FALSE
