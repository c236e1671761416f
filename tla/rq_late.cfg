SPECIFICATION FairSpec
CONSTANTS
  e1 = e1
  e2 = e2
  c1 = c1
  Elevators <- OneElevator
  Calls <- MCCalls
  AddDelta = 2
  ServeDelta = 3
  PollTimeout = 1
  ResendLimit = 1
  PushesInTime = FALSE
  MaxRequests = 2
  MaxClock = 4
PROPERTIES OverdueIsTaken
CHECK_DEADLOCK FALSE
