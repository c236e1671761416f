SPECIFICATION Spec
CONSTANTS
  e1 = e1
  e2 = e2
  c1 = c1
  Elevators <- MCElevators
  Calls <- MCCalls
  AddDelta = 3
  ServeDelta = 4
  PollTimeout = 2
  ResendLimit = 1
  PushesInTime = TRUE
  MaxRequests = 2
  MaxClock = 5
SYMMETRY Symmetry
INVARIANTS NoLostWakeup NoTweakLost PatienceAfterAck NoResendAfterServed
PROPERTIES TrackedUntilServed ImplementsBook
CHECK_DEADLOCK FALSE
