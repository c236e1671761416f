SPECIFICATION FairSpec
CONSTANTS
  Thresholds <- TwoLoops
  StartDelay = 2
  Long = 4
  MaxForks = 2
  Faults = {"crash", "hang", "stop", "int", "fork"}
  MaxFaults = 2
INVARIANTS NobodyLeavesMotorOn OneChildIfNoneSuspended SilenceIsShort HealthyIsNotKilled
PROPERTIES StuckIsReplaced InterruptEndsAll
CHECK_DEADLOCK FALSE
