SPECIFICATION LinkFairSpec
CONSTANTS
  Data <- Messages
  Consumers <- TwoReaders
  Op <- MCOp
  Nothing = Nothing
  Foreign = Foreign
  MaxSent = 3
  MaxOwn = 1
  MaxMishaps = 1
INVARIANTS NobodyOversleeps InOrder
PROPERTIES ImplementsFifo ImplementsLink ArrivesUnlessLost
CHECK_DEADLOCK FALSE
