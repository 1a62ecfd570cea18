SPECIFICATION FairSpec
CONSTANTS
  R = 3
  GoodLocks <- AllButFirst
  Depth = 3
  MaxPolls = 2
  MaxReorgs = 2
  Faults <- NoFaults
PROPERTIES
  BuyerIsServed
  ProcessEnds
CHECK_DEADLOCK FALSE
