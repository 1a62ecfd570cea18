SPECIFICATION FairSpec
CONSTANTS
  R = 2
  GoodLocks <- SecondLockOnly
  Depth = 2
  MaxPolls = 1
  MaxReorgs = 0
  Faults <- OnlyT2Fails
PROPERTIES
  BuyerIsServed
CHECK_DEADLOCK FALSE
