SPECIFICATION FairSpec
CONSTANTS
  R = 2
  GoodLocks <- SecondLockOnly
  Depth = 2
  MaxPolls = 1
  MaxReorgs = 0
  Faults <- OnlyLateWatch
PROPERTIES
  PaidSaleTeaches
CHECK_DEADLOCK FALSE
