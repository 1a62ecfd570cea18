SPECIFICATION Spec
CONSTANTS
  R = 3
  GoodLocks <- AllButFirst
  Depth = 3
  MaxPolls = 2
  MaxReorgs = 2
  Faults <- AllFaults
INVARIANTS
  TypeOK
  SellerRevealsOnlyWhenPaid
  ExclusiveOutcome
  ReturnMeansSettled
PROPERTIES
  NoStoreToDeadFrame
  ImplementsFairExchange
CHECK_DEADLOCK FALSE
