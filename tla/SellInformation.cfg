SPECIFICATION FairSpec
CONSTANTS
  T = 4
  Rs = {1, 3}
  Terms <- MCTerms
  Half = 8
  Funds = 7
  MinSend = 2
  Fee = 4
  MaxKeys = 5
INVARIANTS
  TypeOK
  KeptAreFresh
  SpendingThreshold
  AmountsAddUp
  ChainTeachesSignatures
PROPERTY AuditedSaleIsSettled
CHECK_DEADLOCK FALSE
