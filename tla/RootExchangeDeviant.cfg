SPECIFICATION Spec
CONSTANTS
  P = 3
  Q = 5
  R = 1
  L = 4
  Draws = {1, 7}
  Subsets <- SomeSubsets
  OtherValues <- MCOtherValues
  LieKinds <- AnyLie
  Plaintexts = {23}
INVARIANTS
  TypeOK
  OneRootPerIndex
  ExchangeIsHalfOpen
  LieIsCaught
CHECK_DEADLOCK FALSE
