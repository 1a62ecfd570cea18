SPECIFICATION MCSpec
CONSTANTS
  n = 7
  xcoord <- MCxcoord
  Moduli <- MCModuli
  Data <- MCData
  Forgetful = TRUE
  KeyPairs <- MCKeyPairs
  Powers = {0, 1, 4}
  MaxOps = 3
INVARIANTS
  TypeOK
  NoWrap
  SignatureIsValid
  HonestOutcome
  OpenIsExact
  Homomorphic
  RefusedOnlyForBlinding
CHECK_DEADLOCK FALSE
