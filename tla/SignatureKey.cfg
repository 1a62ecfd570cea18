SPECIFICATION MCFairSpec
CONSTANTS
  L = 3
  Deviations <- MCAll
  Primes = {5, 7, 11}
  Ks = {0, 1, 3}
  Secrets <- MCSecrets
  SeedSize = 16
  Claims <- MCClaims
INVARIANTS
  TypeOK
  VerifiedMeansConsistent
  LockHoldsSecret
  OpenAgreesWithForce
PROPERTIES
  HonestIsVerified
  LockOpens
CHECK_DEADLOCK FALSE
