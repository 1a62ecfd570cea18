SPECIFICATION MCFairSpec
CONSTANTS
  L = 2
  Deviations <- MCLock
  Primes = {5, 7, 11}
  Ks = {0, 1, 3}
  Secrets <- MCSecrets
  SeedSize = 16
  Claims <- MCClaims
INVARIANT LockIsAudited
CHECK_DEADLOCK FALSE
