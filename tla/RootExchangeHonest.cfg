SPECIFICATION FairSpec
CONSTANTS
  P = 3
  Q = 7
  R = 2
  L = 2
  Draws = {0, 3, 7, 10}
  Subsets <- Halves
  OtherValues = {}
  LieKinds <- NoLie
  Plaintexts = {}
INVARIANTS
  RootsComplete
  FactoriseOutcome
PROPERTIES
  HonestExchangeCompletes
CHECK_DEADLOCK FALSE
