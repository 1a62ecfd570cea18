SPECIFICATION FairSpec
CONSTANTS
  T = 3
  Rs = {2}
  Terms <- MCOneTerm
  Half = 8
  Funds = 7
  MinSend = 2
  Fee = 4
  MaxKeys = 5
INVARIANT KeptLocksStayClosed
CHECK_DEADLOCK FALSE
