SPECIFICATION FairSpec
CONSTANTS
  T = 4
  R = 2
  Choices <- AllVectors
  Cheats <- AnyCheat
INVARIANTS
  TypeOK
  ChosenStayClosed
  AcceptedMeansAudited
  IndicesMetOnce
PROPERTIES
  ImplementsAudit
  HonestIsAccepted
CHECK_DEADLOCK FALSE
