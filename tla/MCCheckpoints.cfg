SPECIFICATION Spec
CONSTANTS
  Modes = {"local", "hadoop"}
  IterFlags = {4, 7}
  ChkptInterval = 3
  MaxAttempts = 4
CHECK_DEADLOCK FALSE
INVARIANTS
  MetadataBacked
  DoneMeansAllIterations
  ReworkIsBounded
  SomeCopyRemains
PROPERTY
  AssignmentsOnlyAdvance
