SPECIFICATION Spec
CONSTANTS
  Modes = {"local"}
  IterFlags = {12}
  ChkptInterval = 5
  MaxAttempts = 2
CHECK_DEADLOCK FALSE
INVARIANT
  StartsFromCheckpoint
