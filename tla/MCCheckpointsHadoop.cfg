SPECIFICATION Spec
CONSTANTS
  Modes = {"hadoop"}
  IterFlags = {4, 7}
  ChkptInterval = 3
  MaxAttempts = 4
CHECK_DEADLOCK FALSE
INVARIANT
  CheckpointIsComplete
