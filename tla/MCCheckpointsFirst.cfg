SPECIFICATION Spec
CONSTANTS
  Modes = {"local"}
  IterFlags = {4, 7}
  ChkptInterval = 3
  MaxAttempts = 4
CHECK_DEADLOCK FALSE
INVARIANT
  FirstAssignmentsAreComplete
