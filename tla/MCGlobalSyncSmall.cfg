SPECIFICATION Spec
CONSTANTS
  Clients = {c1, c2}
  NumEntities = 2
  MAX_MSGS = 3
  Callbacks = {k1}
  NoMsg = NoMsg
  MaxLost = 0
  InitialCount <- MCInitialCount
  Changing <- MCChanging
  MaxChanges = 1
INVARIANTS
  OldTopicFound
SYMMETRY Symmetric
CHECK_DEADLOCK FALSE
