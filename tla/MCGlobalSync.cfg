SPECIFICATION Spec
CONSTANTS
  Clients = {c1, c2}
  NumEntities = 3
  MAX_MSGS = 2
  Callbacks = {k1}
  NoMsg = NoMsg
  MaxLost = 0
  InitialCount <- MCInitialCount
  Changing <- MCChanging
  MaxChanges = 1
INVARIANTS
  TokensConserved
  OldTopicFound
  InitialCountsComplete
SYMMETRY Symmetric
CHECK_DEADLOCK FALSE
