SPECIFICATION FairSpec
CONSTANTS
  Clients = {c1, c2}
  NumEntities = 1
  MAX_MSGS = 1
  Callbacks = {k1}
  NoMsg = NoMsg
  MaxLost = 0
  InitialCount <- MCInitialCount
  Changing <- MCChanging
  MaxChanges = 2
PROPERTIES
  EventuallyAgree
CHECK_DEADLOCK FALSE
