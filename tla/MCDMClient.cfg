SPECIFICATION FairClientSpec
CONSTANTS
  Clients = {c1}
  NumEntities = 5
  MAX_MSGS = 3
  Callbacks = {k1, k2}
  NoMsg = NoMsg
  MaxLost = 1
INVARIANTS
  SlotsAreExclusive
  OneMessagePerEntity
  NoLostWakeup
PROPERTIES
  SynchronizerReturns
CHECK_DEADLOCK FALSE
