\* Three machines and two attempts, each of which may fail anywhere.
SPECIFICATION FairSpec
CONSTANTS
  Clients <- MCClients
  N = 3
  max_attempts = 2
  Leftovers = FALSE
INVARIANTS
  BarriersHold
  NobodyPassesEarly
  CountsAreComplete
  ServersOutliveClients
  SuccessIsComplete
PROPERTIES
  JobEnds
CHECK_DEADLOCK FALSE
