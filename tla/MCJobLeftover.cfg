\* The DM_Servers of a failed attempt survive it.
SPECIFICATION FairSpec
CONSTANTS
  Clients <- MCClients
  N = 2
  max_attempts = 2
  Leftovers = TRUE
INVARIANTS
  CountsAreComplete
CHECK_DEADLOCK FALSE
