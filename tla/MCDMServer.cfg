SPECIFICATION FairSpec
CONSTANTS
  NUM_CONSUMERS = 2
  QUE_FULL = 2
  CHUNK = 2
  Threads = {t1, t2, t3}
  Words <- MCWords
  Requests <- MCRequests
INVARIANTS
  TypeOK
  NoStrandedJobs
  QueueBelowFull
  EachJobOnce
PROPERTIES
  ImplementsMap
  EveryJobAnswered
  PoolRecovers
CONSTRAINT
  OneTraffic
