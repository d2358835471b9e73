\* Streaming mode: the topics that are printed are those read() drew at random.
SPECIFICATION FairSpec
CONSTANTS
  a = a
  b = b
  Words = {a, b}
  Topics <- MCTopics
  Body <- MCBody
  livetokens = 2
  Modes <- MCStreaming
  Iters = 1
  burnin = 1
  optimizestats = 2
  printloglikelihood = 2
  tau = 2
INVARIANTS
  WrittenTopicsAreInferred
CHECK_DEADLOCK FALSE
