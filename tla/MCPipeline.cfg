\* The three modes with a pipeline of their own; of the three iterations,
\* the first samples and evaluates, the second optimizes, the third samples.
SPECIFICATION FairSpec
CONSTANTS
  a = a
  b = b
  Words = {a, b}
  Topics <- MCTopics
  Body <- MCBody
  livetokens = 2
  Modes <- MCTraining
  Iters = 3
  burnin = 1
  optimizestats = 2
  printloglikelihood = 2
  tau = 2
INVARIANTS
  RingIsExclusive
  CountsFollowAssignments
  TotalsCoverTheDocument
  DocumentsKeepTheirWords
PROPERTIES
  BatchesOfTau
  ImplementsSweep
  EveryIterationEnds
CHECK_DEADLOCK FALSE
