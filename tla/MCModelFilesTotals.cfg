\* The totals stored in the dump are added to those counted while it is read.
SPECIFICATION Spec
CONSTANTS
  a = a
  b = b
  c = c
  d = d
  x = x
  the = the
  Stopwords = {the}
  Corpora <- MCCorpora
  TestCorpus <- MCTestCorpus
  num_topics = 2
  Modes <- MCModes
  BATCH = 2
  MaxMemory = 3
  NUM_WORDS_PER_TOP = 2
INVARIANTS
  TotalsAreTheDumped
CHECK_DEADLOCK FALSE
