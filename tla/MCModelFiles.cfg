\* Every corpus of one machine and of two, the test data in both modes.
SPECIFICATION Spec
CONSTANTS
  a = a
  b = b
  c = c
  d = d
  x = x
  the = the
  Stopwords = {the}
  Corpora <- MCCorpora
  TestCorpus <- MCTestCorpus
  num_topics = 2
  Modes <- MCModes
  BATCH = 2
  MaxMemory = 3
  NUM_WORDS_PER_TOP = 2
INVARIANTS
  GlobalDictionaryIsRight
  LoadedCountsAreTheLearnt
  LoadedWordsFit
  TopWordsRank
CHECK_DEADLOCK FALSE
