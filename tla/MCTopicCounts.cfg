SPECIFICATION Spec
CONSTANTS
  Topics = {a, b, c, d}
  INIT_TC_SIZE = 1
  SUBSEQ_ALLOCS = 1
  NULL = NULL
  NoJob = NoJob
  MaxCount = 3
INVARIANTS
  WellFormed
  NewTopFollows
  CountsValidate
SYMMETRY Symmetric
