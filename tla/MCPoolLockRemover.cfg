\* One thread registers, runs and removes, and its handlers allocate.
SPECIFICATION Spec
CONSTANTS
  t1 = t1
  t2 = t2
  Threads = {t1, t2}
  NULL = NULL
  Data = {d1, d2, d3}
  Big = {d3}
  HandlerOps = {"palloc", "large"}
  AskUnknown = TRUE
  MaxCalls = 4
  OpsOf <- OneRemover
SYMMETRY DataSymmetry
CHECK_DEADLOCK FALSE
INVARIANTS
  PoolIntact
  RunsOnce
