\* Threads that allocate and register handlers; every call returns.
SPECIFICATION FairSpec
CONSTANTS
  t1 = t1
  t2 = t2
  Threads = {t1, t2}
  NULL = NULL
  Data = {d1, d2, d3}
  Big = {d3}
  HandlerOps = {}
  AskUnknown = FALSE
  MaxCalls = 3
  OpsOf <- Allocators
CHECK_DEADLOCK FALSE
INVARIANTS
  LockInv
  PoolIntact
PROPERTIES
  CallsReturn
