\* An entry that is not there is asked for.
SPECIFICATION Spec
CONSTANTS
  t1 = t1
  t2 = t2
  Threads = {t1, t2}
  NULL = NULL
  Data = {d1, d2}
  Big = {d2}
  HandlerOps = {}
  AskUnknown = TRUE
  MaxCalls = 2
  OpsOf <- Everyone
CHECK_DEADLOCK FALSE
INVARIANTS
  LockReleased
