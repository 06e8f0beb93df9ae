\* Workers under a mutex and a semaphore, started, cancelled and joined.
SPECIFICATION FairSpec
CONSTANTS
  Threads = {w1, w2}
  NULL = NULL
  Values = {1, 2}
  Rounds = 2
CHECK_DEADLOCK FALSE
INVARIANTS
  LockInv
  UnitsConserved
  DoneBeforeFini
  NothingHalfMade
PROPERTIES
  AllJoined
