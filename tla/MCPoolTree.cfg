\* Two threads that create, clear and destroy pools below each other's.
SPECIFICATION FairSpec
CONSTANTS
  Threads = {t1, t2}
  MaxPools = 3
CHECK_DEADLOCK FALSE
INVARIANTS
  LockInv
  FreedOnce
  NoChildLost
PROPERTIES
  RecursionRight
  CallsReturn
