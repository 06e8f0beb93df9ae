\* A pool that is never cleared: its cleanup nodes stay its own.
SPECIFICATION Spec
CONSTANTS
  Word = 128
  SPR_ALIGN_SIZE = 2
  SPR_PAGE_SIZE = 16
  SPR_MAX_POOL_SLOT = 2
  SizeofMemnode = 4
  SizeofPool = 4
  SizeofMutex = 2
  SizeofCleanup = 6
  Nodes = {n1, n2, n3}
  Large = {big}
  Data = {d1}
  Sizes = {5, 20, 44}
  ClientOps = {"palloc", "large", "add", "run", "remove", "destroy"}
  HandlerOps = {"palloc", "add", "large"}
  MaxCleanups = 3
  NULL = NULL
SYMMETRY NodeSymmetry
CHECK_DEADLOCK FALSE
INVARIANTS
  CleanupNodesOwned
