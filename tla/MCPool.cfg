\* One pool, all calls, handlers that allocate from the pool.
SPECIFICATION Spec
CONSTANTS
  Word = 128
  SPR_ALIGN_SIZE = 2
  SPR_PAGE_SIZE = 16
  SPR_MAX_POOL_SLOT = 2
  SizeofMemnode = 4
  SizeofPool = 4
  SizeofMutex = 2
  SizeofCleanup = 6
  Nodes = {n1, n2}
  Large = {big}
  Data = {d1}
  Sizes = {5, 20, 44, 127}
  ClientOps = {"palloc", "large", "add", "run", "remove", "clear", "destroy"}
  HandlerOps = {"palloc"}
  MaxCleanups = 2
  NULL = NULL
SYMMETRY NodeSymmetry
CHECK_DEADLOCK FALSE
INVARIANTS
  TypeOK
  NodeAccounting
  BlocksInNodes
  BlocksDisjoint
  SlotTable
  LargeOwnership
  SizesTrue
PROPERTIES
  CleanupRegistry
