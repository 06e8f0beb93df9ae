-------------------------------- MODULE Pool --------------------------------
(***************************************************************************)
(* One memory pool of lib/memory/spr_pool.c: its memnodes, the blocks      *)
(* spr_palloc carves out of them, its cleanup list and its reserve of      *)
(* cleanup nodes, from spr_pool_create to spr_pool_destroy.                *)
(*                                                                         *)
(* Calls on the pool are taken one at a time, as its mutex is there to     *)
(* make them; PoolLock models what that mutex really does.  A cleanup      *)
(* handler is the client's code and may call the pool again while          *)
(* spr_pool_cleanup_run1, spr_pool_clear or spr_pool_destroy waits for it  *)
(* to return.  ClientOps and HandlerOps say which calls are made outside   *)
(* and inside of handlers.                                                 *)
(*                                                                         *)
(* An address is a memnode and an offset into it.  What the client writes  *)
(* into its blocks is left out; a block that covers a cleanup node the     *)
(* pool still uses is undefined behaviour and ends the model with fault    *)
(* "overlap".  The pool may have a parent but has no children itself, and  *)
(* the thread that clears or destroys it is its owner.                     *)
(***************************************************************************)
EXTENDS PoolSizes, Sequences

CONSTANTS
  Nodes,       \* the memnodes the system allocator can supply
  Large,       \* the blocks spr_malloc can supply to oversized requests
  Data,        \* the objects clients register cleanup handlers for
  Sizes,       \* the sizes clients ask for
  ClientOps,   \* the calls clients make on the pool once it exists
  HandlerOps,  \* the calls cleanup handlers make on it while they run
  MaxCleanups, \* bound on the cleanup nodes carved out of the pool
  NULL

ASSUME PoolAssumption ==
  /\ Sizes \subseteq 0..(Word - 1)
  /\ HandlerOps \subseteq {"palloc", "large", "add"}
  /\ ClientOps \subseteq {"palloc", "large", "add", "run", "remove", "clear", "destroy"}
  /\ MaxCleanups \in Nat
  /\ NULL \notin Nodes
  /\ Data \cap Large = {}

VARIABLES
  heap,           \* the memnodes allocated and not deallocated
  nodes,          \* spr_pool_s.nodes: a list of memnodes per slot
  parent,         \* spr_pool_s.parent, which nodes[SPR_MAX_POOL_SLOT] aliases
  home,           \* the memnode that holds the spr_pool_s itself
  cleanups,       \* spr_pool_s.cleanups, last registered first
  free_cleanups,  \* spr_pool_s.free_cleanups, the reserve of cleanup nodes
  blocks,         \* the blocks handed out since the pool was created or cleared
  malloced,       \* the oversized blocks that are not freed yet
  pc,             \* where the running call is, see TypeOK
  op,             \* the call that runs handlers: "clear", "destroy" or "run"
  rest,           \* what spr_pool_cleanup_run_all has still to visit (temp1)
  cur,            \* the cleanup node whose handler runs (temp2, node)
  i,              \* slot in spr_pool_destroy; in run1 the position of node
  fault           \* undefined behaviour met, or "none"

memory == <<heap, nodes, parent, home, blocks>>
lists  == <<cleanups, free_cleanups, malloced>>
frame  == <<pc, op, rest, cur, i>>
vars   == <<memory, lists, frame, fault>>

ParentPool == "parent"
Slots      == 0..(SPR_MAX_POOL_SLOT - 1)

(* An address range of a memnode, and an entry of the cleanup list: the    *)
(* cleanup node's own bytes and the object.  The handler of an object of   *)
(* Large is spr_free, the one of an object of Data is the client's.        *)
Block   == [node: Nodes, off: Nat, len: Nat]
Cleanup == [at: Block, data: Data \cup Large]
MemNode == [pages: Nat, begin: Nat, first_avail: Nat, size: Nat, size_avail: Nat]

(* NULL is neither an object nor an entry.                                 *)
ASSUME NullAssumption == NULL \notin Data \cup Large \cup Cleanup

Overlaps(b, c) ==
  b.node = c.node /\ b.off < c.off + c.len /\ c.off < b.off + b.len

(* The addresses of all cleanup nodes the pool still has a pointer to.     *)
CleanupNodes ==
  {cleanups[j].at : j \in DOMAIN cleanups} \cup
  {free_cleanups[j] : j \in DOMAIN free_cleanups} \cup
  {rest[j].at : j \in DOMAIN rest} \cup
  (IF cur = NULL THEN {} ELSE {cur.at})

-----------------------------------------------------------------------------

(* A new memnode; its fields are offsets from its first byte.              *)
spr_memnode_allocate(pages) ==
  LET size == (pages * SPR_PAGE_SIZE) % Word
  IN  [pages       |-> pages,
       begin       |-> SizeofMemnode,
       first_avail |-> SizeofMemnode,
       size        |-> (size - SizeofMemnode) % Word,
       size_avail  |-> (size - SizeofMemnode) % Word]

(* Mutant: first_avail and size_avail are not brought up to date.          *)
HomeNodeNotRefreshed(pages, root) ==
  LET h     == spr_memnode_allocate(pages)
      taken == SizeofPool + (IF root THEN SizeofMutex ELSE 0)
  IN  [h EXCEPT !.begin = @ + taken, !.size = (@ - taken) % Word]

(* The first memnode of a pool: the pool header, and the mutex when the    *)
(* pool has no parent to share one with, precede the space to allocate.    *)
HomeNode(pages, root) ==
  LET h     == spr_memnode_allocate(pages)
      taken == SizeofPool + (IF root THEN SizeofMutex ELSE 0)
  IN  [h EXCEPT !.begin       = @ + taken,
                !.first_avail = h.begin + taken,
                !.size        = (@ - taken) % Word,
                !.size_avail  = (h.size - taken) % Word]

(* (pool->nodes)[index] = node.  The array has SPR_MAX_POOL_SLOT elements, *)
(* so index SPR_MAX_POOL_SLOT writes the field behind it.                  *)
Register(index, n) ==
  IF index \in Slots
  THEN /\ nodes' = [nodes EXCEPT ![index] = <<n>> \o @]
       /\ UNCHANGED parent
  ELSE /\ parent' = n
       /\ UNCHANGED nodes

(* The memnode the search of spr_palloc stops at: the first with enough    *)
(* space, slot by slot from index on and front to back in a slot.          *)
FirstFit(align_size, index) ==
  {n \in DOMAIN heap :
     \E k \in index..(SPR_MAX_POOL_SLOT - 1) : \E j \in DOMAIN nodes[k] :
       /\ n = nodes[k][j]
       /\ heap[n].size_avail >= align_size
       /\ \A k2 \in index..k : \A j2 \in DOMAIN nodes[k2] :
            heap[nodes[k2][j2]].size_avail >= align_size
              => k2 = k /\ j2 >= j}

(* The state of memnode n just before spr_palloc takes its bytes from it.  *)
Source(n, index) ==
  IF n \in DOMAIN heap THEN heap[n] ELSE spr_memnode_allocate(index + 1)

BlockOf(n, align_size, index) ==
  [node |-> n, off |-> Source(n, index).first_avail, len |-> align_size]

(* Mutant: first_avail is not advanced past the block.                     *)
TakeBytesInPlace(n, align_size, index) ==
  LET h == Source(n, index)
      b == BlockOf(n, align_size, index)
  IN  /\ \/ n \in FirstFit(align_size, index) /\ UNCHANGED <<nodes, parent>>
         \/ /\ FirstFit(align_size, index) = {} /\ n \notin DOMAIN heap
            /\ Register(index, n)
      /\ heap' = [m \in DOMAIN heap \cup {n} |->
                    IF m = n THEN [h EXCEPT !.size_avail = (@ - align_size) % Word]
                    ELSE heap[m]]
      /\ blocks' = blocks \cup {b}
      /\ fault' = IF \E c \in CleanupNodes : Overlaps(b, c)
                  THEN "overlap" ELSE fault
      /\ UNCHANGED home

(* The part of spr_palloc under the mutex, when it gets its bytes from n:  *)
(* a memnode that has them or, when there is none, a new one.              *)
TakeBytes(n, align_size, index) ==
  LET h == Source(n, index)
      b == BlockOf(n, align_size, index)
  IN  /\ \/ /\ n \in FirstFit(align_size, index)
            /\ UNCHANGED <<nodes, parent>>
         \/ /\ FirstFit(align_size, index) = {}
            /\ n \notin DOMAIN heap
            /\ Register(index, n)
      /\ heap' = [m \in DOMAIN heap \cup {n} |->
                    IF m = n
                    THEN [h EXCEPT !.size_avail  = (@ - align_size) % Word,
                                   !.first_avail = (@ + align_size) % Word]
                    ELSE heap[m]]
      /\ blocks' = blocks \cup {b}
      /\ fault' = IF \E c \in CleanupNodes : Overlaps(b, c)
                  THEN "overlap" ELSE fault
      /\ UNCHANGED home

(* The search finds nothing and the system allocator refuses a memnode.    *)
NoMemory(align_size, index) == FirstFit(align_size, index) = {}

-----------------------------------------------------------------------------

Init ==
  /\ heap = [n \in {} |-> n]
  /\ nodes = [k \in Slots |-> <<>>]
  /\ parent = NULL /\ home = NULL
  /\ cleanups = <<>> /\ free_cleanups = <<>>
  /\ blocks = {} /\ malloced = {}
  /\ pc = "none" /\ op = "none" /\ rest = <<>> /\ cur = NULL /\ i = 0
  /\ fault = "none"

(* Creation of a pool without (root) or with a parent.                     *)
spr_pool_create1(size, root) ==
  LET align_size == (spr_align_allocation(size) + SizeofPool) % Word
      index      == SlotIndex(align_size)
  IN  /\ pc = "none"
      /\ \/ /\ spr_align_allocation(size) # 0
            /\ index <= SPR_MAX_POOL_SLOT
            /\ \E n \in Nodes :
                 /\ heap' = [m \in {n} |-> HomeNode(index + 1, root)]
                 /\ home' = n
                 /\ nodes' = [k \in Slots |-> IF k = index THEN <<n>> ELSE <<>>]
                 /\ parent' = IF ~root THEN ParentPool
                              ELSE IF index \in Slots THEN NULL ELSE n
            /\ pc' = "idle"
            /\ UNCHANGED <<blocks, op, rest, cur, i>>
         \/ \* size refused, no memory, or spr_mutex_init failed and the
            \* memnode deallocated again
            /\ UNCHANGED <<memory, frame>>
      /\ UNCHANGED <<lists, fault>>

(* The pool can be called: nothing runs on it, or a handler makes the call.*)
Callable(call) ==
  /\ fault = "none"
  /\ \/ pc = "idle" /\ call \in ClientOps
     \/ pc = "handler" /\ call \in HandlerOps

(* Mutant: the node taken from the reserve stays in it.                    *)
AddCleanupKeepsReserve(d) ==
  LET align_size == spr_align_allocation(SizeofCleanup)
      index      == SlotIndex(align_size)
  IN  /\ Len(cleanups) < MaxCleanups
      /\ \/ /\ free_cleanups # <<>>
            /\ cleanups' = <<[at |-> Head(free_cleanups), data |-> d]>> \o cleanups
            /\ UNCHANGED <<memory, fault>>
         \/ /\ free_cleanups = <<>>
            /\ \E n \in Nodes :
                 /\ TakeBytes(n, align_size, index)
                 /\ cleanups' = <<[at |-> BlockOf(n, align_size, index),
                                   data |-> d]>> \o cleanups
      /\ UNCHANGED free_cleanups

(* Mutant: new entries go to the end of the list.                          *)
AddCleanupLast(d) ==
  LET align_size == spr_align_allocation(SizeofCleanup)
      index      == SlotIndex(align_size)
  IN  /\ Len(cleanups) < MaxCleanups
      /\ \E n \in Nodes :
           /\ TakeBytes(n, align_size, index)
           /\ cleanups' = Append(cleanups, [at   |-> BlockOf(n, align_size, index),
                                            data |-> d])
      /\ UNCHANGED free_cleanups

(* spr_pool_cleanup_add1: a node of the reserve or a new one.  The result  *)
(* of its spr_palloc is not checked.                                       *)
AddCleanup(d) ==
  LET align_size == spr_align_allocation(SizeofCleanup)
      index      == SlotIndex(align_size)
  IN  \/ /\ free_cleanups # <<>>
         /\ cleanups' = <<[at |-> Head(free_cleanups), data |-> d]>> \o cleanups
         /\ free_cleanups' = Tail(free_cleanups)
         /\ UNCHANGED <<memory, fault>>
      \/ /\ free_cleanups = <<>>
         /\ Len(cleanups) < MaxCleanups
         /\ \E n \in Nodes :
              /\ TakeBytes(n, align_size, index)
              /\ cleanups' = <<[at |-> BlockOf(n, align_size, index),
                                data |-> d]>> \o cleanups
         /\ UNCHANGED free_cleanups
      \/ /\ free_cleanups = <<>>
         /\ NoMemory(align_size, index)
         /\ fault' = "null"
         /\ UNCHANGED <<memory, cleanups, free_cleanups>>

spr_pool_cleanup_add1(d) ==
  /\ Callable("add")
  /\ AddCleanup(d)
  /\ UNCHANGED <<malloced, frame>>

(* spr_palloc; spr_pcalloc differs in zeroing what it returns.             *)
PallocSmall(align_size, index) ==
  /\ Callable("palloc")
  /\ \/ /\ \E n \in Nodes : TakeBytes(n, align_size, index)
     \/ /\ NoMemory(align_size, index)
        /\ UNCHANGED <<memory, fault>>
  /\ UNCHANGED lists

PallocLarge ==
  /\ Callable("large")
  /\ \/ /\ \E m \in Large \ malloced :
             malloced' = malloced \cup {m} /\ AddCleanup(m)
     \/ UNCHANGED <<memory, lists, fault>>

spr_palloc(size) ==
  LET align_size == spr_align_allocation(size)
      index      == SlotIndex(align_size)
  IN  /\ \/ /\ align_size = 0
            /\ Callable("palloc")
            /\ UNCHANGED <<memory, lists, fault>>
         \/ /\ align_size # 0
            /\ index <= SPR_MAX_POOL_SLOT
            /\ PallocSmall(align_size, index)
         \/ /\ align_size # 0
            /\ index > SPR_MAX_POOL_SLOT
            /\ PallocLarge
      /\ UNCHANGED frame

(* The position of the cleanup node for d that a walk of the list finds.   *)
Found(d, k) ==
  /\ k \in DOMAIN cleanups
  /\ cleanups[k].data = d
  /\ \A k2 \in 1..(k - 1) : cleanups[k2].data # d

(* Mutant: the object, not the node, goes into the reserve.                *)
UnlinkObject(k) ==
  /\ cleanups' = SubSeq(cleanups, 1, k - 1) \o
                 SubSeq(cleanups, k + 1, Len(cleanups))
  /\ free_cleanups' = <<cleanups[k].data>> \o free_cleanups

(* Take entry k out of the list and put its node into the reserve.         *)
Unlink(k) ==
  /\ cleanups' = SubSeq(cleanups, 1, k - 1) \o
                 SubSeq(cleanups, k + 1, Len(cleanups))
  /\ free_cleanups' = <<cleanups[k].at>> \o free_cleanups

(* spr_pool_cleanup_run1 up to the return of spr_free, or up to the call   *)
(* of the client's handler.                                                *)
spr_pool_cleanup_run1(d) ==
  /\ Callable("run")
  /\ \/ /\ \A k \in DOMAIN cleanups : cleanups[k].data # d
        /\ UNCHANGED <<lists, frame>>
     \/ \E k \in DOMAIN cleanups :
          /\ Found(d, k)
          /\ \/ /\ d \in Large
                /\ malloced' = malloced \ {d}
                /\ Unlink(k)
                /\ UNCHANGED frame
             \/ /\ d \notin Large
                /\ pc' = "handler" /\ op' = "run" /\ cur' = cleanups[k] /\ i' = k
                /\ UNCHANGED <<lists, rest>>
  /\ UNCHANGED <<memory, fault>>

(* An oversized block taken out of the list is the client's to free.       *)
spr_pool_cleanup_remove1(d) ==
  /\ Callable("remove")
  /\ \/ /\ \A k \in DOMAIN cleanups : cleanups[k].data # d
        /\ UNCHANGED lists
     \/ \E k \in DOMAIN cleanups :
          Found(d, k) /\ Unlink(k) /\ malloced' = malloced \ {d}
  /\ UNCHANGED <<memory, frame, fault>>

-----------------------------------------------------------------------------

(* spr_pool_clear and spr_pool_destroy by the owner start with             *)
(* spr_pool_cleanup_run_all.                                               *)
StartRunAll(call) ==
  /\ Callable(call)
  /\ pc' = "walk" /\ op' = call /\ rest' = cleanups
  /\ UNCHANGED <<memory, lists, cur, i, fault>>

spr_pool_clear == StartRunAll("clear")
spr_pool_destroy == StartRunAll("destroy")

(* One turn of the loop of spr_pool_cleanup_run_all.                       *)
RunNext ==
  /\ pc = "walk" /\ fault = "none" /\ rest # <<>>
  /\ rest' = Tail(rest)
  /\ \/ /\ Head(rest).data \in Large
        /\ malloced' = malloced \ {Head(rest).data}
        /\ free_cleanups' = <<Head(rest).at>> \o free_cleanups
        /\ UNCHANGED <<pc, cur>>
     \/ /\ Head(rest).data \notin Large
        /\ pc' = "handler" /\ cur' = Head(rest)
        /\ UNCHANGED <<malloced, free_cleanups>>
  /\ UNCHANGED <<memory, cleanups, op, i, fault>>

(* The client's handler returns into spr_pool_cleanup_run_all.             *)
ReturnToRunAll ==
  /\ pc = "handler" /\ fault = "none" /\ op # "run"
  /\ free_cleanups' = <<cur.at>> \o free_cleanups
  /\ pc' = "walk" /\ cur' = NULL
  /\ UNCHANGED <<memory, cleanups, malloced, op, rest, i, fault>>

(* The client's handler returns into spr_pool_cleanup_run1.  prev was set  *)
(* only if the node was not the first of the list when it was found.       *)
ReturnToRun1 ==
  /\ pc = "handler" /\ fault = "none" /\ op = "run"
  /\ \E k \in DOMAIN cleanups :
       /\ cleanups[k].at = cur.at
       /\ \/ /\ k = 1 \/ i > 1
             /\ Unlink(k)
             /\ UNCHANGED fault
          \/ /\ k > 1 /\ i = 1
             /\ fault' = "wild"
             /\ UNCHANGED <<cleanups, free_cleanups>>
  /\ pc' = "idle" /\ op' = "none" /\ cur' = NULL /\ i' = 0
  /\ UNCHANGED <<memory, malloced, rest>>

(* All memnodes a loop over the slots reaches.                             *)
Registered == {n \in Nodes : \E k \in Slots : \E j \in DOMAIN nodes[k] : n = nodes[k][j]}

(* Mutant: pool->cleanups is not reset.                                    *)
FinishClearKeepsList ==
  /\ pc = "walk" /\ fault = "none" /\ rest = <<>> /\ op = "clear"
  /\ pc' = "idle" /\ op' = "none"
  /\ UNCHANGED <<memory, lists, rest, cur, i, fault>>

(* Mutant: the loop over the slots stops one slot early.                   *)
FinishClearStopsEarly ==
  /\ pc = "walk" /\ fault = "none" /\ rest = <<>> /\ op = "clear"
  /\ cleanups' = <<>>
  /\ heap' = [n \in DOMAIN heap |->
                IF \E j \in DOMAIN nodes[0] : n = nodes[0][j]
                THEN [heap[n] EXCEPT !.first_avail = heap[n].begin,
                                     !.size_avail  = heap[n].size]
                ELSE heap[n]]
  /\ blocks' = {}
  /\ pc' = "idle" /\ op' = "none"
  /\ UNCHANGED <<nodes, parent, home, free_cleanups, malloced, rest, cur, i, fault>>

(* The end of spr_pool_clear.                                              *)
FinishClear ==
  /\ pc = "walk" /\ fault = "none" /\ rest = <<>> /\ op = "clear"
  /\ cleanups' = <<>>
  /\ heap' = [n \in DOMAIN heap |->
                IF n \in Registered
                THEN [heap[n] EXCEPT !.first_avail = heap[n].begin,
                                     !.size_avail  = heap[n].size]
                ELSE heap[n]]
  /\ blocks' = {}
  /\ pc' = "idle" /\ op' = "none"
  /\ UNCHANGED <<nodes, parent, home, free_cleanups, malloced, rest, cur, i, fault>>

(* spr_pool_destroy goes on to its memnodes.                               *)
StartFree ==
  /\ pc = "walk" /\ fault = "none" /\ rest = <<>> /\ op = "destroy"
  /\ cleanups' = <<>>
  /\ pc' = "free" /\ i' = 0
  /\ UNCHANGED <<memory, free_cleanups, malloced, op, rest, cur, fault>>

(* Mutant: only the first memnode of a slot is freed.                      *)
FreeSlotHead ==
  /\ pc = "free" /\ fault = "none" /\ i \in Slots
  /\ LET freed == IF nodes[i] = <<>> THEN {} ELSE {Head(nodes[i])}
     IN  /\ heap' = [n \in DOMAIN heap \ freed |-> heap[n]]
         /\ blocks' = {b \in blocks : b.node \notin freed}
  /\ i' = i + 1
  /\ UNCHANGED <<nodes, parent, home, lists, pc, op, rest, cur, fault>>

(* One turn of the loop of spr_pool_destroy over the slots.  It reads the  *)
(* pool header; when that was freed with its memnode in an earlier turn,   *)
(* the read yields what was there or goes wrong.                           *)
FreeSlot ==
  /\ pc = "free" /\ fault = "none" /\ i \in Slots
  /\ \/ LET freed == {n \in Nodes : \E j \in DOMAIN nodes[i] : n = nodes[i][j]}
        IN  /\ heap' = [n \in DOMAIN heap \ freed |-> heap[n]]
            /\ blocks' = {b \in blocks : b.node \notin freed}
            /\ i' = i + 1
            /\ UNCHANGED fault
     \/ /\ home \notin DOMAIN heap
        /\ fault' = "header"
        /\ UNCHANGED <<heap, blocks, i>>
  /\ UNCHANGED <<nodes, parent, home, lists, pc, op, rest, cur>>

FinishDestroy ==
  /\ pc = "free" /\ fault = "none" /\ i \notin Slots
  /\ pc' = "gone"
  /\ UNCHANGED <<memory, lists, op, rest, cur, i, fault>>

-----------------------------------------------------------------------------

Internal ==
  \/ RunNext \/ ReturnToRunAll \/ ReturnToRun1
  \/ FinishClear \/ StartFree \/ FreeSlot \/ FinishDestroy

Calls ==
  \/ \E size \in Sizes : \/ \E root \in BOOLEAN : spr_pool_create1(size, root)
                         \/ spr_palloc(size)
  \/ \E d \in Data : spr_pool_cleanup_add1(d)
  \/ \E d \in Data \cup Large : \/ spr_pool_cleanup_run1(d)
                                \/ spr_pool_cleanup_remove1(d)
  \/ spr_pool_clear
  \/ spr_pool_destroy

Next == Calls \/ Internal

Spec == Init /\ [][Next]_vars

-----------------------------------------------------------------------------

(***************************************************************************)
(* Every variable has its type.  pc is "none" before the pool exists,      *)
(* "idle" between calls, "walk" in the loop of spr_pool_cleanup_run_all,   *)
(* "handler" while a client's handler runs, "free" in the last loop of     *)
(* spr_pool_destroy and "gone" after it.                                   *)
(***************************************************************************)
TypeOK ==
  /\ DOMAIN heap \subseteq Nodes
  /\ heap \in [DOMAIN heap -> MemNode]
  /\ nodes \in [Slots -> Seq(Nodes)]
  /\ parent \in Nodes \cup {NULL, ParentPool}
  /\ home \in Nodes \cup {NULL}
  /\ cleanups \in Seq(Cleanup) /\ rest \in Seq(Cleanup)
  /\ free_cleanups \in Seq(Block)
  /\ blocks \subseteq Block
  /\ malloced \subseteq Large
  /\ pc \in {"none", "idle", "walk", "handler", "free", "gone"}
  /\ op \in {"none", "run", "clear", "destroy"}
  /\ cur \in Cleanup \cup {NULL}
  /\ i \in Nat
  /\ fault \in {"none", "overlap", "null", "wild", "header"}

(***************************************************************************)
(* What spr_palloc has carved off a memnode and what it believes to be     *)
(* left always add up to the memory the memnode was allocated with:        *)
(* first_avail and the redundant counter size_avail ("To increase search   *)
(* speed") agree through creation, allocation and spr_pool_clear.          *)
(***************************************************************************)
NodeAccounting ==
  \A n \in DOMAIN heap :
    /\ heap[n].begin <= heap[n].first_avail
    /\ heap[n].first_avail + heap[n].size_avail = heap[n].pages * SPR_PAGE_SIZE
    /\ heap[n].begin + heap[n].size = heap[n].pages * SPR_PAGE_SIZE

(***************************************************************************)
(* Every block spr_palloc has returned lies behind the headers of a        *)
(* memnode that is still allocated, and ends where it is within it.        *)
(***************************************************************************)
BlocksInNodes ==
  \A b \in blocks :
    /\ b.node \in DOMAIN heap
    /\ heap[b.node].begin <= b.off
    /\ b.off + b.len <= heap[b.node].first_avail
    /\ heap[b.node].first_avail <= heap[b.node].pages * SPR_PAGE_SIZE

(***************************************************************************)
(* No byte is in two blocks that spr_palloc has returned since the pool    *)
(* was created or cleared.                                                 *)
(***************************************************************************)
BlocksDisjoint ==
  \A b, c \in blocks : b # c => ~ Overlaps(b, c)

(***************************************************************************)
(* A memnode is in one place of the slot table, in the slot that stands    *)
(* for its number of pages: spr_palloc starts its search there, and        *)
(* spr_pool_get_total_size derives the size of a memnode from its slot.    *)
(***************************************************************************)
SlotsByPages ==
  pc \notin {"free", "gone"} =>
    \A k, k2 \in Slots : \A j \in DOMAIN nodes[k], j2 \in DOMAIN nodes[k2] :
      /\ nodes[k][j] \in DOMAIN heap
      /\ heap[nodes[k][j]].pages = k + 1
      /\ nodes[k][j] = nodes[k2][j2] => k = k2 /\ j = j2

(***************************************************************************)
(* Every memnode the pool has allocated can be reached through the slot    *)
(* table until spr_pool_destroy has freed it, and none is left then.       *)
(***************************************************************************)
AllNodesRegistered ==
  /\ pc \in {"idle", "walk", "handler"} => DOMAIN heap = Registered
  /\ pc = "gone" => DOMAIN heap = {}

(***************************************************************************)
(* An oversized block has exactly one entry in the cleanup list that will  *)
(* free it, and no entry is left behind that would free it twice; a pool   *)
(* that is gone has freed them all.                                        *)
(***************************************************************************)
LargeOwnership ==
  pc \in {"idle", "gone"} /\ fault = "none" =>
    /\ \A m \in malloced : \E k \in DOMAIN cleanups : cleanups[k].data = m
    /\ \A k \in DOMAIN cleanups :
         cleanups[k].data \in Large =>
           /\ cleanups[k].data \in malloced
           /\ \A k2 \in DOMAIN cleanups :
                cleanups[k2].data = cleanups[k].data => k2 = k

(***************************************************************************)
(* A cleanup node is used for one thing at a time: it is one entry of the  *)
(* list or one node of the reserve.                                        *)
(***************************************************************************)
CleanupNodesDistinct ==
  pc = "idle" /\ fault = "none" =>
    LET all == [k \in DOMAIN cleanups |-> cleanups[k].at] \o free_cleanups
    IN  \A k, k2 \in DOMAIN all : Overlaps(all[k], all[k2]) => k = k2

(***************************************************************************)
(* The pool never hands out memory that one of its own cleanup nodes, in   *)
(* the list or in the reserve, still occupies.                             *)
(***************************************************************************)
NoOverlap == fault # "overlap"

(***************************************************************************)
(* The slot table is right: every memnode is in it, once and in its slot,  *)
(* and what is in it is freed with the pool.                               *)
(***************************************************************************)
SlotTable == SlotsByPages /\ AllNodesRegistered

(***************************************************************************)
(* The cleanup nodes keep their memory to themselves: no block that        *)
(* spr_palloc returns covers one, and no two of them share it.             *)
(***************************************************************************)
CleanupNodesOwned == NoOverlap /\ CleanupNodesDistinct
=============================================================================
