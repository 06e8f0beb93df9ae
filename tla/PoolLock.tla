------------------------------ MODULE PoolLock ------------------------------
(***************************************************************************)
(* Threads that share a pool: the calls of lib/memory/spr_pool.c that any  *)
(* thread may make, step by step, as SPR_POOL_THREAD_SAFETY builds them.   *)
(* A step is a read or a change of what the threads share: the mutex, the  *)
(* free memory of the pool, the cleanup list or the reserve of its nodes.  *)
(*                                                                         *)
(* A row of cells from first_avail on stands for the slots with their      *)
(* memnodes, which module Pool has one by one: one read and one write under*)
(* the mutex.  Every allocation takes one cell, and a cleanup node is a    *)
(* cell.  Every call takes at most one, so that MaxCalls bounds the cells. *)
(***************************************************************************)
EXTENDS SprMutex, FiniteSets, Sequences, Pointers

CONSTANTS
  Data,        \* objects with a cleanup handler, registered at most once
  Big,         \* those that are oversized blocks, with spr_free as handler
  OpsOf,       \* the calls each thread makes
  HandlerOps,  \* the calls the cleanup handlers make
  AskUnknown,  \* clients may ask for entries that are not registered
  MaxCalls     \* bound on the calls of a thread

PoolOps == {"palloc", "large", "refused", "add", "run", "remove"}

ASSUME LockAssumption ==
  /\ Big \subseteq Data
  /\ OpsOf \in [Threads -> SUBSET PoolOps]
  /\ HandlerOps \subseteq {"palloc", "large"}
  /\ AskUnknown \in BOOLEAN
  /\ MaxCalls \in Nat \ {0}
  /\ IsFiniteSet(Threads) /\ IsFiniteSet(Data)

VARIABLES
  first_avail,    \* the first cell not handed out
  cleanups,       \* spr_pool_s.cleanups, a cell or 0 for NULL
  free_cleanups,  \* spr_pool_s.free_cleanups
  next, data,     \* the fields of the cells that are cleanup nodes
  me,             \* the running procedure of each thread: pc and locals
  callers,        \* its suspended procedures, innermost first
  mem,            \* what spr_palloc is going to return to each thread
  blocks,         \* the cells each thread's client has got
  calls,          \* the calls each thread may still make
  entries,        \* the objects that are registered
  fresh,          \* the objects never registered
  runs,           \* how often the handler of each object has run
  wild            \* an uninitialised prev was used

pool   == <<first_avail, cleanups, free_cleanups, next, data>>
client == <<blocks, calls, entries, fresh, runs>>
vars   == <<holder, depth, pool, me, callers, mem, client, wild>>

Cells == 1..(MaxCalls * Cardinality(Threads) + Cardinality(Data))
None  == "none"   \* no object
Unset == -1      \* an uninitialised pointer

(* The steps of the procedures, each named for what it is going to do.     *)
Pcs == {"idle", "palloc_lock", "palloc_read", "palloc_write", "palloc_unlock",
        "large_add", "large_unlock", "add_lock", "add_take", "add_link", "add_push",
        "add_unlock", "read_head", "search_lock", "search", "handler", "unlink",
        "reserve", "search_unlock"}

Frame == [pc: Pcs, node: {0} \cup Cells, prev: {Unset, 0} \cup Cells,
          want: Data \cup {None}, run: BOOLEAN]
Idle  == [pc |-> "idle", node |-> 0, prev |-> Unset, want |-> None, run |-> FALSE]

At(t, pc)   == me[t].pc = pc
Goto(t, pc) == me' = [me EXCEPT ![t].pc = pc]

(* Thread t calls a procedure and goes on at pc when it returns.           *)
Call(t, pc, callee) ==
  /\ me' = [me EXCEPT ![t] = callee]
  /\ callers' = [callers EXCEPT ![t] = <<[me[t] EXCEPT !.pc = pc]>> \o @]

Return(t) ==
  IF callers[t] = <<>>
  THEN me' = [me EXCEPT ![t] = Idle] /\ UNCHANGED callers
  ELSE /\ me' = [me EXCEPT ![t] = Head(callers[t])]
       /\ callers' = [callers EXCEPT ![t] = Tail(@)]

Procedure(pc, d, run) ==
  [pc |-> pc, node |-> 0, prev |-> Unset, want |-> d, run |-> run]

-----------------------------------------------------------------------------

Init ==
  /\ MutexInit
  /\ first_avail = 1 /\ cleanups = 0 /\ free_cleanups = 0
  /\ next = [c \in Cells |-> 0] /\ data = [c \in Cells |-> None]
  /\ me = [t \in Threads |-> Idle] /\ callers = [t \in Threads |-> <<>>]
  /\ mem = [t \in Threads |-> 0]
  /\ blocks = [t \in Threads |-> {}]
  /\ calls = [t \in Threads |-> MaxCalls]
  /\ entries = {} /\ fresh = Data
  /\ runs = [d \in Data |-> 0]
  /\ wild = FALSE

(* A client's call.  An oversized request has its block from spr_malloc    *)
(* when it registers it; a refused one cannot be aligned, or spr_malloc    *)
(* has nothing for it.                                                     *)
Start(t) ==
  /\ ~ wild /\ At(t, "idle") /\ calls[t] > 0
  /\ calls' = [calls EXCEPT ![t] = @ - 1]
  /\ \/ /\ "palloc" \in OpsOf[t]
        /\ me' = [me EXCEPT ![t] = Procedure("palloc_lock", None, FALSE)]
        /\ UNCHANGED fresh
     \/ /\ "refused" \in OpsOf[t]
        /\ me' = [me EXCEPT ![t] = Procedure("large_unlock", None, FALSE)]
        /\ UNCHANGED fresh
     \/ \E d \in fresh :
          /\ \/ /\ "large" \in OpsOf[t] /\ d \in Big
                /\ me' = [me EXCEPT ![t] = Procedure("large_add", d, FALSE)]
             \/ /\ "add" \in OpsOf[t] /\ d \notin Big
                /\ me' = [me EXCEPT ![t] = Procedure("add_lock", d, FALSE)]
          /\ fresh' = fresh \ {d}
     \/ \E d \in Data :
          /\ AskUnknown \/ d \in entries
          /\ \/ /\ "run" \in OpsOf[t]
                /\ me' = [me EXCEPT ![t] = Procedure("read_head", d, TRUE)]
             \/ /\ "remove" \in OpsOf[t]
                /\ me' = [me EXCEPT ![t] = Procedure("read_head", d, FALSE)]
          /\ UNCHANGED fresh
  /\ UNCHANGED <<holder, depth, pool, callers, mem, blocks, entries, runs, wild>>

LockStep(t, from, to) ==
  /\ At(t, from) /\ spr_mutex_lock(t) /\ Goto(t, to)
  /\ UNCHANGED <<pool, callers, mem, client, wild>>

(* The way out of most procedures.                                         *)
UnlockStep(t, from) ==
  /\ At(t, from) /\ spr_mutex_unlock(t) /\ Return(t)
  /\ UNCHANGED <<pool, mem, client, wild>>

-----------------------------------------------------------------------------

(* spr_palloc of a size that a memnode holds.                              *)
palloc_lock(t) == LockStep(t, "palloc_lock", "palloc_read")

palloc_read(t) ==
  /\ At(t, "palloc_read")
  /\ mem' = [mem EXCEPT ![t] = first_avail]
  /\ Goto(t, "palloc_write")
  /\ UNCHANGED <<holder, depth, pool, callers, client, wild>>

(* No memnode has room and none can be allocated: NULL.  When it was to be *)
(* a cleanup node, spr_pool_cleanup_add1 writes through that NULL, which   *)
(* the module does not follow.                                             *)
palloc_fails(t) ==
  /\ UnlockStep(t, "palloc_read")
  /\ callers[t] # <<>> => Head(callers[t]).pc # "add_link"

palloc_write(t) ==
  /\ At(t, "palloc_write")
  /\ first_avail' = mem[t] + 1
  /\ Goto(t, "palloc_unlock")
  /\ UNCHANGED <<holder, depth, cleanups, free_cleanups, next, data, callers,
                 mem, client, wild>>

(* The block goes to the client unless spr_pool_cleanup_add1 asked for it. *)
palloc_unlock(t) ==
  /\ At(t, "palloc_unlock") /\ spr_mutex_unlock(t) /\ Return(t)
  /\ blocks' = IF callers[t] # <<>> /\ Head(callers[t]).pc = "add_link"
               THEN blocks
               ELSE [blocks EXCEPT ![t] = @ \cup {mem[t]}]
  /\ UNCHANGED <<pool, mem, calls, entries, fresh, runs, wild>>

(* spr_palloc of an oversized block: it is registered, then the mutex is   *)
(* unlocked on a path that has not locked it.                              *)
large_add(t) ==
  /\ At(t, "large_add")
  /\ Call(t, "large_unlock", Procedure("add_lock", me[t].want, FALSE))
  /\ UNCHANGED <<holder, depth, pool, mem, client, wild>>

large_unlock(t) == UnlockStep(t, "large_unlock")

-----------------------------------------------------------------------------

(* Mutant: the mutex is not locked.                                        *)
AddWithoutLock(t) ==
  /\ At(t, "add_lock") /\ Goto(t, "add_take")
  /\ UNCHANGED <<holder, depth, pool, callers, mem, client, wild>>

(* spr_pool_cleanup_add1.                                                  *)
add_lock(t) == LockStep(t, "add_lock", "add_take")

add_take(t) ==
  /\ At(t, "add_take")
  /\ \/ /\ free_cleanups # 0
        /\ mem' = [mem EXCEPT ![t] = free_cleanups]
        /\ free_cleanups' = next[free_cleanups]
        /\ Goto(t, "add_link")
        /\ UNCHANGED callers
     \/ /\ free_cleanups = 0
        /\ Call(t, "add_link", Procedure("palloc_lock", None, FALSE))
        /\ UNCHANGED <<mem, free_cleanups>>
  /\ UNCHANGED <<holder, depth, first_avail, cleanups, next, data, client, wild>>

add_link(t) ==
  /\ At(t, "add_link")
  /\ data' = [data EXCEPT ![mem[t]] = me[t].want]
  /\ next' = [next EXCEPT ![mem[t]] = cleanups]
  /\ Goto(t, "add_push")
  /\ UNCHANGED <<holder, depth, first_avail, cleanups, free_cleanups, callers,
                 mem, client, wild>>

add_push(t) ==
  /\ At(t, "add_push")
  /\ cleanups' = mem[t]
  /\ entries' = entries \cup {me[t].want}
  /\ Goto(t, "add_unlock")
  /\ UNCHANGED <<holder, depth, first_avail, free_cleanups, next, data, callers,
                 mem, blocks, calls, fresh, runs, wild>>

add_unlock(t) == UnlockStep(t, "add_unlock")

-----------------------------------------------------------------------------

(* spr_pool_cleanup_run1 and spr_pool_cleanup_remove1, which differ in the *)
(* call of the handler.  The head of the list is read before the mutex is  *)
(* locked, and the way out of a search without success does not unlock.    *)
read_head(t) ==
  /\ At(t, "read_head")
  /\ me' = [me EXCEPT ![t].node = cleanups, ![t].pc = "search_lock"]
  /\ UNCHANGED <<holder, depth, pool, callers, mem, client, wild>>

search_lock(t) == LockStep(t, "search_lock", "search")

search(t) ==
  /\ At(t, "search")
  /\ LET node == me[t].node
     IN  \/ /\ node = 0
            /\ Return(t)
         \/ /\ node # 0 /\ data[node] = me[t].want
            /\ Goto(t, IF me[t].run THEN "handler" ELSE "unlink")
            /\ UNCHANGED callers
         \/ /\ node # 0 /\ data[node] # me[t].want
            /\ me' = [me EXCEPT ![t].prev = node, ![t].node = next[node]]
            /\ UNCHANGED callers
  /\ UNCHANGED <<holder, depth, pool, mem, client, wild>>

(* The handler: spr_free, or the client's, which may call the pool itself. *)
handler(t) ==
  /\ At(t, "handler")
  /\ runs' = [runs EXCEPT ![me[t].want] = @ + 1]
  /\ \/ /\ Goto(t, "unlink")
        /\ UNCHANGED <<callers, fresh>>
     \/ /\ me[t].want \notin Big
        /\ "palloc" \in HandlerOps /\ first_avail \in Cells
        /\ Call(t, "unlink", Procedure("palloc_lock", None, FALSE))
        /\ UNCHANGED fresh
     \/ \E d \in fresh \cap Big :
          /\ me[t].want \notin Big
          /\ "large" \in HandlerOps
          /\ Call(t, "unlink", Procedure("large_add", d, FALSE))
          /\ fresh' = fresh \ {d}
  /\ UNCHANGED <<holder, depth, pool, mem, blocks, calls, entries, wild>>

(* Mutant: the entry stays in the list.                                    *)
UnlinkNothing(t) ==
  /\ At(t, "unlink")
  /\ entries' = entries \ {me[t].want}
  /\ Goto(t, "search_unlock")
  /\ UNCHANGED <<holder, depth, pool, callers, mem, blocks, calls, fresh, runs, wild>>

unlink(t) ==
  LET node == me[t].node
      prev == me[t].prev
  IN  /\ At(t, "unlink")
      /\ \/ /\ cleanups = node
            /\ cleanups' = next[node]
            /\ UNCHANGED <<next, wild>>
         \/ /\ cleanups # node /\ prev # Unset
            /\ next' = [next EXCEPT ![prev] = next[node]]
            /\ UNCHANGED <<cleanups, wild>>
         \/ /\ cleanups # node /\ prev = Unset
            /\ wild' = TRUE
            /\ UNCHANGED <<cleanups, next>>
      /\ entries' = entries \ {me[t].want}
      /\ Goto(t, "reserve")
      /\ UNCHANGED <<holder, depth, first_avail, free_cleanups, data, callers,
                     mem, blocks, calls, fresh, runs>>

(* Mutant: the rest of the reserve is lost.                                *)
ReserveLosesRest(t) ==
  /\ At(t, "reserve")
  /\ next' = [next EXCEPT ![me[t].node] = 0]
  /\ free_cleanups' = me[t].node
  /\ Goto(t, "search_unlock")
  /\ UNCHANGED <<holder, depth, first_avail, cleanups, data, callers, mem, client, wild>>

reserve(t) ==
  /\ At(t, "reserve")
  /\ next' = [next EXCEPT ![me[t].node] = free_cleanups]
  /\ free_cleanups' = me[t].node
  /\ Goto(t, "search_unlock")
  /\ UNCHANGED <<holder, depth, first_avail, cleanups, data, callers, mem, client, wild>>

search_unlock(t) == UnlockStep(t, "search_unlock")

-----------------------------------------------------------------------------

(* A step of a call under way; memory that an uninitialised pointer has    *)
(* been written through is no longer modelled.                             *)
Step(t) ==
  /\ ~ wild
  /\ \/ palloc_lock(t) \/ palloc_read(t) \/ palloc_fails(t) \/ palloc_write(t)
     \/ palloc_unlock(t)
     \/ large_add(t) \/ large_unlock(t)
     \/ add_lock(t) \/ add_take(t) \/ add_link(t) \/ add_push(t) \/ add_unlock(t)
     \/ read_head(t) \/ search_lock(t) \/ search(t) \/ handler(t) \/ unlink(t)
     \/ reserve(t) \/ search_unlock(t)

Next == \E t \in Threads : Start(t) \/ Step(t)

Spec == Init /\ [][Next]_vars

(* Every thread in a call is scheduled, and gets the mutex once the others *)
(* stop asking for it: calls are finitely many.                            *)
FairSpec == Spec /\ \A t \in Threads : WF_vars(Step(t))

-----------------------------------------------------------------------------

(* The steps between taking the mutex and giving it back.                  *)
Critical ==
  {"palloc_read", "palloc_write", "palloc_unlock",
   "add_take", "add_link", "add_push", "add_unlock",
   "search", "handler", "unlink", "reserve", "search_unlock"}

InCritical(t) ==
  \/ me[t].pc \in Critical
  \/ \E k \in DOMAIN callers[t] : callers[t][k].pc \in Critical

(* The cells a walk from h along the next pointers meets, and whether it   *)
(* comes to an end.                                                        *)
Walk(h)  == Way(h, next, Cardinality(Cells))
Chain(h) == {Walk(h)[k] : k \in 0..Cardinality(Cells)} \ {0}
Ends(h)  == Walk(h)[Cardinality(Cells)] = 0

(***************************************************************************)
(* Every variable has its type; the mutex is held as often as locked.      *)
(***************************************************************************)
TypeOK ==
  /\ holder \in Threads \cup {NULL}
  /\ depth \in Nat /\ (depth = 0 <=> holder = NULL)
  /\ first_avail \in Cells \cup {Cardinality(Cells) + 1}
  /\ {cleanups, free_cleanups} \subseteq Cells \cup {0}
  /\ next \in [Cells -> Cells \cup {0}]
  /\ data \in [Cells -> Data \cup {None}]
  /\ me \in [Threads -> Frame]
  /\ callers \in [Threads -> Seq(Frame)]
  /\ mem \in [Threads -> Cells \cup {0}]
  /\ blocks \in [Threads -> SUBSET Cells]
  /\ calls \in [Threads -> 0..MaxCalls]
  /\ entries \subseteq Data /\ fresh \subseteq Data
  /\ runs \in [Data -> Nat]
  /\ wild \in BOOLEAN

(***************************************************************************)
(* Whoever works on the memory or the lists of the pool holds its mutex,   *)
(* from taking it to giving it back and through all nested calls.          *)
(***************************************************************************)
Protected == \A t \in Threads : InCritical(t) => holder = t

(***************************************************************************)
(* A thread that has returned from its call has given the mutex back.      *)
(***************************************************************************)
LockReleased == \A t \in Threads : At(t, "idle") => holder # t

(***************************************************************************)
(* Whenever nobody is between lock and unlock, every cell handed out is one*)
(* of: a client's block, a node of the cleanup list, a node of the reserve;*)
(* both lists end, and the cleanup list has one node for each registered   *)
(* object.  No interleaving of calls loses a cell or hands one out twice.  *)
(***************************************************************************)
PoolIntact ==
  ~ wild /\ (\A t \in Threads : ~ InCritical(t)) =>
    LET listed   == Chain(cleanups)
        reserved == Chain(free_cleanups)
        given    == UNION {blocks[t] : t \in Threads}
    IN  /\ Ends(cleanups) /\ Ends(free_cleanups)
        /\ listed \cup reserved \cup given = 1..(first_avail - 1)
        /\ listed \cap reserved = {} /\ (listed \cup reserved) \cap given = {}
        /\ \A t, u \in Threads : t # u => blocks[t] \cap blocks[u] = {}
        /\ {data[c] : c \in listed} = entries
        /\ Cardinality(listed) = Cardinality(entries)

(***************************************************************************)
(* The handler of an object that was registered once runs at most once.    *)
(***************************************************************************)
RunsOnce == \A d \in Data : runs[d] <= 1

(***************************************************************************)
(* Every call returns: no thread waits for the mutex for ever.             *)
(***************************************************************************)
CallsReturn == \A t \in Threads : ~ At(t, "idle") ~> At(t, "idle")

(***************************************************************************)
(* The mutex protects every use of the pool, nested calls included, is     *)
(* counted right, and is given back by every call.                         *)
(***************************************************************************)
LockInv == TypeOK /\ Protected /\ LockReleased
=============================================================================
