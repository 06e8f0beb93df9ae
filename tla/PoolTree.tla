------------------------------ MODULE PoolTree ------------------------------
(***************************************************************************)
(* The tree of pools of lib/memory/spr_pool.c and the threads that work on *)
(* it: spr_pool_create1 with a parent, spr_pool_add_child, which takes no  *)
(* lock, and the recursion of spr_pool_clear and spr_pool_destroy with     *)
(* their owner check.  What a single pool keeps is in Pool and PoolLock.   *)
(* The address of a pool that was freed is not used again, so that every   *)
(* access to freed memory shows.                                           *)
(***************************************************************************)
EXTENDS Integers, Sequences, FiniteSets, Pointers

CONSTANTS
  Threads,
  MaxPools   \* bound on the pools ever created

ASSUME TreeAssumption == IsFiniteSet(Threads) /\ Threads # {} /\ MaxPools \in Nat \ {0}

Pools == 1..MaxPools
NULL  == 0

VARIABLES
  system,          \* "posix" or "win32", which the program was built for
  state,           \* of each pool: unused, live or freed
  owner, mutex,    \* spr_pool_s.owner; the root whose memory holds .mutex
  parent, child, brother,
  holder, depth,   \* the mutex of each root
  stack,           \* the procedures each thread is in, innermost first
  done,            \* the pools that the thread's current call has cleared
  fault,           \* the freed pool that was accessed, or NULL
  mixed,           \* the roots of trees that more than their creator cleared
                   \* or destroyed, or of which a part was destroyed
  raced            \* the pools below which two threads linked at once

fields == <<system, state, owner, mutex, parent, child, brother>>
locks  == <<holder, depth>>
ghosts == <<done, mixed, raced>>
vars   == <<fields, locks, stack, ghosts, fault>>

Live(p) == p # NULL /\ state[p] = "live"
Root(p) == mutex[p]

Frame == [op: {"create", "clear", "destroy"}, pc: {"child", "brother", "enter", "walk"},
          pool: Pools, temp: Pools \cup {NULL}]

Top(t)       == Head(stack[t])
At(t, pc)    == fault = NULL /\ stack[t] # <<>> /\ Top(t).pc = pc
Goto(t, f)   == stack' = [stack EXCEPT ![t] = <<f>> \o Tail(@)]
Return(t)    == stack' = [stack EXCEPT ![t] = Tail(@)]

(* Thread t touches pool p, which has been freed: nothing is modelled any  *)
(* more.                                                                   *)
Touches(p) == fault' = p /\ UNCHANGED <<fields, locks, stack, ghosts>>

-----------------------------------------------------------------------------

Init ==
  /\ system \in {"posix", "win32"}
  /\ state = [p \in Pools |-> "unused"]
  /\ owner \in [Pools -> {CHOOSE t \in Threads : TRUE}]
  /\ mutex = [p \in Pools |-> NULL] /\ parent = mutex
  /\ child = mutex /\ brother = mutex
  /\ holder = [p \in Pools |-> {}] /\ depth = mutex
  /\ stack = [t \in Threads |-> <<>>]
  /\ done = [t \in Threads |-> {}]
  /\ fault = NULL /\ mixed = {} /\ raced = {}

(* spr_pool_create1 up to the call of spr_pool_add_child, which has read   *)
(* the first child of the parent, par, when this step ends.                *)
spr_pool_create1(t, par) ==
  \E p \in Pools :
    /\ fault = NULL /\ stack[t] = <<>>
    /\ par = NULL \/ Live(par)
    /\ state[p] = "unused" /\ \A q \in 1..(p - 1) : state[q] # "unused"
    /\ state' = [state EXCEPT ![p] = "live"]
    /\ owner' = [owner EXCEPT ![p] = t]
    /\ mutex' = [mutex EXCEPT ![p] = IF par = NULL THEN p ELSE mutex[par]]
    /\ parent' = [parent EXCEPT ![p] = par]
    /\ stack' = IF par = NULL THEN stack
                ELSE [stack EXCEPT ![t] = <<[op |-> "create", pc |-> "child",
                                             pool |-> p, temp |-> child[par]]>>]
    /\ raced' = IF \E u \in Threads :
                     stack[u] # <<>> /\ Top(u).pc = "child" /\ parent[Top(u).pool] = par
                THEN raced \cup {par} ELSE raced
    /\ UNCHANGED <<system, child, brother, locks, done, mixed, fault>>

add_child(t) ==
  /\ At(t, "child")
  /\ LET p == Top(t).pool
     IN  \/ /\ Live(parent[p])
            /\ child' = [child EXCEPT ![parent[p]] = p]
            /\ Goto(t, [Top(t) EXCEPT !.pc = "brother"])
            /\ UNCHANGED <<system, state, owner, mutex, parent, brother, locks, ghosts, fault>>
         \/ ~ Live(parent[p]) /\ Touches(parent[p])

(* Mutant: the children there were before are forgotten.                   *)
AddChildForgets(t) ==
  /\ At(t, "brother") /\ Return(t)
  /\ UNCHANGED <<fields, locks, ghosts, fault>>

add_brother(t) ==
  /\ At(t, "brother")
  /\ brother' = [brother EXCEPT ![Top(t).pool] = Top(t).temp]
  /\ Return(t)
  /\ UNCHANGED <<system, state, owner, mutex, parent, child, locks, ghosts, fault>>

-----------------------------------------------------------------------------

Enter(op, p) == [op |-> op, pc |-> "enter", pool |-> p, temp |-> NULL]

(* A client calls spr_pool_clear or spr_pool_destroy.                      *)
Call(t, op, p) ==
  /\ fault = NULL /\ stack[t] = <<>> /\ Live(p)
  /\ stack' = [stack EXCEPT ![t] = <<Enter(op, p)>>]
  /\ done' = [done EXCEPT ![t] = {}]
  /\ mixed' = IF owner[p] # t \/ (op = "destroy" /\ parent[p] # NULL)
              THEN mixed \cup {Root(p)} ELSE mixed
  /\ UNCHANGED <<fields, locks, raced, fault>>

(* spr_thread_equal(pool->owner, spr_thread_current_handle()) in thread t. *)
(* On Win32 the handle is that of GetCurrentThread, the same pseudo handle *)
(* in all threads: the check passes, whoever calls.                        *)
Owned(t, p) == system = "win32" \/ owner[p] = t

Lock(t, r) ==
  /\ holder[r] \subseteq {t}
  /\ holder' = [holder EXCEPT ![r] = {t}]
  /\ depth' = [depth EXCEPT ![r] = @ + 1]

Unlock(t, r) ==
  /\ depth' = [depth EXCEPT ![r] = @ - 1]
  /\ holder' = [holder EXCEPT ![r] = IF depth[r] = 1 THEN {} ELSE @]

(* Mutant: the owner is looked at with the mutex locked.                   *)
EnterLocksFirst(t) ==
  LET f == Top(t)
  IN  /\ At(t, "enter") /\ Live(f.pool) /\ Live(Root(f.pool))
      /\ IF f.op = "clear" THEN Lock(t, Root(f.pool)) ELSE UNCHANGED locks
      /\ IF ~ Owned(t, f.pool) THEN Return(t)
         ELSE Goto(t, [f EXCEPT !.pc = "walk", !.temp = child[f.pool]])
      /\ UNCHANGED <<fields, ghosts, fault>>

(* Mutant: the check is that of the creator of the whole tree.             *)
EnterRootOwned(t) ==
  LET f == Top(t)
  IN  /\ At(t, "enter") /\ Live(f.pool) /\ Live(Root(f.pool))
      /\ IF ~ Owned(t, Root(f.pool)) THEN Return(t) /\ UNCHANGED locks
         ELSE /\ IF f.op = "clear" THEN Lock(t, Root(f.pool)) ELSE UNCHANGED locks
              /\ Goto(t, [f EXCEPT !.pc = "walk", !.temp = child[f.pool]])
      /\ UNCHANGED <<fields, ghosts, fault>>

(* The owner check, the lock in spr_pool_clear, and the first child.       *)
enter(t) ==
  LET f == Top(t)
      p == f.pool
  IN  /\ At(t, "enter")
      /\ \/ ~ Live(p) /\ Touches(p)
         \/ /\ Live(p) /\ ~ Owned(t, p)
            /\ Return(t)
            /\ UNCHANGED <<fields, locks, ghosts, fault>>
         \/ /\ Live(p) /\ Owned(t, p)
            /\ f.op = "clear" /\ ~ Live(Root(p))
            /\ Touches(Root(p))
         \/ /\ Live(p) /\ Owned(t, p)
            /\ IF f.op = "clear" THEN Live(Root(p)) /\ Lock(t, Root(p)) ELSE UNCHANGED locks
            /\ Goto(t, [f EXCEPT !.pc = "walk", !.temp = child[p]])
            /\ UNCHANGED <<fields, ghosts, fault>>

(* Mutant: the walk goes on at the child it has just visited, to read its  *)
(* brother afterwards.                                                     *)
WalkReadsLate(t) ==
  LET f == Top(t)
  IN  /\ At(t, "walk") /\ f.temp # NULL
      /\ \/ ~ Live(f.temp) /\ Touches(f.temp)
         \/ /\ Live(f.temp)
            /\ stack' = [stack EXCEPT ![t] = <<Enter(f.op, f.temp)>> \o @]
            /\ UNCHANGED <<fields, locks, ghosts, fault>>

(* The next child: its brother is read before it is visited.               *)
walk(t) ==
  LET f == Top(t)
  IN  /\ At(t, "walk") /\ f.temp # NULL
      /\ \/ ~ Live(f.temp) /\ Touches(f.temp)
         \/ /\ Live(f.temp)
            /\ stack' = [stack EXCEPT
                 ![t] = <<Enter(f.op, f.temp), [f EXCEPT !.temp = brother[f.temp]]>> \o Tail(@)]
            /\ UNCHANGED <<fields, locks, ghosts, fault>>

(* spr_pool_clear after its children: the memnodes are reset, the mutex is *)
(* unlocked.                                                               *)
clear_finish(t) ==
  LET p == Top(t).pool
  IN  /\ At(t, "walk") /\ Top(t).temp = NULL /\ Top(t).op = "clear"
      /\ \/ /\ Live(Root(p))
            /\ Unlock(t, Root(p)) /\ Return(t)
            /\ done' = [done EXCEPT ![t] = @ \cup {p}]
            /\ UNCHANGED <<fields, mixed, raced, fault>>
         \/ ~ Live(Root(p)) /\ Touches(Root(p))

(* spr_pool_destroy after its children: the memnodes are freed.            *)
destroy_finish(t) ==
  /\ At(t, "walk") /\ Top(t).temp = NULL /\ Top(t).op = "destroy"
  /\ state' = [state EXCEPT ![Top(t).pool] = "freed"]
  /\ Return(t)
  /\ UNCHANGED <<system, owner, mutex, parent, child, brother, locks, ghosts, fault>>

Step(t) ==
  \/ add_child(t) \/ add_brother(t) \/ enter(t) \/ walk(t)
  \/ clear_finish(t) \/ destroy_finish(t)

Next ==
  \E t \in Threads :
    \/ \E par \in Pools \cup {NULL} : spr_pool_create1(t, par)
    \/ \E op \in {"clear", "destroy"}, p \in Pools : Call(t, op, p)
    \/ Step(t)

Spec == Init /\ [][Next]_vars

(* A thread whose next step can be taken is scheduled some time.           *)
FairSpec == Spec /\ \A t \in Threads : WF_vars(Step(t))

-----------------------------------------------------------------------------

Members(r) == {p \in Pools : state[p] # "unused" /\ mutex[p] = r}

(* One thread has created all of the tree, nobody else has called a        *)
(* function on it, and none of its parts was destroyed on its own.         *)
Clean(r) == r \notin mixed /\ \A p \in Members(r) : owner[p] = owner[r]

(* The pools that a walk along the children of p meets.                    *)
Children(p) == LET w == Way(child[p], brother, MaxPools)
               IN  {w[k] : k \in 0..MaxPools} \ {NULL}

Below(p) ==
  LET w[k \in 0..MaxPools] ==
        IF k = 0 THEN {p} ELSE w[k - 1] \cup {q \in Pools : parent[q] \in w[k - 1]}
  IN  w[MaxPools]

(***************************************************************************)
(* Every variable has its type.                                            *)
(***************************************************************************)
TypeOK ==
  /\ system \in {"posix", "win32"}
  /\ state \in [Pools -> {"unused", "live", "freed"}]
  /\ owner \in [Pools -> Threads]
  /\ \A f \in {mutex, parent, child, brother} : f \in [Pools -> Pools \cup {NULL}]
  /\ holder \in [Pools -> SUBSET Threads] /\ depth \in [Pools -> Nat]
  /\ stack \in [Threads -> Seq(Frame)]
  /\ done \in [Threads -> SUBSET Pools]
  /\ fault \in Pools \cup {NULL} /\ mixed \subseteq Pools /\ raced \subseteq Pools

(***************************************************************************)
(* No call on a tree that one thread alone has created and used, and of    *)
(* which it has destroyed no part before, reads or writes a pool that was  *)
(* freed, the recursion of spr_pool_destroy included.                      *)
(***************************************************************************)
NoFreedAccess == fault # NULL => ~ Clean(Root(fault))

(***************************************************************************)
(* Destroying the root of such a tree frees all of it.                     *)
(***************************************************************************)
WholeTreeFreed ==
  \A r \in Pools :
    state[r] = "freed" /\ Root(r) = r /\ Clean(r) =>
      \A p \in Members(r) : state[p] = "freed"

(***************************************************************************)
(* A pool is among the children of its parent from the return of           *)
(* spr_pool_create1 on, unless two threads were in spr_pool_add_child with *)
(* that parent at the same time.                                           *)
(***************************************************************************)
NoChildLost ==
  \A p \in Pools :
    /\ Live(p) /\ parent[p] # NULL /\ parent[p] \notin raced
    /\ \A t \in Threads : stack[t] # <<>> => Top(t).op # "create"
    => p \in Children(parent[p])

(***************************************************************************)
(* The mutex of a tree is locked as often as its holder has begun, and not *)
(* ended, to clear pools of the tree; it is free when nobody does.         *)
(***************************************************************************)
LockDepth ==
  \A r \in Pools, t \in Threads :
    LET held == {k \in DOMAIN stack[t] :
                   /\ stack[t][k].op = "clear" /\ stack[t][k].pc = "walk"
                   /\ Root(stack[t][k].pool) = r}
    IN  IF t \in holder[r] THEN depth[r] = Cardinality(held) /\ held # {} ELSE held = {}

(***************************************************************************)
(* A pool is freed only by a step of the thread that has created it.  The  *)
(* exception is Win32, where the owner check lets everybody through: there *)
(* it is so for the trees that one thread has created and used alone.      *)
(***************************************************************************)
FreedByOwner ==
  [][\A p \in Pools :
       /\ state[p] = "live" /\ state'[p] = "freed"
       /\ system = "posix" \/ Clean(Root(p))
       => stack'[owner[p]] # stack[owner[p]]]_vars

(***************************************************************************)
(* When spr_pool_clear returns to its client, it has cleared the pool and  *)
(* all pools below it, if one thread has created the tree.                 *)
(***************************************************************************)
ClearReachesAll ==
  [][\A t \in Threads :
       Len(stack[t]) = 1 /\ Top(t).op = "clear" /\ stack'[t] = <<>> =>
         LET p == Top(t).pool
         IN  owner[p] = t /\ Clean(Root(p)) => Below(p) \subseteq done'[t]]_vars

(***************************************************************************)
(* A call that the other threads do not keep getting in the way of         *)
(* returns: the recursion ends, and whoever has returned has left no mutex *)
(* locked.  The mutex promises no order, so that without this condition a  *)
(* thread might wait for ever.                                             *)
(***************************************************************************)
CallsReturn ==
  \A t \in Threads :
    <>[](\A u \in Threads \ {t} : stack[u] = <<>>) =>
      []<>(stack[t] = <<>> \/ fault # NULL)

(***************************************************************************)
(* A tree of one thread is freed as a whole, and nothing of it is used     *)
(* after it was freed.                                                     *)
(***************************************************************************)
FreedOnce == NoFreedAccess /\ WholeTreeFreed

(***************************************************************************)
(* The mutex that the pools of a tree share is locked and unlocked in      *)
(* pairs through the recursion.                                            *)
(***************************************************************************)
LockInv == TypeOK /\ LockDepth

(***************************************************************************)
(* The recursion of spr_pool_clear and spr_pool_destroy visits all that    *)
(* belongs to the caller, and frees nothing else: but for Win32, where a   *)
(* thread also frees the pools of others in the trees it works on.         *)
(***************************************************************************)
RecursionRight == ClearReachesAll /\ FreedByOwner
=============================================================================
