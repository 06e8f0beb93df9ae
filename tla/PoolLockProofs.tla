--------------------------- MODULE PoolLockProofs ---------------------------
(***************************************************************************)
(* Proofs about the threads that share a pool: its mutex protects what the *)
(* calls work on and is given back, the lists in its memory stay lists, no *)
(* cell is lost, and no handler runs twice.                                *)
(***************************************************************************)
EXTENDS PoolLock, PointersProofs, SequenceTheorems

-----------------------------------------------------------------------------
(* The suspended procedures of a thread.                                   *)

Palloc    == {"palloc_lock", "palloc_read", "palloc_write", "palloc_unlock"}
Adding    == {"add_lock", "add_take", "add_link", "add_push", "add_unlock"}
Searching == {"read_head", "search_lock", "search", "handler", "unlink",
              "reserve", "search_unlock"}

Crit(pc) == IF pc \in Critical THEN 1 ELSE 0

(* How often a thread in procedure f with callers c is between a lock and  *)
(* its unlock.                                                             *)
Held(f, c) == Crit(f.pc) + (IF c = <<>> THEN 0 ELSE Crit(c[1].pc))

(* A search that has found its node.                                       *)
Found(f) == f.want \in Data /\ f.node \in Cells

FromLarge(c) == c = <<>> \/ (Len(c) = 1 /\ c[1].pc = "large_unlock")

FromAdd(c) ==
  /\ c # <<>> /\ c[1].pc = "add_link" /\ c[1].want \in Data
  /\ FromLarge(Tail(c))

FromHandler(c) == Len(c) = 1 /\ c[1].pc = "unlink" /\ Found(c[1])

(* The procedures f that a thread may be in, and those they were called    *)
(* from: spr_palloc by a client, by spr_pool_cleanup_add1 or by a handler, *)
(* and spr_pool_cleanup_add1 by a client or for an oversized block.        *)
Shape(f, c) ==
  \/ f.pc \in {"idle", "large_unlock"} /\ c = <<>>
  \/ f.pc = "large_add" /\ f.want \in Data /\ c = <<>>
  \/ f.pc \in Adding /\ f.want \in Data /\ FromLarge(c)
  \/ f.pc \in Palloc /\ (c = <<>> \/ FromAdd(c) \/ FromHandler(c))
  \/ /\ f.pc \in Searching /\ f.want \in Data /\ c = <<>>
     /\ f.pc \in {"handler", "unlink", "reserve"} => f.node \in Cells

ShapeInv == \A t \in Threads : Shape(me[t], callers[t])

(* Whoever is between a lock and its unlock holds the mutex, and has       *)
(* locked it at least that often.                                          *)
HeldInv ==
  \A t \in Threads :
    Held(me[t], callers[t]) > 0 => holder = t /\ depth >= Held(me[t], callers[t])

(* The calls that were made, and the threads whose call may still take a   *)
(* cell: there is one call for each cell taken and each that may be.       *)
Made     == {p \in Threads \X (1..MaxCalls) : p[2] > calls[p[1]]}
MayTake  == {"palloc_lock", "palloc_read", "palloc_write", "large_add", "add_lock",
             "add_take", "read_head", "search_lock", "search", "handler"}
Taking   == {t \in Threads : me[t].pc \in MayTake}

RoomInv ==
  /\ first_avail + Cardinality(Taking) <= 1 + Cardinality(Made)
  /\ \A t \in Threads : At(t, "palloc_write") => mem[t] = first_avail

(* The cell that spr_palloc returns, or that becomes a cleanup node.       *)
MemInv ==
  \A t \in Threads :
    me[t].pc \in {"palloc_unlock", "add_link", "add_push"} => mem[t] \in Cells

IInv == TypeOK /\ ShapeInv /\ HeldInv /\ RoomInv /\ MemInv

NoLargeInHandlers == "large" \notin HandlerOps

-----------------------------------------------------------------------------

LEMMA Cons ==
  ASSUME NEW S, NEW f \in S, NEW c \in Seq(S)
  PROVE  /\ <<f>> \o c \in Seq(S) /\ <<f>> \o c # <<>>
         /\ Len(<<f>> \o c) = Len(c) + 1
         /\ (<<f>> \o c)[1] = f
         /\ Tail(<<f>> \o c) = c
         /\ Head(<<f>> \o c) = f
<1> DEFINE d == <<f>>
           e == d \o c
<1>1. d \in Seq(S) /\ Len(d) = 1 /\ d[1] = f
  OBVIOUS
<1>2. Len(c) \in Nat
  BY LenProperties
<1> HIDE DEF d
<1>3. /\ e \in Seq(S) /\ Len(e) = 1 + Len(c)
      /\ \A i \in 1..(1 + Len(c)) : e[i] = IF i <= 1 THEN d[i] ELSE c[i - 1]
  <2>1. /\ e \in Seq(S) /\ Len(e) = Len(d) + Len(c)
        /\ \A i \in 1..(Len(d) + Len(c)) : e[i] = IF i <= Len(d) THEN d[i] ELSE c[i - Len(d)]
    BY <1>1, ConcatProperties
  <2> QED BY <1>1, <2>1
<1> HIDE DEF e
<1>4. e # <<>> /\ e[1] = f
  <2>1. 1 \in 1..(1 + Len(c)) /\ Len(e) # 0
    BY <1>2, <1>3
  <2> QED BY <2>1, <1>1, <1>3
<1>5. /\ Tail(e) \in Seq(S) /\ Len(Tail(e)) = Len(c)
      /\ \A i \in 1..Len(Tail(e)) : Tail(e)[i] = e[i + 1]
  BY <1>2, <1>3, <1>4, HeadTailProperties
<1>6. Tail(e) = c
  <2>1. ASSUME NEW i \in 1..Len(c) PROVE Tail(e)[i] = c[i]
    <3>1. i + 1 \in 1..(1 + Len(c)) /\ ~ (i + 1 <= 1) /\ (i + 1) - 1 = i
      BY <1>2
    <3> QED BY <3>1, <1>3, <1>5
  <2> QED BY <2>1, <1>5, SeqEqual
<1>7. Head(e) = f
  BY <1>3, <1>4
<1> QED BY <1>2, <1>3, <1>4, <1>5, <1>6, <1>7 DEF e, d

LEMMA TailOfOne ==
  ASSUME NEW S, NEW c \in Seq(S), Len(c) = 1
  PROVE  Tail(c) = <<>>
<1>1. c # <<>>
  OBVIOUS
<1>2. Tail(c) \in Seq(S) /\ Len(Tail(c)) = 0
  BY <1>1, HeadTailProperties
<1> QED BY <1>2, EmptySeq

LEMMA CellsFinite ==
  /\ Cardinality(Threads) \in Nat /\ Cardinality(Data) \in Nat
  /\ MaxCalls * Cardinality(Threads) \in Nat
  /\ Cells = 1..(MaxCalls * Cardinality(Threads) + Cardinality(Data))
  /\ IsFiniteSet(Cells)
  /\ Cardinality(Cells) = MaxCalls * Cardinality(Threads) + Cardinality(Data)
<1>1. Cardinality(Threads) \in Nat /\ Cardinality(Data) \in Nat /\ MaxCalls \in Nat
  BY LockAssumption, FS_CardinalityType
<1>2. MaxCalls * Cardinality(Threads) \in Nat
  BY <1>1
<1> DEFINE n == MaxCalls * Cardinality(Threads) + Cardinality(Data)
<1>3. n \in Nat
  BY <1>1, <1>2
<1> HIDE DEF n
<1>4. IsFiniteSet(1..n) /\ Cardinality(1..n) = n
  BY <1>3, FS_Interval
<1> QED BY <1>1, <1>2, <1>4 DEF Cells, n

-----------------------------------------------------------------------------
(* What a step of thread t leaves alone, and the ways it can end.          *)

LEMMA Others ==
  ASSUME TypeOK, NEW t \in Threads, Start(t) \/ Step(t), NEW u \in Threads \ {t}
  PROVE  /\ me'[u] = me[u] /\ callers'[u] = callers[u] /\ mem'[u] = mem[u]
         /\ blocks'[u] = blocks[u] /\ calls'[u] = calls[u]
<1> USE DEF TypeOK, At, Goto, Return, LockStep, UnlockStep, Call
<1>1. CASE Start(t)
  BY <1>1 DEF Start
<1>2. CASE palloc_lock(t) \/ palloc_read(t) \/ palloc_fails(t) \/ palloc_write(t)
           \/ palloc_unlock(t)
  BY <1>2 DEF palloc_lock, palloc_read, palloc_fails, palloc_write, palloc_unlock, pool, client
<1>3. CASE large_add(t) \/ large_unlock(t)
  BY <1>3 DEF large_add, large_unlock, pool, client
<1>4. CASE add_lock(t) \/ add_take(t) \/ add_link(t) \/ add_push(t) \/ add_unlock(t)
  BY <1>4 DEF add_lock, add_take, add_link, add_push, add_unlock, pool, client
<1>5. CASE read_head(t) \/ search_lock(t) \/ search(t) \/ handler(t)
  BY <1>5 DEF read_head, search_lock, search, handler, pool, client
<1>6. CASE unlink(t) \/ reserve(t) \/ search_unlock(t)
  BY <1>6 DEF unlink, reserve, search_unlock, pool, client
<1> QED BY <1>1, <1>2, <1>3, <1>4, <1>5, <1>6 DEF Step

(* The fields of a procedure that is called, and of one that goes on at    *)
(* another place.                                                          *)
LEMMA Fields ==
  /\ Idle.pc = "idle" /\ Idle \in Frame
  /\ \A pc \in Pcs, d \in Data \cup {None}, run \in BOOLEAN :
       LET f == Procedure(pc, d, run)
       IN  f.pc = pc /\ f.want = d /\ f.node = 0 /\ f.run = run /\ f.prev = Unset /\ f \in Frame
  /\ \A f \in Frame, pc \in Pcs :
       LET g == [f EXCEPT !.pc = pc]
       IN  /\ g.pc = pc /\ g.want = f.want /\ g.node = f.node /\ g.prev = f.prev
           /\ g.run = f.run /\ g \in Frame
<1>1. Idle.pc = "idle" /\ Idle \in Frame
  BY DEF Idle, Frame, Pcs
<1>2. ASSUME NEW pc \in Pcs, NEW d \in Data \cup {None}, NEW run \in BOOLEAN
      PROVE  LET f == Procedure(pc, d, run)
             IN  /\ f.pc = pc /\ f.want = d /\ f.node = 0 /\ f.run = run
                 /\ f.prev = Unset /\ f \in Frame
  BY DEF Procedure, Frame
<1>3. ASSUME NEW f \in Frame, NEW pc \in Pcs
      PROVE  LET g == [f EXCEPT !.pc = pc]
             IN  /\ g.pc = pc /\ g.want = f.want /\ g.node = f.node /\ g.prev = f.prev
                 /\ g.run = f.run /\ g \in Frame
  BY DEF Frame
<1> QED BY <1>1, <1>2, <1>3

(* Where the steps of a thread lead: to the caller, to another place in    *)
(* the same procedure, or to a procedure that is called.                   *)
LEMMA FrameReturn ==
  ASSUME TypeOK, NEW t \in Threads, Return(t)
  PROVE  /\ callers[t] = <<>> => me'[t] = Idle /\ callers'[t] = <<>>
         /\ callers[t] # <<>> =>
              me'[t] = callers[t][1] /\ callers'[t] = Tail(callers[t])
         /\ Len(callers[t]) = 1 => callers'[t] = <<>>
<1>1. callers[t] \in Seq(Frame)
  BY DEF TypeOK
<1>2. callers[t] = <<>> => me'[t] = Idle /\ callers'[t] = <<>>
  BY DEF Return, TypeOK
<1>3. callers[t] # <<>> => me'[t] = callers[t][1] /\ callers'[t] = Tail(callers[t])
  BY DEF Return, TypeOK
<1>4. Len(callers[t]) = 1 => Tail(callers[t]) = <<>>
  BY <1>1, TailOfOne
<1>5. Len(callers[t]) = 1 => callers[t] # <<>>
  BY EmptySeq
<1> QED BY <1>2, <1>3, <1>4, <1>5

LEMMA FrameGoto ==
  ASSUME TypeOK, NEW t \in Threads, NEW pc \in Pcs, Goto(t, pc), callers' = callers
  PROVE  /\ me'[t].pc = pc /\ me'[t].want = me[t].want /\ me'[t].node = me[t].node
         /\ me'[t].prev = me[t].prev /\ me'[t].run = me[t].run
         /\ callers'[t] = callers[t]
<1>1. me[t] \in Frame /\ me'[t] = [me[t] EXCEPT !.pc = pc]
  BY DEF TypeOK, Goto
<1> QED BY <1>1, Fields

LEMMA FrameCall ==
  ASSUME TypeOK, NEW t \in Threads, NEW pc \in Pcs, NEW f, Call(t, pc, f)
  PROVE  /\ me'[t] = f
         /\ callers'[t] # <<>> /\ Len(callers'[t]) = Len(callers[t]) + 1
         /\ callers'[t][1].pc = pc /\ callers'[t][1].want = me[t].want
         /\ callers'[t][1].node = me[t].node /\ callers'[t][1].prev = me[t].prev
         /\ callers'[t][1].run = me[t].run
         /\ Tail(callers'[t]) = callers[t]
<1> DEFINE g == [me[t] EXCEPT !.pc = pc]
<1>1. me[t] \in Frame /\ callers[t] \in Seq(Frame)
  BY DEF TypeOK
<1>2. /\ g \in Frame /\ g.pc = pc /\ g.want = me[t].want /\ g.node = me[t].node
      /\ g.prev = me[t].prev /\ g.run = me[t].run
  BY <1>1, Fields
<1>3. me'[t] = f /\ callers'[t] = <<g>> \o callers[t]
  BY DEF Call, TypeOK
<1> HIDE DEF g
<1>5. /\ <<g>> \o callers[t] # <<>> /\ (<<g>> \o callers[t])[1] = g
      /\ Len(<<g>> \o callers[t]) = Len(callers[t]) + 1
      /\ Tail(<<g>> \o callers[t]) = callers[t]
  BY <1>1, <1>2, Cons
<1> QED BY <1>2, <1>3, <1>5

LEMMA ShapeStart ==
  ASSUME IInv, NEW t \in Threads, Start(t)
  PROVE  Shape(me'[t], callers'[t])
<1>1. me[t].pc = "idle" /\ callers'[t] = callers[t]
  BY DEF Start, At
<1>2. callers[t] = <<>>
  BY <1>1 DEF IInv, ShapeInv, Shape, Adding, Palloc, Searching
<1>3. \/ me'[t].pc \in {"palloc_lock", "large_unlock"}
      \/ me'[t].pc \in {"large_add", "add_lock", "read_head"} /\ me'[t].want \in Data
  BY LockAssumption DEF Start, IInv, TypeOK, Procedure
<1> QED BY <1>1, <1>2, <1>3 DEF Shape, Adding, Palloc, Searching, FromLarge

(* A return leads back to where the caller was.                            *)
LEMMA ShapeReturn ==
  ASSUME IInv, NEW t \in Threads, Return(t)
  PROVE  Shape(me'[t], callers'[t])
<1>1. callers[t] \in Seq(Frame) /\ Shape(me[t], callers[t])
  BY DEF IInv, TypeOK, ShapeInv
<1>2. CASE callers[t] = <<>>
  BY <1>2, FrameReturn, Fields DEF IInv, Shape
<1>3. CASE callers[t] # <<>>
  <2>1. me'[t] = callers[t][1] /\ callers'[t] = Tail(callers[t])
    BY <1>3, FrameReturn DEF IInv
  <2>2. Len(callers[t]) = 1 => callers'[t] = <<>>
    BY FrameReturn DEF IInv
  <2>3. CASE FromLarge(callers[t])
    BY <1>3, <2>1, <2>2, <2>3 DEF Shape, FromLarge
  <2>4. CASE FromAdd(callers[t])
    BY <2>1, <2>4 DEF Shape, FromAdd, Adding
  <2>5. CASE FromHandler(callers[t])
    BY <2>1, <2>2, <2>5 DEF Shape, FromHandler, Found, Searching
  <2> QED BY <1>1, <1>3, <2>3, <2>4, <2>5 DEF Shape
<1> QED BY <1>2, <1>3

LEMMA ShapeStep ==
  ASSUME IInv, NoLargeInHandlers, NEW t \in Threads, Step(t)
  PROVE  Shape(me'[t], callers'[t])
<1>1. callers[t] \in Seq(Frame) /\ me[t] \in Frame /\ Shape(me[t], callers[t]) /\ TypeOK
  BY DEF IInv, TypeOK, ShapeInv
<1>2. ASSUME Return(t) PROVE Shape(me'[t], callers'[t])
  BY <1>2, ShapeReturn
<1>3. Palloc \subseteq Pcs /\ Adding \subseteq Pcs /\ Searching \subseteq Pcs
      /\ {"large_add", "large_unlock"} \subseteq Pcs
  BY DEF Palloc, Adding, Searching, Pcs
<1>4. ASSUME palloc_lock(t) \/ palloc_read(t) \/ palloc_write(t)
      PROVE  Shape(me'[t], callers'[t])
  <2>1. PICK pc \in Palloc : Goto(t, pc) /\ callers' = callers
    BY <1>4 DEF palloc_lock, palloc_read, palloc_write, LockStep, Palloc
  <2>2. me[t].pc \in Palloc
    BY <1>4 DEF palloc_lock, palloc_read, palloc_write, LockStep, At, Palloc
  <2>3. me'[t].pc \in Palloc /\ callers'[t] = callers[t]
    BY <1>1, <1>3, <2>1, FrameGoto
  <2> QED BY <1>1, <2>2, <2>3 DEF Shape, Palloc, Adding, Searching
<1>5. ASSUME palloc_fails(t) \/ palloc_unlock(t) \/ large_unlock(t) \/ add_unlock(t)
             \/ search_unlock(t)
      PROVE  Shape(me'[t], callers'[t])
  BY <1>2, <1>5 DEF palloc_fails, palloc_unlock, large_unlock, add_unlock, search_unlock, UnlockStep
<1>6. ASSUME large_add(t) PROVE Shape(me'[t], callers'[t])
  <2>1. me[t].pc = "large_add" /\ callers[t] = <<>> /\ me[t].want \in Data
    BY <1>1, <1>6 DEF large_add, At, Shape, Palloc, Adding, Searching
  <2>2. Call(t, "large_unlock", Procedure("add_lock", me[t].want, FALSE))
    BY <1>6 DEF large_add
  <2>3. "large_unlock" \in Pcs /\ "add_lock" \in Pcs /\ me[t].want \in Data \cup {None}
    BY <2>1 DEF Pcs
  <2>4. /\ me'[t].pc = "add_lock" /\ me'[t].want = me[t].want
        /\ Len(callers'[t]) = Len(callers[t]) + 1 /\ callers'[t][1].pc = "large_unlock"
    BY <1>1, <2>2, <2>3, FrameCall DEF Procedure
  <2>5. Len(callers[t]) = 0
    BY <2>1, EmptySeq
  <2> QED BY <2>1, <2>4, <2>5 DEF Shape, Adding, FromLarge
<1>7. ASSUME add_lock(t) \/ add_link(t) \/ add_push(t) PROVE Shape(me'[t], callers'[t])
  <2>1. PICK pc \in Adding : Goto(t, pc) /\ callers' = callers
    BY <1>7 DEF add_lock, add_link, add_push, LockStep, Adding
  <2>2. me[t].pc \in Adding
    BY <1>7 DEF add_lock, add_link, add_push, LockStep, At, Adding
  <2>3. me'[t].pc \in Adding /\ me'[t].want = me[t].want /\ callers'[t] = callers[t]
    BY <1>1, <1>3, <2>1, FrameGoto
  <2> QED BY <1>1, <2>2, <2>3 DEF Shape, Palloc, Adding, Searching
<1>8. ASSUME add_take(t) PROVE Shape(me'[t], callers'[t])
  <2>1. me[t].pc = "add_take" /\ FromLarge(callers[t]) /\ me[t].want \in Data
    BY <1>1, <1>8 DEF add_take, At, Shape, Palloc, Adding, Searching
  <2>2. "add_link" \in Pcs /\ "palloc_lock" \in Pcs /\ None \in Data \cup {None}
    BY DEF Pcs
  <2>3. CASE Goto(t, "add_link") /\ callers' = callers
    <3>1. me'[t].pc = "add_link" /\ me'[t].want = me[t].want /\ callers'[t] = callers[t]
      BY <1>1, <2>2, <2>3, FrameGoto
    <3> QED BY <2>1, <3>1 DEF Shape, Adding
  <2>4. CASE Call(t, "add_link", Procedure("palloc_lock", None, FALSE))
    <3>1. /\ me'[t].pc = "palloc_lock" /\ callers'[t] # <<>>
          /\ callers'[t][1].pc = "add_link" /\ callers'[t][1].want = me[t].want
          /\ Tail(callers'[t]) = callers[t]
      BY <1>1, <2>2, <2>4, FrameCall DEF Procedure
    <3> QED BY <2>1, <3>1 DEF Shape, Palloc, FromAdd
  <2> QED BY <1>8, <2>3, <2>4 DEF add_take
<1>9. ASSUME read_head(t) PROVE Shape(me'[t], callers'[t])
  <2>1. me[t].pc = "read_head" /\ callers[t] = <<>> /\ me[t].want \in Data
    BY <1>1, <1>9 DEF read_head, At, Shape, Palloc, Adding, Searching
  <2>2. me'[t].pc = "search_lock" /\ me'[t].want = me[t].want /\ callers'[t] = callers[t]
    BY <1>1, <1>9 DEF read_head, TypeOK, Frame
  <2> QED BY <2>1, <2>2 DEF Shape, Searching
<1>10. ASSUME search_lock(t) PROVE Shape(me'[t], callers'[t])
  <2>1. me[t].pc = "search_lock" /\ callers[t] = <<>> /\ me[t].want \in Data
    BY <1>1, <1>10 DEF search_lock, LockStep, At, Shape, Palloc, Adding, Searching
  <2>2. Goto(t, "search") /\ callers' = callers /\ "search" \in Pcs
    BY <1>10 DEF search_lock, LockStep, Pcs
  <2>3. me'[t].pc = "search" /\ me'[t].want = me[t].want /\ callers'[t] = callers[t]
    BY <1>1, <2>2, FrameGoto
  <2> QED BY <2>1, <2>3 DEF Shape, Searching
<1>11. ASSUME search(t) PROVE Shape(me'[t], callers'[t])
  <2>1. me[t].pc = "search" /\ callers[t] = <<>> /\ me[t].want \in Data
    BY <1>1, <1>11 DEF search, At, Shape, Palloc, Adding, Searching
  <2>2. CASE Return(t)
    BY <1>2, <2>2
  <2>3. ASSUME me[t].node # 0, callers' = callers,
               NEW pc \in {"handler", "unlink"}, Goto(t, pc)
        PROVE  Shape(me'[t], callers'[t])
    <3>1. me[t].node \in Cells
      BY <1>1, <2>3 DEF Frame
    <3>2. /\ me'[t].pc = pc /\ me'[t].want = me[t].want
          /\ me'[t].node = me[t].node /\ callers'[t] = callers[t]
      <4>1. pc \in Pcs
        BY DEF Pcs
      <4> QED BY <1>1, <2>3, <4>1, FrameGoto
    <3> QED BY <2>1, <3>1, <3>2 DEF Shape, Searching
  <2>4. CASE /\ callers' = callers
             /\ me' = [me EXCEPT ![t].prev = me[t].node, ![t].node = next[me[t].node]]
    <3>1. me'[t] = [me[t] EXCEPT !.prev = me[t].node, !.node = next[me[t].node]]
      BY <1>1, <2>4 DEF TypeOK
    <3>2. me'[t].pc = "search" /\ me'[t].want = me[t].want /\ callers'[t] = callers[t]
      BY <1>1, <2>1, <2>4, <3>1, ZenonT(30) DEF Frame
    <3> QED BY <2>1, <3>2 DEF Shape, Searching
  <2>5. \/ Return(t)
        \/ /\ me[t].node # 0 /\ callers' = callers
           /\ Goto(t, IF me[t].run THEN "handler" ELSE "unlink")
        \/ /\ callers' = callers
           /\ me' = [me EXCEPT ![t].prev = me[t].node, ![t].node = next[me[t].node]]
    BY <1>11 DEF search
  <2> QED BY <2>2, <2>3, <2>4, <2>5
<1>12. ASSUME handler(t) PROVE Shape(me'[t], callers'[t])
  <2>1. /\ me[t].pc = "handler" /\ callers[t] = <<>> /\ me[t].want \in Data
        /\ me[t].node \in Cells
    BY <1>1, <1>12 DEF handler, At, Shape, Palloc, Adding, Searching
  <2>2. "unlink" \in Pcs /\ "palloc_lock" \in Pcs /\ None \in Data \cup {None}
    BY DEF Pcs
  <2>3. CASE Goto(t, "unlink") /\ callers' = callers
    <3>1. /\ me'[t].pc = "unlink" /\ me'[t].want = me[t].want
          /\ me'[t].node = me[t].node /\ callers'[t] = callers[t]
      BY <1>1, <2>2, <2>3, FrameGoto
    <3> QED BY <2>1, <3>1 DEF Shape, Searching
  <2>4. CASE Call(t, "unlink", Procedure("palloc_lock", None, FALSE))
    <3>1. /\ me'[t].pc = "palloc_lock" /\ Len(callers'[t]) = Len(callers[t]) + 1
          /\ callers'[t][1].pc = "unlink" /\ callers'[t][1].want = me[t].want
          /\ callers'[t][1].node = me[t].node
      BY <1>1, <2>2, <2>4, FrameCall DEF Procedure
    <3>2. Len(callers[t]) = 0
      BY <2>1, EmptySeq
    <3> QED BY <2>1, <3>1, <3>2 DEF Shape, Palloc, FromHandler, Found
  <2> QED BY <1>12, <2>3, <2>4 DEF handler, NoLargeInHandlers
<1>13. ASSUME unlink(t) \/ reserve(t) PROVE Shape(me'[t], callers'[t])
  <2>1. /\ me[t].pc \in {"unlink", "reserve"} /\ callers[t] = <<>> /\ me[t].want \in Data
        /\ me[t].node \in Cells
    BY <1>1, <1>13 DEF unlink, reserve, At, Shape, Palloc, Adding, Searching
  <2>2. PICK pc \in {"reserve", "search_unlock"} : Goto(t, pc) /\ callers' = callers
    BY <1>13 DEF unlink, reserve
  <2>3. /\ me'[t].pc = pc /\ me'[t].want = me[t].want
        /\ me'[t].node = me[t].node /\ callers'[t] = callers[t]
    <3>1. pc \in Pcs
      BY DEF Pcs
    <3> QED BY <1>1, <2>2, <3>1, FrameGoto
  <2> QED BY <2>1, <2>3 DEF Shape, Searching
<1> QED BY <1>4, <1>5, <1>6, <1>7, <1>8, <1>9, <1>10, <1>11, <1>12, <1>13 DEF Step

-----------------------------------------------------------------------------
(* How the mutex is locked and unlocked.                                   *)

LEMMA CritValues ==
  /\ \A pc : Crit(pc) \in {0, 1}
  /\ \A pc \in {"idle", "palloc_lock", "large_add", "large_unlock", "add_lock",
                "read_head", "search_lock"} : Crit(pc) = 0
  /\ \A pc \in {"palloc_read", "palloc_write", "palloc_unlock", "add_take", "add_link",
                "add_push", "add_unlock", "search", "handler", "unlink", "reserve",
                "search_unlock"} : Crit(pc) = 1 /\ pc \in Critical
BY DEF Crit, Critical

(* A return ends one locked section if there was one.                      *)
LEMMA HeldReturn ==
  ASSUME IInv, NEW t \in Threads, Return(t)
  PROVE  /\ Held(me'[t], callers'[t]) = Held(me[t], callers[t]) - Crit(me[t].pc)
         /\ me[t].pc = "large_unlock" => Held(me[t], callers[t]) = 0
<1>1. callers[t] \in Seq(Frame) /\ Shape(me[t], callers[t]) /\ TypeOK
  BY DEF IInv, TypeOK, ShapeInv
<1>2. CASE callers[t] = <<>>
  <2>1. me'[t].pc = "idle" /\ callers'[t] = <<>>
    BY <1>1, <1>2, FrameReturn, Fields
  <2> QED BY <1>2, <2>1, CritValues DEF Held
<1>3. CASE callers[t] # <<>>
  <2>1. me'[t] = callers[t][1] /\ callers'[t] = Tail(callers[t])
    BY <1>1, <1>3, FrameReturn
  <2>2. Len(callers[t]) = 1 => Tail(callers[t]) = <<>>
    BY <1>1, TailOfOne
  <2>3. Tail(callers[t]) = <<>> \/ Crit(Tail(callers[t])[1].pc) = 0
    BY <1>1, <1>3, <2>2, CritValues DEF Shape, FromLarge, FromAdd, FromHandler
  <2>4. me[t].pc # "large_unlock"
    BY <1>1, <1>3 DEF Shape, Adding, Palloc, Searching
  <2> QED BY <1>3, <2>1, <2>3, <2>4, CritValues DEF Held
<1> QED BY <1>2, <1>3

(* What a step of thread t does to the mutex, when n is how often it was   *)
(* between lock and unlock before, and m how often it is afterwards.       *)
LockStepOf(t, n, m) ==
  \/ spr_mutex_lock(t) /\ m = n + 1
  \/ /\ spr_mutex_unlock(t) /\ m = n - Crit(me[t].pc)
     /\ me[t].pc \in Critical \/ n = 0
  \/ UNCHANGED <<holder, depth>> /\ m = n
  \/ UNCHANGED <<holder, depth>> /\ m = n - 1 /\ search(t)

LEMMA HeldGoto ==
  ASSUME TypeOK, NEW t \in Threads, NEW pc \in Pcs, Goto(t, pc), callers' = callers
  PROVE  Held(me'[t], callers'[t]) =
           Held(me[t], callers[t]) + Crit(pc) - Crit(me[t].pc)
<1>1. me'[t].pc = pc /\ callers'[t] = callers[t]
  BY FrameGoto
<1>2. \A c : (IF c = <<>> THEN 0 ELSE Crit(c[1].pc)) \in {0, 1}
  BY CritValues
<1>3. Crit(pc) \in {0, 1} /\ Crit(me[t].pc) \in {0, 1}
  BY CritValues
<1> QED BY <1>1, <1>2, <1>3 DEF Held

LEMMA LockSteps ==
  ASSUME IInv, NoLargeInHandlers, NEW t \in Threads, Start(t) \/ Step(t)
  PROVE  LockStepOf(t, Held(me[t], callers[t]), Held(me'[t], callers'[t]))
<1> DEFINE old == Held(me[t], callers[t])
           new == Held(me'[t], callers'[t])
<1>1. /\ callers[t] \in Seq(Frame) /\ me[t] \in Frame /\ TypeOK
      /\ Shape(me[t], callers[t])
  BY DEF IInv, TypeOK, ShapeInv
<1>2. old \in Nat
  BY CritValues DEF Held
<1>3. ASSUME NEW pc \in Pcs, Goto(t, pc), callers' = callers, Crit(pc) = 1,
             Crit(me[t].pc) = 1, UNCHANGED <<holder, depth>>
      PROVE  LockStepOf(t, old, new)
  <2>1. new = old + Crit(pc) - Crit(me[t].pc)
    BY <1>1, <1>3, HeldGoto
  <2>2. new = old
    BY <1>2, <1>3, <2>1
  <2> HIDE DEF old, new
  <2> QED BY <1>3, <2>2 DEF LockStepOf
<1>4. ASSUME NEW from, NEW to \in Pcs, LockStep(t, from, to), Crit(from) = 0, Crit(to) = 1
      PROVE  LockStepOf(t, old, new)
  <2>1. me[t].pc = from /\ Goto(t, to) /\ callers' = callers /\ spr_mutex_lock(t)
    BY <1>4 DEF LockStep, At
  <2>2. new = old + Crit(to) - Crit(me[t].pc)
    BY <1>1, <2>1, HeldGoto
  <2>3. new = old + 1
    BY <1>2, <1>4, <2>1, <2>2
  <2> HIDE DEF old, new
  <2> QED BY <2>1, <2>3 DEF LockStepOf
<1>5. ASSUME Start(t) PROVE LockStepOf(t, old, new)
  <2>1. me[t].pc = "idle" /\ callers'[t] = callers[t] /\ UNCHANGED <<holder, depth>>
    BY <1>5 DEF Start, At
  <2>2. me'[t].pc \in {"palloc_lock", "large_unlock", "large_add", "add_lock", "read_head"}
    BY <1>1, <1>5 DEF Start, TypeOK, Procedure
  <2>3. Crit(me'[t].pc) = Crit(me[t].pc)
    BY <2>1, <2>2, CritValues
  <2>4. new = old
    BY <2>1, <2>3 DEF Held
  <2> HIDE DEF old, new
  <2> QED BY <2>1, <2>4 DEF LockStepOf
<1>6. ASSUME palloc_lock(t) \/ add_lock(t) \/ search_lock(t)
      PROVE  LockStepOf(t, old, new)
  <2>1. PICK from \in {"palloc_lock", "add_lock", "search_lock"},
             to \in {"palloc_read", "add_take", "search"} : LockStep(t, from, to)
    BY <1>6 DEF palloc_lock, add_lock, search_lock
  <2>2. to \in Pcs /\ Crit(from) = 0 /\ Crit(to) = 1
    BY CritValues DEF Pcs
  <2> HIDE DEF old, new
  <2> QED BY <1>4, <2>1, <2>2
<1>7. ASSUME palloc_fails(t) \/ palloc_unlock(t) \/ large_unlock(t) \/ add_unlock(t)
             \/ search_unlock(t)
      PROVE  LockStepOf(t, old, new)
  <2>1. /\ spr_mutex_unlock(t) /\ Return(t)
        /\ me[t].pc \in {"palloc_read", "palloc_unlock", "large_unlock", "add_unlock",
                         "search_unlock"}
    BY <1>7 DEF palloc_fails, palloc_unlock, large_unlock, add_unlock, search_unlock, UnlockStep, At
  <2>2. new = old - Crit(me[t].pc) /\ (me[t].pc = "large_unlock" => old = 0)
    BY <2>1, HeldReturn
  <2>3. me[t].pc # "large_unlock" => me[t].pc \in Critical
    BY <2>1 DEF Critical
  <2> HIDE DEF old, new
  <2> QED BY <2>1, <2>2, <2>3 DEF LockStepOf
<1>8. ASSUME \/ palloc_read(t) \/ palloc_write(t) \/ add_link(t) \/ add_push(t)
             \/ unlink(t) \/ reserve(t)
      PROVE  LockStepOf(t, old, new)
  <2>1. /\ UNCHANGED <<holder, depth, callers>>
        /\ me[t].pc \in {"palloc_read", "palloc_write", "add_link", "add_push",
                         "unlink", "reserve"}
        /\ \E pc \in {"palloc_write", "palloc_unlock", "add_push", "add_unlock",
                      "reserve", "search_unlock"} : Goto(t, pc)
    BY <1>8 DEF palloc_read, palloc_write, add_link, add_push, unlink, reserve, At
  <2>2. PICK pc \in {"palloc_write", "palloc_unlock", "add_push", "add_unlock",
                      "reserve", "search_unlock"} : Goto(t, pc)
    BY <2>1
  <2>3. pc \in Pcs /\ Crit(pc) = 1 /\ Crit(me[t].pc) = 1
    BY <2>1, CritValues DEF Pcs
  <2> HIDE DEF old, new
  <2> QED BY <1>3, <2>1, <2>2, <2>3
<1>9. ASSUME large_add(t) PROVE LockStepOf(t, old, new)
  <2>1. /\ Call(t, "large_unlock", Procedure("add_lock", me[t].want, FALSE))
        /\ UNCHANGED <<holder, depth>> /\ me[t].pc = "large_add"
    BY <1>9 DEF large_add, At
  <2>2. callers[t] = <<>> /\ me[t].want \in Data \cup {None}
    BY <1>1, <2>1 DEF Shape, Adding, Palloc, Searching
  <2>3. "large_unlock" \in Pcs /\ "add_lock" \in Pcs
    BY DEF Pcs
  <2>4. /\ me'[t].pc = "add_lock" /\ callers'[t] # <<>>
        /\ callers'[t][1].pc = "large_unlock"
    BY <1>1, <2>1, <2>2, <2>3, FrameCall DEF Procedure
  <2>5. new = old
    BY <2>1, <2>2, <2>4, CritValues DEF Held
  <2> HIDE DEF old, new
  <2> QED BY <2>1, <2>5 DEF LockStepOf
<1>10. ASSUME NEW to \in Pcs, Crit(to) = 1, Crit(me[t].pc) = 1,
              callers[t] = <<>> \/ Crit(callers[t][1].pc) = 0,
              Call(t, to, Procedure("palloc_lock", None, FALSE)),
              UNCHANGED <<holder, depth>>
       PROVE  LockStepOf(t, old, new)
  <2>1. "palloc_lock" \in Pcs /\ None \in Data \cup {None}
    BY DEF Pcs
  <2>2. /\ me'[t].pc = "palloc_lock" /\ callers'[t] # <<>>
        /\ callers'[t][1].pc = to
    BY <1>1, <1>10, <2>1, FrameCall DEF Procedure
  <2>3. new = old
    BY <1>10, <2>2, CritValues DEF Held
  <2> HIDE DEF old, new
  <2> QED BY <1>10, <2>3 DEF LockStepOf
<1>11. ASSUME add_take(t) PROVE LockStepOf(t, old, new)
  <2>1. me[t].pc = "add_take" /\ FromLarge(callers[t]) /\ UNCHANGED <<holder, depth>>
    BY <1>1, <1>11 DEF add_take, At, Shape, Palloc, Adding, Searching
  <2>2. Crit(me[t].pc) = 1 /\ Crit("add_link") = 1 /\ "add_link" \in Pcs
    BY <2>1, CritValues DEF Pcs
  <2>3. callers[t] = <<>> \/ Crit(callers[t][1].pc) = 0
    BY <2>1, CritValues DEF FromLarge
  <2>4. \/ Goto(t, "add_link") /\ callers' = callers
        \/ Call(t, "add_link", Procedure("palloc_lock", None, FALSE))
    BY <1>11 DEF add_take
  <2> HIDE DEF old, new
  <2> QED BY <1>3, <1>10, <2>1, <2>2, <2>3, <2>4
<1>12. ASSUME read_head(t) PROVE LockStepOf(t, old, new)
  <2>1. /\ me[t].pc = "read_head" /\ me'[t].pc = "search_lock" /\ callers'[t] = callers[t]
        /\ UNCHANGED <<holder, depth>>
    BY <1>1, <1>12 DEF read_head, TypeOK, Frame, At
  <2>2. new = old
    BY <2>1, CritValues DEF Held
  <2> HIDE DEF old, new
  <2> QED BY <2>1, <2>2 DEF LockStepOf
<1>13. ASSUME search(t) PROVE LockStepOf(t, old, new)
  <2>1. me[t].pc = "search" /\ UNCHANGED <<holder, depth>> /\ Crit(me[t].pc) = 1
    BY <1>13, CritValues DEF search, At
  <2>2. CASE Return(t)
    <3>1. new = old - 1
      BY <2>1, <2>2, HeldReturn
    <3> HIDE DEF old, new
    <3> QED BY <1>13, <2>1, <3>1 DEF LockStepOf
  <2>3. ASSUME callers' = callers, NEW pc \in {"handler", "unlink"}, Goto(t, pc)
        PROVE  LockStepOf(t, old, new)
    <3>1. pc \in Pcs /\ Crit(pc) = 1
      BY CritValues DEF Pcs
    <3> HIDE DEF old, new
    <3> QED BY <1>3, <2>1, <2>3, <3>1
  <2>4. CASE /\ callers' = callers
             /\ me' = [me EXCEPT ![t].prev = me[t].node, ![t].node = next[me[t].node]]
    <3>1. me'[t] = [me[t] EXCEPT !.prev = me[t].node, !.node = next[me[t].node]]
      BY <1>1, <2>4 DEF TypeOK
    <3>2. me'[t].pc = me[t].pc /\ callers'[t] = callers[t]
      BY <1>1, <2>4, <3>1, ZenonT(30) DEF Frame
    <3>3. new = old
      BY <3>2 DEF Held
    <3> HIDE DEF old, new
    <3> QED BY <2>1, <3>3 DEF LockStepOf
  <2>5. \/ Return(t)
        \/ /\ callers' = callers
           /\ Goto(t, IF me[t].run THEN "handler" ELSE "unlink")
        \/ /\ callers' = callers
           /\ me' = [me EXCEPT ![t].prev = me[t].node, ![t].node = next[me[t].node]]
    BY <1>13 DEF search
  <2> HIDE DEF old, new
  <2> QED BY <2>2, <2>3, <2>4, <2>5
<1>14. ASSUME handler(t) PROVE LockStepOf(t, old, new)
  <2>1. me[t].pc = "handler" /\ callers[t] = <<>> /\ UNCHANGED <<holder, depth>>
    BY <1>1, <1>14 DEF handler, At, Shape, Palloc, Adding, Searching
  <2>2. Crit(me[t].pc) = 1 /\ Crit("unlink") = 1 /\ "unlink" \in Pcs
    BY <2>1, CritValues DEF Pcs
  <2>3. \/ Goto(t, "unlink") /\ callers' = callers
        \/ Call(t, "unlink", Procedure("palloc_lock", None, FALSE))
    BY <1>14 DEF handler, NoLargeInHandlers
  <2> HIDE DEF old, new
  <2> QED BY <1>3, <1>10, <2>1, <2>2, <2>3
<1> HIDE DEF old, new
<1> QED BY <1>5, <1>6, <1>7, <1>8, <1>9, <1>11, <1>12, <1>13, <1>14 DEF Step, old, new

LEMMA HeldValue ==
  ASSUME NEW f, NEW c
  PROVE  Held(f, c) \in Nat /\ Held(f, c) >= Crit(f.pc)
BY CritValues DEF Held

LEMMA HeldKept ==
  ASSUME IInv, NoLargeInHandlers, NEW t \in Threads, Start(t) \/ Step(t)
  PROVE  /\ HeldInv'
         /\ holder' \in Threads \cup {NULL} /\ depth' \in Nat
         /\ depth' = 0 <=> holder' = NULL
<1> DEFINE old == Held(me[t], callers[t])
           new == Held(me'[t], callers'[t])
<1>1. LockStepOf(t, old, new)
  BY LockSteps
<1>2. old \in Nat /\ new \in Nat
  BY HeldValue
<1>3. /\ holder \in Threads \cup {NULL} /\ depth \in Nat
      /\ depth = 0 <=> holder = NULL
      /\ t # NULL
      /\ old > 0 => holder = t /\ depth >= old
  BY ThreadsAssumption DEF IInv, TypeOK, HeldInv
<1>4. me[t].pc \in Critical => Crit(me[t].pc) = 1
  BY DEF Crit
<1>5. Crit(me[t].pc) \in {0, 1}
  BY CritValues
<1>6. ASSUME NEW u \in Threads \ {t}
      PROVE  Held(me'[u], callers'[u]) > 0 =>
               holder' = u /\ depth' >= Held(me'[u], callers'[u])
  <2>1. SUFFICES ASSUME Held(me[u], callers[u]) > 0
                 PROVE  holder' = u /\ depth' >= Held(me[u], callers[u])
    BY Others DEF IInv
  <2>2. holder = u /\ depth >= Held(me[u], callers[u]) /\ u # NULL
    BY <2>1, ThreadsAssumption DEF IInv, HeldInv
  <2> HIDE DEF old, new
  <2> QED BY <1>1, <2>2 DEF LockStepOf, spr_mutex_lock, spr_mutex_unlock
<1>7. /\ new > 0 => holder' = t /\ depth' >= new
      /\ holder' \in Threads \cup {NULL} /\ depth' \in Nat
      /\ depth' = 0 <=> holder' = NULL
  <2> HIDE DEF old, new
  <2>1. CASE spr_mutex_lock(t) /\ new = old + 1
    BY <1>2, <1>3, <2>1 DEF spr_mutex_lock
  <2>2. CASE /\ spr_mutex_unlock(t) /\ new = old - Crit(me[t].pc)
             /\ me[t].pc \in Critical \/ old = 0
    BY <1>2, <1>3, <1>4, <1>5, <2>2 DEF spr_mutex_unlock
  <2>3. CASE UNCHANGED <<holder, depth>> /\ new <= old
    BY <1>2, <1>3, <2>3
  <2> QED BY <1>1, <1>2, <2>1, <2>2, <2>3 DEF LockStepOf
<1>8. HeldInv'
  BY <1>6, <1>7 DEF HeldInv
<1> QED BY <1>7, <1>8

-----------------------------------------------------------------------------
(* There is a cell for every call.                                         *)

LEMMA Counts ==
  ASSUME TypeOK
  PROVE  /\ IsFiniteSet(Taking) /\ IsFiniteSet(Made)
         /\ Cardinality(Taking) \in Nat /\ Cardinality(Made) \in Nat
         /\ Cardinality(Made) <= MaxCalls * Cardinality(Threads)
         /\ \A t \in Taking : Cardinality(Taking) >= 1
<1>1. IsFiniteSet(Threads) /\ MaxCalls \in Nat /\ Cardinality(Threads) \in Nat
  BY LockAssumption, FS_CardinalityType
<1>2. IsFiniteSet(Taking) /\ Cardinality(Taking) \in Nat
  <2>1. Taking \in SUBSET Threads
    BY DEF Taking
  <2>2. IsFiniteSet(Taking)
    BY <1>1, <2>1, FS_Subset
  <2> QED BY <2>2, FS_CardinalityType
<1>3. IsFiniteSet(1..MaxCalls) /\ Cardinality(1..MaxCalls) = MaxCalls
  BY <1>1, FS_Interval
<1> DEFINE P == Threads \X (1..MaxCalls)
<1>4. IsFiniteSet(P) /\ Cardinality(P) = Cardinality(Threads) * MaxCalls
  BY <1>1, <1>3, FS_Product
<1>5. Made \in SUBSET P
  BY DEF Made
<1> HIDE DEF P
<1>6. IsFiniteSet(Made) /\ Cardinality(Made) <= Cardinality(P)
  BY <1>4, <1>5, FS_Subset
<1>7. Cardinality(Made) \in Nat
  BY <1>6, FS_CardinalityType
<1>8. Cardinality(Threads) * MaxCalls = MaxCalls * Cardinality(Threads)
  BY <1>1
<1>9. ASSUME NEW t \in Taking PROVE Cardinality(Taking) >= 1
  <2>1. Cardinality(Taking) # 0
    BY <1>2, FS_EmptySet
  <2> QED BY <1>2, <2>1
<1> QED BY <1>2, <1>4, <1>6, <1>7, <1>8, <1>9

(* A thread whose call may still take a cell finds one.                    *)
LEMMA RoomLeft ==
  ASSUME IInv, NEW t \in Threads, me[t].pc \in MayTake
  PROVE  first_avail \in Cells
<1>1. t \in Taking
  BY DEF Taking
<1>2. Cardinality(Taking) >= 1 /\ first_avail + Cardinality(Taking) <= 1 + Cardinality(Made)
  BY <1>1, Counts DEF IInv, RoomInv
<1>3. first_avail \in Nat /\ first_avail >= 1
  BY CellsFinite DEF IInv, TypeOK
<1>4. first_avail <= MaxCalls * Cardinality(Threads)
  BY <1>2, <1>3, CellsFinite, Counts DEF IInv
<1> QED BY <1>3, <1>4, CellsFinite

(* A return leads to where no cell is going to be taken.                   *)
LEMMA ReturnTakesNone ==
  ASSUME IInv, NEW t \in Threads, Return(t)
  PROVE  me'[t].pc \in {"idle", "add_link", "unlink", "large_unlock"}
<1>1. TypeOK /\ Shape(me[t], callers[t])
  BY DEF IInv, ShapeInv
<1>2. CASE callers[t] = <<>>
  BY <1>1, <1>2, FrameReturn, Fields
<1>3. CASE callers[t] # <<>>
  <2>1. me'[t] = callers[t][1]
    BY <1>1, <1>3, FrameReturn
  <2> QED BY <1>1, <1>3, <2>1 DEF Shape, FromLarge, FromAdd, FromHandler
<1> QED BY <1>2, <1>3

(* Only a client's call makes a thread take a cell that would not have,    *)
(* and only spr_palloc takes it.                                           *)
LEMMA TakingStep ==
  ASSUME IInv, NEW t \in Threads, Step(t)
  PROVE  /\ Taking' \subseteq Taking
         /\ palloc_write(t) => t \in Taking /\ t \notin Taking'
         /\ ~ palloc_write(t) => first_avail' = first_avail
         /\ calls' = calls
<1>1. TypeOK /\ me[t] \in Frame
  BY DEF IInv, TypeOK
<1>2. ASSUME NEW pc \in Pcs \ MayTake, Goto(t, pc), callers' = callers
      PROVE  me'[t].pc \notin MayTake
  BY <1>1, <1>2, FrameGoto
<1>3. ASSUME Return(t) PROVE me'[t].pc \notin MayTake
  BY <1>3, ReturnTakesNone DEF MayTake
<1>4. ASSUME palloc_write(t)
      PROVE  /\ me[t].pc \in MayTake /\ me'[t].pc \notin MayTake
             /\ calls' = calls
  <2>1. /\ me[t].pc = "palloc_write" /\ Goto(t, "palloc_unlock") /\ callers' = callers
        /\ calls' = calls
    BY <1>4 DEF palloc_write, At, client
  <2>2. "palloc_unlock" \in Pcs \ MayTake
    BY DEF Pcs, MayTake
  <2> QED BY <1>2, <2>1, <2>2 DEF MayTake
<1>5. ASSUME \/ palloc_lock(t) \/ palloc_read(t) \/ large_add(t) \/ add_lock(t) \/ add_take(t)
             \/ read_head(t) \/ search_lock(t) \/ search(t) \/ handler(t)
      PROVE  me[t].pc \in MayTake /\ UNCHANGED <<first_avail, calls>>
  BY <1>5 DEF palloc_lock, palloc_read, large_add, add_lock, add_take, read_head, search_lock,
              search, handler, LockStep, At, MayTake, pool, client
<1>6. ASSUME palloc_fails(t) \/ palloc_unlock(t) \/ large_unlock(t) \/ add_unlock(t)
             \/ search_unlock(t)
      PROVE  me'[t].pc \notin MayTake /\ UNCHANGED <<first_avail, calls>>
  BY <1>3, <1>6 DEF palloc_fails, palloc_unlock, large_unlock, add_unlock, search_unlock,
                    UnlockStep, pool, client
<1>7. ASSUME add_link(t) \/ add_push(t) \/ unlink(t) \/ reserve(t)
      PROVE  me'[t].pc \notin MayTake /\ UNCHANGED <<first_avail, calls>>
  <2>1. PICK pc \in {"add_push", "add_unlock", "reserve", "search_unlock"} :
          Goto(t, pc) /\ callers' = callers /\ UNCHANGED <<first_avail, calls>>
    BY <1>7 DEF add_link, add_push, unlink, reserve, client
  <2>2. pc \in Pcs \ MayTake
    BY DEF Pcs, MayTake
  <2> QED BY <1>2, <2>1, <2>2
<1>8. /\ me[t].pc \in MayTake \/ me'[t].pc \notin MayTake
      /\ palloc_write(t) => me[t].pc \in MayTake /\ me'[t].pc \notin MayTake
      /\ ~ palloc_write(t) => first_avail' = first_avail
      /\ calls' = calls
  BY <1>4, <1>5, <1>6, <1>7 DEF Step
<1>9. \A u \in Threads \ {t} : me'[u] = me[u]
  BY <1>1, Others
<1> QED BY <1>8, <1>9 DEF Taking

(* A step at palloc_write is one of the thread that is there.              *)
LEMMA RoomKept ==
  ASSUME IInv, NoLargeInHandlers, NEW t \in Threads, Start(t) \/ Step(t),
         Cardinality(Taking') \in Nat, Cardinality(Made') \in Nat
  PROVE  RoomInv'
<1>1. TypeOK /\ first_avail \in Nat
  BY CellsFinite, SMTT(30) DEF IInv, TypeOK
<1>2. /\ first_avail + Cardinality(Taking) <= 1 + Cardinality(Made)
      /\ \A u \in Threads : me[u].pc = "palloc_write" => mem[u] = first_avail
  BY DEF IInv, RoomInv, At
<1>3. /\ IsFiniteSet(Taking) /\ IsFiniteSet(Made)
      /\ Cardinality(Taking) \in Nat /\ Cardinality(Made) \in Nat
  BY <1>1, Counts
<1>4. first_avail' + Cardinality(Taking') <= 1 + Cardinality(Made')
  <2>1. CASE Start(t)
    <3>1. /\ first_avail' = first_avail /\ calls[t] > 0
          /\ calls' = [calls EXCEPT ![t] = @ - 1]
      BY <2>1 DEF Start, pool
    <3>2. calls \in [Threads -> 0..MaxCalls] /\ MaxCalls \in Nat
      BY <1>1, LockAssumption DEF TypeOK
    <3> DEFINE x == <<t, calls[t]>>
    <3>3. Made' = Made \cup {x} /\ x \notin Made
      <4>1. x \in Threads \X (1..MaxCalls) /\ x[1] = t /\ x[2] = calls[t]
        BY <3>1, <3>2
      <4>2. x \notin Made
        BY <3>2, <4>1 DEF Made
      <4>3. ASSUME NEW p \in Threads \X (1..MaxCalls)
            PROVE  p[2] > calls'[p[1]] <=> p[2] > calls[p[1]] \/ p = x
        <5>1. p[1] \in Threads /\ p[2] \in 1..MaxCalls /\ p = <<p[1], p[2]>>
          OBVIOUS
        <5>2. CASE p[1] = t
          <6>1. calls'[p[1]] = calls[t] - 1
            BY <3>1, <3>2, <5>2
          <6>2. p = x <=> p[2] = calls[t]
            BY <5>1, <5>2
          <6>3. calls[p[1]] = calls[t] /\ calls[t] \in Nat /\ p[2] \in Nat
            BY <3>2, <5>1, <5>2
          <6> HIDE DEF x
          <6> QED BY <6>1, <6>2, <6>3
        <5>3. CASE p[1] # t
          <6>1. calls'[p[1]] = calls[p[1]] /\ p # x
            BY <3>1, <3>2, <5>1, <5>3
          <6> QED BY <6>1
        <5> QED BY <5>2, <5>3
      <4> HIDE DEF x
      <4> QED BY <4>1, <4>2, <4>3 DEF Made
    <3> HIDE DEF x
    <3>4. Cardinality(Made') = Cardinality(Made) + 1
      BY <1>3, <3>3, FS_AddElement
    <3>5. Cardinality(Taking') <= Cardinality(Taking) + 1
      <4>1. Taking' \in SUBSET (Taking \cup {t})
        BY <1>1, Others DEF Taking
      <4> DEFINE T == Taking \cup {t}
      <4>2. /\ IsFiniteSet(T)
            /\ Cardinality(T) = IF t \in Taking THEN Cardinality(Taking)
                                ELSE Cardinality(Taking) + 1
        BY <1>3, FS_AddElement
      <4>3. Cardinality(Taking') <= Cardinality(T)
        <5>1. Taking' \in SUBSET T
          BY <4>1
        <5> HIDE DEF T
        <5> QED BY <4>2, <5>1, FS_Subset
      <4> HIDE DEF T
      <4> QED BY <1>3, <4>2, <4>3
    <3> QED BY <1>1, <1>2, <1>3, <3>1, <3>4, <3>5
  <2>2. CASE Step(t)
    <3>1. Taking' \subseteq Taking /\ Made' = Made
      BY <2>2, TakingStep DEF Made
    <3>2. CASE palloc_write(t)
      <4>1. first_avail' = first_avail + 1
        BY <1>2, <3>2 DEF palloc_write, At
      <4>2. t \in Taking /\ Taking' \in SUBSET (Taking \ {t})
        BY <2>2, <3>2, TakingStep
      <4> DEFINE T == Taking \ {t}
      <4>3. IsFiniteSet(T) /\ Cardinality(T) = Cardinality(Taking) - 1
        BY <1>3, <4>2, FS_RemoveElement
      <4>4. Cardinality(Taking') <= Cardinality(T)
        <5>1. Taking' \in SUBSET T
          BY <4>2
        <5> HIDE DEF T
        <5> QED BY <4>3, <5>1, FS_Subset
      <4> HIDE DEF T
      <4> QED BY <1>1, <1>2, <1>3, <3>1, <4>1, <4>3, <4>4
    <3>3. CASE ~ palloc_write(t)
      <4>1. first_avail' = first_avail
        BY <2>2, <3>3, TakingStep
      <4>2. Cardinality(Taking') <= Cardinality(Taking)
        BY <1>3, <3>1, FS_Subset
      <4> QED BY <1>1, <1>2, <1>3, <3>1, <4>1, <4>2
    <3> QED BY <3>2, <3>3
  <2> QED BY <2>1, <2>2
<1>5. ASSUME NEW u \in Threads, me'[u].pc = "palloc_write" PROVE mem'[u] = first_avail'
  <2>1. CASE u = t
    <3>1. CASE palloc_read(t)
      BY <1>1, <2>1, <3>1 DEF palloc_read, TypeOK, pool
    <3>2. CASE ~ palloc_read(t)
      <4>1. me'[t].pc # "palloc_write"
        <5>1. CASE Start(t)
          BY <1>1, <5>1 DEF Start, Procedure, TypeOK
        <5>2. ASSUME Return(t) PROVE me'[t].pc # "palloc_write"
          BY <5>2, ReturnTakesNone
        <5>3. ASSUME NEW pc \in Pcs \ {"palloc_write"}, Goto(t, pc)
              PROVE  me'[t].pc # "palloc_write"
          BY <1>1, <5>3 DEF Goto, TypeOK, Frame
        <5>4. ASSUME NEW pc, NEW f, Call(t, pc, f), f.pc # "palloc_write"
              PROVE  me'[t].pc # "palloc_write"
          BY <1>1, <5>4 DEF Call, TypeOK
        <5>5. ASSUME \/ palloc_fails(t) \/ palloc_unlock(t) \/ large_unlock(t)
                     \/ add_unlock(t) \/ search_unlock(t)
              PROVE  me'[t].pc # "palloc_write"
          BY <5>2, <5>5 DEF palloc_fails, palloc_unlock, large_unlock, add_unlock, search_unlock,
                            UnlockStep
        <5>6. ASSUME \/ palloc_lock(t) \/ palloc_write(t) \/ add_lock(t) \/ add_link(t)
                     \/ add_push(t) \/ search_lock(t) \/ unlink(t) \/ reserve(t)
              PROVE  me'[t].pc # "palloc_write"
          <6>1. PICK pc \in {"palloc_read", "palloc_unlock", "add_take", "add_push",
                             "add_unlock", "search", "reserve", "search_unlock"} : Goto(t, pc)
            BY <5>6 DEF palloc_lock, palloc_write, add_lock, add_link, add_push, search_lock,
                        unlink, reserve, LockStep
          <6>2. pc \in Pcs \ {"palloc_write"}
            BY DEF Pcs
          <6> QED BY <5>3, <6>1, <6>2
        <5>7. ASSUME large_add(t) PROVE me'[t].pc # "palloc_write"
          BY <5>4, <5>7 DEF large_add, Procedure
        <5>8. ASSUME add_take(t) \/ handler(t) PROVE me'[t].pc # "palloc_write"
          <6>1. \/ \E pc \in {"add_link", "unlink"} : Goto(t, pc)
                \/ \E pc \in {"add_link", "unlink"} :
                     Call(t, pc, Procedure("palloc_lock", None, FALSE))
            BY <5>8 DEF add_take, handler, NoLargeInHandlers
          <6>2. {"add_link", "unlink"} \subseteq Pcs \ {"palloc_write"}
            BY DEF Pcs
          <6> QED BY <5>3, <5>4, <6>1, <6>2 DEF Procedure
        <5>9. ASSUME read_head(t) PROVE me'[t].pc # "palloc_write"
          BY <1>1, <5>9 DEF read_head, TypeOK, Frame
        <5>10. ASSUME search(t) PROVE me'[t].pc # "palloc_write"
          <6>1. ASSUME me' = [me EXCEPT ![t].prev = me[t].node, ![t].node = next[me[t].node]]
                PROVE  me'[t].pc = me[t].pc
            <7>1. me'[t] = [me[t] EXCEPT !.prev = me[t].node, !.node = next[me[t].node]]
              BY <1>1, <6>1 DEF TypeOK
            <7>2. me[t] \in Frame
              BY <1>1 DEF TypeOK
            <7> QED BY <7>1, <7>2 DEF Frame
          <6>2. {"handler", "unlink"} \subseteq Pcs \ {"palloc_write"}
            BY DEF Pcs
          <6>3. \/ Return(t)
                \/ \E pc \in {"handler", "unlink"} : Goto(t, pc)
                \/ me' = [me EXCEPT ![t].prev = me[t].node, ![t].node = next[me[t].node]]
            BY <5>10 DEF search
          <6>4. me[t].pc = "search"
            BY <5>10 DEF search, At
          <6> QED BY <5>2, <5>3, <6>1, <6>2, <6>3, <6>4
        <5> QED BY <3>2, <5>1, <5>5, <5>6, <5>7, <5>8, <5>9, <5>10 DEF Step
      <4> QED BY <1>5, <2>1, <4>1
    <3> QED BY <3>1, <3>2
  <2>2. CASE u # t
    <3>1. me'[u] = me[u] /\ mem'[u] = mem[u]
      BY <1>1, <2>2, Others
    <3>2. me[u].pc = "palloc_write" /\ mem[u] = first_avail
      BY <1>2, <1>5, <3>1
    <3>3. ~ palloc_write(t)
      <4>1. Held(me[u], callers[u]) > 0
        BY <3>2, HeldValue, CritValues
      <4>2. ASSUME me[t].pc = "palloc_write" PROVE Held(me[t], callers[t]) > 0
        BY <4>2, HeldValue, CritValues
      <4> QED BY <2>2, <4>1, <4>2 DEF palloc_write, At, IInv, HeldInv
    <3>4. first_avail' = first_avail
      BY <3>3, TakingStep DEF Start, pool
    <3> QED BY <3>1, <3>2, <3>4
  <2> QED BY <2>1, <2>2
<1> QED BY <1>4, <1>5 DEF RoomInv, At

-----------------------------------------------------------------------------
(* Types.                                                                  *)

FramesOK == me \in [Threads -> Frame] /\ callers \in [Threads -> Seq(Frame)]

LEMMA ReturnType ==
  ASSUME TypeOK, NEW t \in Threads, Return(t)
  PROVE  FramesOK'
<1>1. me \in [Threads -> Frame] /\ callers \in [Threads -> Seq(Frame)]
  BY DEF TypeOK
<1>2. CASE callers[t] = <<>>
  BY <1>1, <1>2, Fields DEF Return, FramesOK
<1>3. CASE callers[t] # <<>>
  <2>1. Head(callers[t]) \in Frame /\ Tail(callers[t]) \in Seq(Frame)
    BY <1>1, <1>3, HeadTailProperties
  <2> QED BY <1>1, <1>3, <2>1 DEF Return, FramesOK
<1> QED BY <1>2, <1>3

LEMMA GotoType ==
  ASSUME TypeOK, NEW t \in Threads, NEW pc \in Pcs, Goto(t, pc), callers' = callers
  PROVE  FramesOK'
<1>1. me \in [Threads -> Frame] /\ callers \in [Threads -> Seq(Frame)]
  BY DEF TypeOK
<1>2. me' = [me EXCEPT ![t] = [me[t] EXCEPT !.pc = pc]]
  BY DEF Goto
<1>3. [me[t] EXCEPT !.pc = pc] \in Frame
  BY <1>1, Fields
<1> QED BY <1>1, <1>2, <1>3 DEF FramesOK

LEMMA CallType ==
  ASSUME TypeOK, NEW t \in Threads, NEW pc \in Pcs, NEW f \in Frame, Call(t, pc, f)
  PROVE  FramesOK'
<1>1. me \in [Threads -> Frame] /\ callers \in [Threads -> Seq(Frame)]
  BY DEF TypeOK
<1> DEFINE g == [me[t] EXCEPT !.pc = pc]
<1>2. g \in Frame
  BY <1>1, Fields
<1>3. me' = [me EXCEPT ![t] = f] /\ callers' = [callers EXCEPT ![t] = <<g>> \o @]
  BY DEF Call
<1> HIDE DEF g
<1>4. <<g>> \o callers[t] \in Seq(Frame)
  BY <1>1, <1>2, Cons
<1> QED BY <1>1, <1>3, <1>4 DEF FramesOK

LEMMA ProcedureType ==
  ASSUME NEW pc \in Pcs, NEW d \in Data \cup {None}
  PROVE  Procedure(pc, d, FALSE) \in Frame /\ Procedure(pc, d, TRUE) \in Frame
BY DEF Procedure, Frame

LEMMA FramesKept ==
  ASSUME IInv, NoLargeInHandlers, NEW t \in Threads, Start(t) \/ Step(t)
  PROVE  FramesOK'
<1>1. /\ TypeOK /\ me[t] \in Frame /\ Shape(me[t], callers[t])
      /\ me \in [Threads -> Frame] /\ callers \in [Threads -> Seq(Frame)]
  BY DEF IInv, TypeOK, ShapeInv
<1>2. ASSUME Start(t) PROVE FramesOK'
  <2>1. {"palloc_lock", "large_unlock", "large_add", "add_lock", "read_head"} \subseteq Pcs
    BY DEF Pcs
  <2>2. \E f \in Frame : me' = [me EXCEPT ![t] = f]
    BY <1>1, <1>2, <2>1, ProcedureType DEF Start, TypeOK
  <2> QED BY <1>1, <1>2, <2>2 DEF Start, FramesOK
<1>3. ASSUME palloc_fails(t) \/ palloc_unlock(t) \/ large_unlock(t) \/ add_unlock(t)
             \/ search_unlock(t)
      PROVE  FramesOK'
  BY <1>1, <1>3, ReturnType
     DEF palloc_fails, palloc_unlock, large_unlock, add_unlock, search_unlock, UnlockStep
<1>4. ASSUME \/ palloc_lock(t) \/ palloc_read(t) \/ palloc_write(t) \/ add_lock(t)
             \/ add_link(t) \/ add_push(t) \/ search_lock(t) \/ unlink(t) \/ reserve(t)
      PROVE  FramesOK'
  <2>1. PICK pc \in {"palloc_read", "palloc_write", "palloc_unlock", "add_take", "add_push",
                     "add_unlock", "search", "reserve", "search_unlock"} :
          Goto(t, pc) /\ callers' = callers
    BY <1>4 DEF palloc_lock, palloc_read, palloc_write, add_lock, add_link, add_push,
                search_lock, unlink, reserve, LockStep
  <2>2. pc \in Pcs
    BY DEF Pcs
  <2> QED BY <1>1, <2>1, <2>2, GotoType
<1>5. ASSUME large_add(t) PROVE FramesOK'
  <2>1. Call(t, "large_unlock", Procedure("add_lock", me[t].want, FALSE))
    BY <1>5 DEF large_add
  <2>2. "large_unlock" \in Pcs /\ "add_lock" \in Pcs /\ me[t].want \in Data \cup {None}
    BY <1>1 DEF Pcs, Frame
  <2> QED BY <1>1, <2>1, <2>2, CallType, ProcedureType
<1>6. ASSUME add_take(t) \/ handler(t) PROVE FramesOK'
  <2>1. PICK pc \in {"add_link", "unlink"} :
          \/ Goto(t, pc) /\ callers' = callers
          \/ Call(t, pc, Procedure("palloc_lock", None, FALSE))
    BY <1>6 DEF add_take, handler, NoLargeInHandlers
  <2>2. pc \in Pcs /\ "palloc_lock" \in Pcs /\ None \in Data \cup {None}
    BY DEF Pcs
  <2>3. Procedure("palloc_lock", None, FALSE) \in Frame
    BY <2>2, ProcedureType
  <2> QED BY <1>1, <2>1, <2>2, <2>3, CallType, GotoType
<1>8. ASSUME read_head(t) PROVE FramesOK'
  <2> DEFINE f == [me[t] EXCEPT !.node = cleanups, !.pc = "search_lock"]
  <2>1. f \in Frame
    BY <1>1 DEF Frame, TypeOK, Pcs
  <2>2. me' = [me EXCEPT ![t] = f] /\ callers' = callers
    BY <1>8 DEF read_head
  <2> HIDE DEF f
  <2> QED BY <1>1, <2>1, <2>2 DEF FramesOK
<1>9. ASSUME search(t) PROVE FramesOK'
  <2>1. CASE Return(t)
    BY <1>1, <2>1, ReturnType
  <2>2. ASSUME NEW pc \in {"handler", "unlink"}, Goto(t, pc), callers' = callers
        PROVE  FramesOK'
    <3>1. pc \in Pcs
      BY DEF Pcs
    <3> QED BY <1>1, <2>2, <3>1, GotoType
  <2>3. CASE /\ me[t].node # 0 /\ callers' = callers
             /\ me' = [me EXCEPT ![t].prev = me[t].node, ![t].node = next[me[t].node]]
    <3> DEFINE f == [me[t] EXCEPT !.prev = me[t].node, !.node = next[me[t].node]]
    <3>1. me[t].node \in Cells
      BY <1>1, <2>3 DEF Frame
    <3>2. next[me[t].node] \in Cells \cup {0}
      BY <1>1, <3>1 DEF TypeOK
    <3>3. f \in Frame
      BY <1>1, <3>1, <3>2 DEF Frame
    <3>4. me' = [me EXCEPT ![t] = f]
      BY <2>3
    <3> HIDE DEF f
    <3> QED BY <1>1, <2>3, <3>3, <3>4 DEF FramesOK
  <2>4. \/ Return(t)
        \/ Goto(t, IF me[t].run THEN "handler" ELSE "unlink") /\ callers' = callers
        \/ /\ me[t].node # 0 /\ callers' = callers
           /\ me' = [me EXCEPT ![t].prev = me[t].node, ![t].node = next[me[t].node]]
    BY <1>9 DEF search
  <2> QED BY <2>1, <2>2, <2>3, <2>4
<1> QED BY <1>2, <1>3, <1>4, <1>5, <1>6, <1>8, <1>9 DEF Step

(* The pool and what its clients know of it.                               *)
DataOK ==
  /\ first_avail \in Cells \cup {Cardinality(Cells) + 1}
  /\ {cleanups, free_cleanups} \subseteq Cells \cup {0}
  /\ next \in [Cells -> Cells \cup {0}]
  /\ data \in [Cells -> Data \cup {None}]
  /\ mem \in [Threads -> Cells \cup {0}]
  /\ blocks \in [Threads -> SUBSET Cells]
  /\ calls \in [Threads -> 0..MaxCalls]
  /\ entries \subseteq Data /\ fresh \subseteq Data
  /\ runs \in [Data -> Nat]
  /\ wild \in BOOLEAN

LEMMA MemKept ==
  ASSUME IInv, NoLargeInHandlers, NEW t \in Threads, Start(t) \/ Step(t)
  PROVE  MemInv'
<1> DEFINE HasCell == {"palloc_unlock", "add_link", "add_push"}
<1>1. TypeOK /\ Shape(me[t], callers[t])
  BY DEF IInv, ShapeInv
<1>2. me[t].pc \in HasCell => mem[t] \in Cells
  BY DEF IInv, MemInv
<1>3. SUFFICES ASSUME me'[t].pc \in HasCell PROVE mem'[t] \in Cells
  BY <1>1, Others DEF MemInv, IInv
<1>4. ASSUME NEW pc \in Pcs, Goto(t, pc), callers' = callers PROVE me'[t].pc = pc
  BY <1>1, <1>4, FrameGoto
<1>5. ASSUME palloc_write(t) PROVE mem'[t] \in Cells
  <2>1. me[t].pc = "palloc_write" /\ mem' = mem
    BY <1>5 DEF palloc_write, At
  <2>2. mem[t] = first_avail /\ first_avail \in Cells
    BY <2>1, RoomLeft DEF IInv, RoomInv, At, MayTake
  <2> QED BY <2>1, <2>2
<1>6. ASSUME palloc_unlock(t) \/ add_link(t) PROVE mem'[t] \in Cells
  BY <1>2, <1>6 DEF palloc_unlock, add_link, At
<1>7. ASSUME add_take(t) PROVE mem'[t] \in Cells
  <2>1. CASE free_cleanups # 0 /\ mem' = [mem EXCEPT ![t] = free_cleanups]
    BY <1>1, <2>1 DEF TypeOK
  <2>2. CASE Call(t, "add_link", Procedure("palloc_lock", None, FALSE))
    <3>1. me'[t].pc = "palloc_lock"
      BY <1>1, <2>2 DEF Call, TypeOK, Procedure
    <3> QED BY <1>3, <3>1
  <2> QED BY <1>7, <2>1, <2>2 DEF add_take
<1>8. ASSUME large_add(t) \/ handler(t) PROVE FALSE
  <2>1. ASSUME NEW pc, NEW f, Call(t, pc, f) PROVE me'[t] = f
    BY <1>1, <2>1 DEF Call, TypeOK
  <2>2. CASE large_add(t)
    <3>1. me'[t] = Procedure("add_lock", me[t].want, FALSE)
      BY <2>1, <2>2 DEF large_add
    <3> QED BY <1>3, <3>1 DEF Procedure
  <2>3. CASE handler(t)
    <3>1. \/ Goto(t, "unlink") /\ callers' = callers
          \/ Call(t, "unlink", Procedure("palloc_lock", None, FALSE))
      BY <2>3 DEF handler, NoLargeInHandlers
    <3>2. CASE Goto(t, "unlink") /\ callers' = callers
      <4>1. me'[t].pc = "unlink"
        BY <1>4, <3>2 DEF Pcs
      <4> QED BY <1>3, <4>1
    <3>3. CASE Call(t, "unlink", Procedure("palloc_lock", None, FALSE))
      <4>1. me'[t] = Procedure("palloc_lock", None, FALSE)
        BY <2>1, <3>3
      <4> QED BY <1>3, <4>1 DEF Procedure
    <3> QED BY <3>1, <3>2, <3>3
  <2> QED BY <1>8, <2>2, <2>3
<1>9. ASSUME Start(t) \/ read_head(t) PROVE FALSE
  <2>1. me'[t].pc \in {"palloc_lock", "large_unlock", "large_add", "add_lock",
                        "read_head", "search_lock"}
    BY <1>1, <1>9 DEF Start, read_head, TypeOK, Procedure, Frame
  <2> QED BY <1>3, <2>1
<1>10. ASSUME palloc_lock(t) \/ palloc_read(t) \/ add_lock(t) \/ add_push(t)
              \/ search_lock(t) \/ unlink(t) \/ reserve(t)
       PROVE  FALSE
  <2>1. PICK pc \in {"palloc_read", "palloc_write", "add_take", "add_unlock",
                     "search", "reserve", "search_unlock"} : Goto(t, pc) /\ callers' = callers
    BY <1>10 DEF palloc_lock, palloc_read, add_lock, add_push, search_lock, unlink,
                 reserve, LockStep
  <2>2. pc \in Pcs
    BY DEF Pcs
  <2> QED BY <1>3, <1>4, <2>1, <2>2
<1>11. ASSUME Return(t), me[t].pc \notin Palloc PROVE FALSE
  <2>1. callers[t] = <<>> \/ FromLarge(callers[t])
    BY <1>1, <1>11 DEF Shape
  <2>2. me'[t].pc \in {"idle", "large_unlock"}
    BY <1>1, <1>11, <2>1, FrameReturn, Fields DEF FromLarge
  <2> QED BY <1>3, <2>2
<1>12. ASSUME palloc_fails(t) PROVE FALSE
  <2>1. /\ Return(t) /\ me[t].pc = "palloc_read" /\ me[t].pc \in Palloc
        /\ callers[t] # <<>> => Head(callers[t]).pc # "add_link"
    BY <1>12 DEF palloc_fails, UnlockStep, At, Palloc
  <2>2. me'[t].pc = "add_link"
    BY <1>3, <2>1, ReturnTakesNone
  <2>3. callers[t] # <<>> /\ me'[t] = Head(callers[t])
    BY <1>1, <2>1, <2>2 DEF Return, TypeOK, Idle
  <2> QED BY <2>1, <2>2, <2>3
<1>13. ASSUME large_unlock(t) \/ add_unlock(t) \/ search_unlock(t) PROVE FALSE
  BY <1>11, <1>13 DEF large_unlock, add_unlock, search_unlock, UnlockStep, At, Palloc
<1>14. ASSUME search(t) PROVE FALSE
  <2>1. me[t].pc = "search" /\ me[t].pc \notin Palloc
    BY <1>14 DEF search, At, Palloc
  <2>2. {"handler", "unlink"} \subseteq Pcs
    BY DEF Pcs
  <2>3. ASSUME callers' = callers,
               me' = [me EXCEPT ![t].prev = me[t].node, ![t].node = next[me[t].node]]
        PROVE  FALSE
    <3>1. me'[t] = [me[t] EXCEPT !.prev = me[t].node, !.node = next[me[t].node]]
      BY <1>1, <2>3 DEF TypeOK
    <3>2. me'[t].pc = me[t].pc
      BY <1>1, <3>1 DEF TypeOK, Frame
    <3> QED BY <1>3, <2>1, <3>2
  <2>4. ASSUME NEW pc \in {"handler", "unlink"}, Goto(t, pc), callers' = callers PROVE FALSE
    BY <1>3, <1>4, <2>2, <2>4
  <2>5. \/ Return(t)
        \/ Goto(t, IF me[t].run THEN "handler" ELSE "unlink") /\ callers' = callers
        \/ /\ callers' = callers
           /\ me' = [me EXCEPT ![t].prev = me[t].node, ![t].node = next[me[t].node]]
    BY <1>14 DEF search
  <2> QED BY <1>11, <2>1, <2>3, <2>4, <2>5
<1> QED BY <1>5, <1>6, <1>7, <1>8, <1>9, <1>10, <1>12, <1>13, <1>14 DEF Step

LEMMA DataKept ==
  ASSUME IInv, NoLargeInHandlers, NEW t \in Threads, Start(t) \/ Step(t)
  PROVE  DataOK'
<1>1. DataOK /\ TypeOK /\ Shape(me[t], callers[t]) /\ me[t] \in Frame
  BY DEF IInv, TypeOK, DataOK, ShapeInv
<1>2. first_avail' \in Cells \cup {Cardinality(Cells) + 1}
  <2>1. CASE palloc_write(t)
    <3>1. me[t].pc = "palloc_write" /\ first_avail' = mem[t] + 1
      BY <2>1 DEF palloc_write, At
    <3>2. mem[t] \in Cells
      BY <3>1, RoomLeft DEF IInv, RoomInv, At, MayTake
    <3> QED BY <3>1, <3>2, CellsFinite
  <2>2. CASE ~ palloc_write(t)
    <3>1. first_avail' = first_avail
      BY <2>2, TakingStep DEF Start, pool
    <3> QED BY <1>1, <3>1 DEF DataOK
  <2> QED BY <2>1, <2>2
<1>3. ASSUME Start(t) PROVE DataOK'
  <2>1. calls' \in [Threads -> 0..MaxCalls]
    BY <1>1, <1>3, LockAssumption DEF Start, DataOK
  <2>2. fresh' \subseteq Data
    BY <1>1, <1>3 DEF Start, DataOK
  <2>3. UNCHANGED <<pool, mem, blocks, entries, runs, wild>>
    BY <1>3 DEF Start
  <2> QED BY <1>1, <2>1, <2>2, <2>3 DEF DataOK, pool
<1>4. ASSUME \/ palloc_lock(t) \/ palloc_fails(t) \/ large_add(t) \/ large_unlock(t)
             \/ add_lock(t) \/ add_unlock(t) \/ read_head(t) \/ search_lock(t) \/ search(t)
             \/ search_unlock(t)
      PROVE  DataOK'
  <2>1. UNCHANGED <<pool, mem, client, wild>>
    BY <1>4 DEF palloc_lock, palloc_fails, large_add, large_unlock, add_lock, add_unlock,
                read_head, search_lock, search, search_unlock, LockStep, UnlockStep
  <2> QED BY <1>1, <2>1 DEF DataOK, pool, client
<1>5. ASSUME palloc_read(t) PROVE DataOK'
  <2>1. UNCHANGED <<pool, client, wild>> /\ mem' = [mem EXCEPT ![t] = first_avail]
    BY <1>5 DEF palloc_read
  <2>2. first_avail \in Cells
    BY <1>5, RoomLeft DEF palloc_read, At, MayTake
  <2> QED BY <1>1, <2>1, <2>2 DEF DataOK, pool, client
<1>6. ASSUME palloc_write(t) PROVE DataOK'
  <2>1. UNCHANGED <<cleanups, free_cleanups, next, data, mem, client, wild>>
    BY <1>6 DEF palloc_write
  <2> QED BY <1>1, <1>2, <2>1 DEF DataOK, client
<1>7. ASSUME palloc_unlock(t) PROVE DataOK'
  <2>1. UNCHANGED <<pool, mem, calls, entries, fresh, runs, wild>>
    BY <1>7 DEF palloc_unlock
  <2>2. mem[t] \in Cells
    BY <1>7 DEF palloc_unlock, At, IInv, MemInv
  <2>3. blocks' \in [Threads -> SUBSET Cells]
    BY <1>1, <1>7, <2>2 DEF palloc_unlock, DataOK
  <2> QED BY <1>1, <2>1, <2>3 DEF DataOK, pool
<1>8. ASSUME add_take(t) PROVE DataOK'
  <2>1. UNCHANGED <<first_avail, cleanups, next, data, client, wild>>
    BY <1>8 DEF add_take
  <2>2. /\ mem' \in [Threads -> Cells \cup {0}]
        /\ free_cleanups' \in Cells \cup {0}
    BY <1>1, <1>8 DEF add_take, DataOK
  <2> QED BY <1>1, <2>1, <2>2 DEF DataOK, client
<1>9. ASSUME add_link(t) PROVE DataOK'
  <2>1. UNCHANGED <<first_avail, cleanups, free_cleanups, mem, client, wild>>
    BY <1>9 DEF add_link
  <2>2. me[t].want \in Data \cup {None}
    BY <1>1 DEF Frame
  <2>3. data' \in [Cells -> Data \cup {None}]
    BY <1>1, <1>9, <2>2 DEF add_link, DataOK
  <2>4. next' \in [Cells -> Cells \cup {0}]
    BY <1>1, <1>9 DEF add_link, DataOK
  <2> QED BY <1>1, <2>1, <2>3, <2>4 DEF DataOK, client
<1>10. ASSUME add_push(t) PROVE DataOK'
  <2>1. UNCHANGED <<first_avail, free_cleanups, next, data, mem, blocks, calls, fresh, runs, wild>>
    BY <1>10 DEF add_push
  <2>2. me[t].want \in Data /\ mem[t] \in Cells
    BY <1>1, <1>10 DEF add_push, At, IInv, MemInv, Shape, Adding, Palloc, Searching
  <2>3. cleanups' \in Cells /\ entries' \subseteq Data
    BY <1>1, <1>10, <2>2 DEF add_push, DataOK
  <2> QED BY <1>1, <2>1, <2>3 DEF DataOK
<1>11. ASSUME handler(t) PROVE DataOK'
  <2>1. UNCHANGED <<pool, mem, blocks, calls, entries, wild>>
    BY <1>11 DEF handler
  <2>2. me[t].want \in Data
    BY <1>1, <1>11 DEF handler, At, Shape, Adding, Palloc, Searching
  <2>3. runs' \in [Data -> Nat]
    BY <1>1, <1>11, <2>2 DEF handler, DataOK
  <2>4. fresh' \subseteq Data
    BY <1>1, <1>11 DEF handler, DataOK
  <2> QED BY <1>1, <2>1, <2>3, <2>4 DEF DataOK, pool
<1>12. ASSUME unlink(t) \/ reserve(t) PROVE DataOK'
  <2>1. me[t].node \in Cells
    BY <1>1, <1>12 DEF unlink, reserve, At, Shape, Adding, Palloc, Searching
  <2>2. next[me[t].node] \in Cells \cup {0}
    BY <1>1, <2>1 DEF DataOK
  <2>3. UNCHANGED <<first_avail, data, mem, blocks, calls, fresh, runs>>
    BY <1>12 DEF unlink, reserve, client
  <2>4. next' \in [Cells -> Cells \cup {0}]
    BY <1>1, <1>12, <2>2 DEF unlink, reserve, DataOK
  <2>5. {cleanups', free_cleanups'} \subseteq Cells \cup {0}
    BY <1>1, <1>12, <2>1, <2>2 DEF unlink, reserve, DataOK
  <2>6. entries' \subseteq Data /\ wild' \in BOOLEAN
    BY <1>1, <1>12 DEF unlink, reserve, DataOK, client
  <2> QED BY <1>1, <2>3, <2>4, <2>5, <2>6 DEF DataOK
<1> QED BY <1>3, <1>4, <1>5, <1>6, <1>7, <1>8, <1>9, <1>10, <1>11, <1>12 DEF Step

-----------------------------------------------------------------------------

LEMMA IInvInit == Init => IInv
<1> SUFFICES ASSUME Init PROVE IInv
  OBVIOUS
<1>1. TypeOK
  <2>1. 1 \in Cells \cup {Cardinality(Cells) + 1}
    BY CellsFinite
  <2>2. me \in [Threads -> Frame] /\ callers \in [Threads -> Seq(Frame)]
    BY Fields DEF Init
  <2>3. /\ holder \in Threads \cup {NULL} /\ depth \in Nat /\ (depth = 0 <=> holder = NULL)
    BY DEF Init, MutexInit
  <2>4. /\ next \in [Cells -> Cells \cup {0}] /\ data \in [Cells -> Data \cup {None}]
        /\ mem \in [Threads -> Cells \cup {0}] /\ blocks \in [Threads -> SUBSET Cells]
        /\ calls \in [Threads -> 0..MaxCalls] /\ runs \in [Data -> Nat]
    BY LockAssumption DEF Init
  <2> QED BY <2>1, <2>2, <2>3, <2>4 DEF Init, TypeOK
<1>2. \A t \in Threads : me[t].pc = "idle" /\ callers[t] = <<>>
  BY DEF Init, Idle
<1>3. ShapeInv
  BY <1>2 DEF ShapeInv, Shape
<1>4. HeldInv
  BY <1>2, CritValues DEF HeldInv, Held
<1>5. RoomInv
  <2>1. Taking = {}
    BY <1>2 DEF Taking, MayTake
  <2>2. Cardinality(Taking) = 0 /\ Cardinality(Made) \in Nat
    BY <1>1, <2>1, FS_EmptySet, Counts
  <2>3. first_avail = 1
    BY DEF Init
  <2> QED BY <1>2, <2>2, <2>3 DEF RoomInv, At
<1>6. MemInv
  BY <1>2 DEF MemInv
<1> QED BY <1>1, <1>3, <1>4, <1>5, <1>6 DEF IInv

LEMMA CountsAfter ==
  (TypeOK => Cardinality(Taking) \in Nat /\ Cardinality(Made) \in Nat)'
<1>1. TypeOK => Cardinality(Taking) \in Nat /\ Cardinality(Made) \in Nat
  BY Counts
<1> QED BY <1>1, PTL

LEMMA IInvStep ==
  ASSUME IInv, NoLargeInHandlers, NEW t \in Threads, Start(t) \/ Step(t)
  PROVE  IInv'
<1>1. TypeOK'
  <2>1. DataOK' /\ FramesOK'
    BY DataKept, FramesKept
  <2>2. /\ holder' \in Threads \cup {NULL} /\ depth' \in Nat
        /\ depth' = 0 <=> holder' = NULL
    BY HeldKept
  <2> QED BY <2>1, <2>2 DEF TypeOK, DataOK, FramesOK
<1>2. ShapeInv'
  <2>1. Shape(me'[t], callers'[t])
    BY ShapeStart, ShapeStep
  <2> QED BY <2>1, Others DEF IInv, ShapeInv
<1>3. Cardinality(Taking') \in Nat /\ Cardinality(Made') \in Nat
  BY <1>1, CountsAfter
<1>4. HeldInv' /\ RoomInv' /\ MemInv'
  BY <1>3, HeldKept, RoomKept, MemKept
<1> QED BY <1>1, <1>2, <1>4 DEF IInv

LEMMA IInvNext == NoLargeInHandlers => (IInv /\ [Next]_vars => IInv')
<1> SUFFICES ASSUME NoLargeInHandlers, IInv, [Next]_vars PROVE IInv'
  OBVIOUS
<1>1. CASE Next
  BY <1>1, IInvStep DEF Next
<1>2. CASE UNCHANGED vars
  BY <1>2 DEF vars, pool, client, IInv, TypeOK, ShapeInv, HeldInv, RoomInv, MemInv, Taking,
              Made, At
<1> QED BY <1>1, <1>2

LEMMA HeldIsCritical ==
  ASSUME IInv
  PROVE  Protected
<1>1. SUFFICES ASSUME NEW t \in Threads, InCritical(t) PROVE holder = t
  BY DEF Protected
<1>2. TypeOK /\ Shape(me[t], callers[t]) /\ callers[t] \in Seq(Frame)
  BY DEF IInv, ShapeInv, TypeOK
<1>3. CASE me[t].pc \in Critical
  <2>1. Held(me[t], callers[t]) > 0
    BY <1>3, HeldValue DEF Crit
  <2> QED BY <2>1 DEF IInv, HeldInv
<1>4. CASE \E k \in DOMAIN callers[t] : callers[t][k].pc \in Critical
  <2>1. PICK k \in DOMAIN callers[t] : callers[t][k].pc \in Critical
    BY <1>4
  <2>2. k \in 1..Len(callers[t]) /\ Len(callers[t]) \in Nat /\ callers[t] # <<>>
    BY <1>2, <2>1, LenProperties
  <2>3. k = 1
    <3>1. CASE Len(callers[t]) = 1
      BY <2>2, <3>1
    <3>2. CASE Len(callers[t]) # 1
      <4>1. FromAdd(callers[t]) /\ FromLarge(Tail(callers[t]))
        BY <1>2, <2>2, <3>2 DEF Shape, FromLarge, FromHandler, FromAdd
      <4>2. /\ Len(Tail(callers[t])) = Len(callers[t]) - 1
            /\ \A i \in 1..Len(Tail(callers[t])) : Tail(callers[t])[i] = callers[t][i + 1]
            /\ Tail(callers[t]) \in Seq(Frame)
        BY <1>2, <2>2, HeadTailProperties
      <4>3. Tail(callers[t]) # <<>>
        <5>1. Len(Tail(callers[t])) # 0
          BY <2>2, <3>2, <4>2
        <5>2. \A c \in Seq(Frame) : Len(c) # 0 => c # <<>>
          OBVIOUS
        <5> QED BY <4>2, <5>1, <5>2
      <4>4. Len(callers[t]) = 2 /\ callers[t][2].pc = "large_unlock"
        BY <2>2, <4>1, <4>2, <4>3 DEF FromLarge
      <4>5. "large_unlock" \notin Critical
        BY DEF Critical
      <4> QED BY <2>1, <2>2, <4>4, <4>5
    <3> QED BY <3>1, <3>2
  <2>4. Crit(callers[t][1].pc) = 1
    BY <2>1, <2>3 DEF Crit
  <2>5. Held(me[t], callers[t]) > 0
    BY <2>2, <2>4, CritValues DEF Held
  <2> QED BY <2>5 DEF IInv, HeldInv
<1> QED BY <1>1, <1>3, <1>4 DEF InCritical

(***************************************************************************)
(* Whoever works on the memory or the lists of the pool holds its mutex    *)
(* and every variable has its type, whatever calls the threads make, as    *)
(* long as no cleanup handler asks for an oversized block: spr_palloc then *)
(* unlocks the mutex of the search that runs the handler.                  *)
(***************************************************************************)
THEOREM PoolProtected == NoLargeInHandlers => (Spec => [](TypeOK /\ Protected))
<1> SUFFICES ASSUME NoLargeInHandlers PROVE Spec => [](TypeOK /\ Protected)
  OBVIOUS
<1>1. Init => IInv
  BY IInvInit
<1>2. IInv /\ [Next]_vars => IInv'
  BY IInvNext
<1>3. IInv => TypeOK /\ Protected
  BY HeldIsCritical DEF IInv
<1> QED BY <1>1, <1>2, <1>3, PTL DEF Spec


-----------------------------------------------------------------------------
(* The cells of the pool.                                                  *)

(* Every cell handed out is in one of four places: the cleanup list S, the *)
(* reserve R, a client's block G, or in flight F between two of them.      *)
Parts(S, R, G, F, top) ==
  /\ S \cup R \cup G \cup F = 1..(top - 1)
  /\ S \cap R = {} /\ S \cap G = {} /\ S \cap F = {}
  /\ R \cap G = {} /\ R \cap F = {} /\ G \cap F = {}

(* The nodes S are for the objects ent, one for each.                      *)
Named(S, dat, ent) ==
  /\ \A c \in S : dat[c] \in ent
  /\ \A d \in ent : \E c \in S : dat[c] = d
  /\ \A b, c \in S : dat[b] = dat[c] => b = c

(* The cleanup list from h has the nodes s[1], ..., s[n], and the reserve  *)
(* from g the nodes r[1], ..., r[m].                                       *)
Intact(h, n, s, g, m, r, nx, dat, G, F, ent, top) ==
  /\ IsList(h, n, s, nx, Cells) /\ IsList(g, m, r, nx, Cells)
  /\ Parts(Elems(n, s), Elems(m, r), G, F, top)
  /\ Named(Elems(n, s), dat, ent)

(* A node and the one before it, if the search has seen that one.          *)
Pos(node, prev, n, s) ==
  node # 0 =>
    \E i \in 1..n : s[i] = node /\ (prev = Unset \/ (i > 1 /\ prev = s[i - 1]))

Looking == {"search_lock", "search", "handler", "unlink"}

(* The position of a search, also of one whose handler is running.         *)
CursorOK(f, c, n, s, dat) ==
  /\ f.pc = "read_head" => f.prev = Unset
  /\ f.pc \in Looking => Pos(f.node, f.prev, n, s)
  /\ f.pc \in {"handler", "unlink"} => dat[f.node] = f.want
  /\ c # <<>> /\ c[1].pc = "unlink" =>
       Pos(c[1].node, c[1].prev, n, s) /\ dat[c[1].node] = c[1].want

(* The cell that a thread moves: what spr_palloc returns, a node that is   *)
(* not yet linked, or one that is not linked any more.                     *)
Fly(f, x) ==
  IF f.pc \in {"palloc_unlock", "add_link", "add_push"} THEN {x}
  ELSE IF f.pc = "reserve" THEN {f.node} ELSE {}

Flight == UNION {Fly(me[t], mem[t]) : t \in Threads}
Given  == UNION {blocks[t] : t \in Threads}

ListInv ==
  ~ wild =>
    \E n, s, m, r :
      /\ Intact(cleanups, n, s, free_cleanups, m, r, next, data, Given, Flight,
                entries, first_avail)
      /\ \A t \in Threads : CursorOK(me[t], callers[t], n, s, data)

LinkedInv ==
  \A t \in Threads :
    At(t, "add_push") => next[mem[t]] = cleanups /\ data[mem[t]] = me[t].want

BlocksInv == \A t, u \in Threads : t # u => blocks[t] \cap blocks[u] = {}

(* The object that a thread is registering.                                *)
Adds(f, c) ==
  IF f.pc \in {"large_add", "add_lock", "add_take", "add_link", "add_push"} THEN {f.want}
  ELSE IF c # <<>> /\ c[1].pc = "add_link" THEN {c[1].want} ELSE {}

AddsOf(t) == Adds(me[t], callers[t])

(* Every object is registered at most once, by one thread.                 *)
FreshInv ==
  /\ fresh \cap entries = {}
  /\ \A t \in Threads : AddsOf(t) \cap (fresh \cup entries) = {}
  /\ \A t, u \in Threads : t # u => AddsOf(t) \cap AddsOf(u) = {}

(* The object that a thread is about to take out of the list.              *)
Takes(f, c) ==
  IF f.pc = "unlink" THEN {f.want}
  ELSE IF c # <<>> /\ c[1].pc = "unlink" THEN {c[1].want} ELSE {}

TakesOf(t) == Takes(me[t], callers[t])

(* An object whose handler has run is not registered again, and is taken   *)
(* out of the list next.                                                   *)
RunsInv ==
  \A d \in Data :
    /\ runs[d] <= 1
    /\ runs[d] = 1 =>
         /\ d \notin fresh /\ \A t \in Threads : d \notin AddsOf(t)
         /\ d \in entries => \E t \in Threads : d \in TakesOf(t)

(* The threads that search the cleanup list.                               *)
Asks(t) == OpsOf[t] \cap {"run", "remove"} # {}

Searches(f, c) == f.pc \in Searching \/ (c # <<>> /\ c[1].pc = "unlink")

SearchInv == \A t \in Threads : Searches(me[t], callers[t]) => Asks(t)

OneSearcher == \A t, u \in Threads : Asks(t) /\ Asks(u) => t = u

CellsInv ==
  /\ IInv /\ ListInv /\ LinkedInv /\ BlocksInv /\ FreshInv /\ RunsInv /\ SearchInv

-----------------------------------------------------------------------------
(* What the changes of the pool do to the places of its cells.             *)

LEMMA IntactTake ==
  ASSUME NEW h, NEW n, NEW s, NEW g, NEW m, NEW r, NEW nx, NEW dat, NEW G, NEW ent, NEW top,
         Intact(h, n, s, g, m, r, nx, dat, G, {}, ent, top), g # 0
  PROVE  Intact(h, n, s, nx[g], m - 1, Dropped(1, m, r), nx, dat, G, {g}, ent, top)
<1>1. /\ IsList(g, m, r, nx, Cells)
      /\ Parts(Elems(n, s), Elems(m, r), G, {}, top)
  BY DEF Intact
<1>2. m \in Nat /\ m # 0 /\ g = r[1]
  BY <1>1 DEF IsList
<1>3. 1 \in 1..m
  BY <1>2
<1>4. g \in Elems(m, r)
  BY <1>2, <1>3 DEF Elems
<1>5. \A x \in Elems(m, r) : nx[x] = IF 1 > 1 /\ x = r[1 - 1] THEN nx[r[1]] ELSE nx[x]
  OBVIOUS
<1>6. nx[g] = IF 1 = 1 THEN nx[r[1]] ELSE g
  BY <1>2
<1>7. /\ IsList(nx[g], m - 1, Dropped(1, m, r), nx, Cells)
      /\ Elems(m - 1, Dropped(1, m, r)) = Elems(m, r) \ {g}
  BY <1>1, <1>2, <1>3, <1>5, <1>6, ListDrop
<1>8. Parts(Elems(n, s), Elems(m, r) \ {g}, G, {g}, top)
  BY <1>1, <1>4 DEF Parts
<1> QED BY <1>7, <1>8 DEF Intact

LEMMA IntactGrow ==
  ASSUME NEW h, NEW n, NEW s, NEW g, NEW m, NEW r, NEW nx, NEW dat, NEW G, NEW ent,
         NEW top \in Nat \ {0}, Intact(h, n, s, g, m, r, nx, dat, G, {}, ent, top)
  PROVE  Intact(h, n, s, g, m, r, nx, dat, G, {top}, ent, top + 1)
<1>1. Parts(Elems(n, s), Elems(m, r), G, {}, top)
  BY DEF Intact
<1>2. 1..((top + 1) - 1) = 1..(top - 1) \cup {top} /\ top \notin 1..(top - 1)
  OBVIOUS
<1>3. Parts(Elems(n, s), Elems(m, r), G, {top}, top + 1)
  BY <1>1, <1>2 DEF Parts
<1> QED BY <1>3 DEF Intact

LEMMA IntactGive ==
  ASSUME NEW h, NEW n, NEW s, NEW g, NEW m, NEW r, NEW nx, NEW dat, NEW G, NEW ent, NEW top,
         NEW x, Intact(h, n, s, g, m, r, nx, dat, G, {x}, ent, top)
  PROVE  Intact(h, n, s, g, m, r, nx, dat, G \cup {x}, {}, ent, top)
BY DEF Intact, Parts

LEMMA IntactLink ==
  ASSUME NEW h, NEW n, NEW s, NEW g, NEW m, NEW r, NEW nx, NEW dat, NEW G, NEW ent, NEW top,
         NEW x, Intact(h, n, s, g, m, r, nx, dat, G, {x}, ent, top),
         NEW nx2, NEW dat2, \A c \in Cells \ {x} : nx2[c] = nx[c] /\ dat2[c] = dat[c]
  PROVE  Intact(h, n, s, g, m, r, nx2, dat2, G, {x}, ent, top)
<1>1. /\ IsList(h, n, s, nx, Cells) /\ IsList(g, m, r, nx, Cells)
      /\ Parts(Elems(n, s), Elems(m, r), G, {x}, top)
      /\ Named(Elems(n, s), dat, ent)
  BY DEF Intact
<1>2. x \notin Elems(n, s) /\ x \notin Elems(m, r)
  BY <1>1 DEF Parts
<1>3. Elems(n, s) \subseteq Cells /\ Elems(m, r) \subseteq Cells
  BY <1>1 DEF IsList, Elems
<1>4. /\ \A c \in Elems(n, s) : nx2[c] = nx[c] /\ dat2[c] = dat[c]
      /\ \A c \in Elems(m, r) : nx2[c] = nx[c]
  BY <1>2, <1>3
<1>5. IsList(h, n, s, nx2, Cells) /\ IsList(g, m, r, nx2, Cells)
  BY <1>1, <1>4, ListFrame
<1>6. Named(Elems(n, s), dat2, ent)
  BY <1>1, <1>4 DEF Named
<1> QED BY <1>1, <1>5, <1>6 DEF Intact

LEMMA IntactPush ==
  ASSUME NEW h, NEW n, NEW s, NEW g, NEW m, NEW r, NEW nx, NEW dat, NEW G, NEW ent, NEW top,
         NEW x \in Cells, Intact(h, n, s, g, m, r, nx, dat, G, {x}, ent, top),
         nx[x] = h, dat[x] \notin ent
  PROVE  Intact(x, n + 1, Pushed(x, n, s), g, m, r, nx, dat, G, {}, ent \cup {dat[x]}, top)
<1>1. /\ IsList(h, n, s, nx, Cells) /\ IsList(g, m, r, nx, Cells)
      /\ Parts(Elems(n, s), Elems(m, r), G, {x}, top)
      /\ Named(Elems(n, s), dat, ent)
  BY DEF Intact
<1>2. x \notin Elems(n, s)
  BY <1>1 DEF Parts
<1>3. /\ IsList(x, n + 1, Pushed(x, n, s), nx, Cells)
      /\ Elems(n + 1, Pushed(x, n, s)) = Elems(n, s) \cup {x}
  BY <1>1, <1>2, ListPush
<1>4. Parts(Elems(n, s) \cup {x}, Elems(m, r), G, {}, top)
  BY <1>1 DEF Parts
<1>5. Named(Elems(n, s) \cup {x}, dat, ent \cup {dat[x]})
  BY <1>1, <1>2 DEF Named
<1> QED BY <1>1, <1>3, <1>4, <1>5 DEF Intact

LEMMA IntactDrop ==
  ASSUME NEW h, NEW n, NEW s, NEW g, NEW m, NEW r, NEW nx, NEW dat, NEW G, NEW ent, NEW top,
         Intact(h, n, s, g, m, r, nx, dat, G, {}, ent, top), DOMAIN nx = Cells,
         NEW k \in 1..n, NEW h2, NEW nx2,
         \/ k = 1 /\ h2 = nx[s[1]] /\ nx2 = nx
         \/ k > 1 /\ h2 = h /\ nx2 = [nx EXCEPT ![s[k - 1]] = nx[s[k]]]
  PROVE  Intact(h2, n - 1, Dropped(k, n, s), g, m, r, nx2, dat, G, {s[k]},
                ent \ {dat[s[k]]}, top)
<1>1. /\ IsList(h, n, s, nx, Cells) /\ IsList(g, m, r, nx, Cells)
      /\ Parts(Elems(n, s), Elems(m, r), G, {}, top)
      /\ Named(Elems(n, s), dat, ent)
  BY DEF Intact
<1>2. /\ n \in Nat /\ s[k] \in Elems(n, s) /\ Elems(n, s) \subseteq Cells
      /\ Elems(m, r) \subseteq Cells
  BY <1>1 DEF IsList, Elems
<1>3. h2 = IF k = 1 THEN nx[s[1]] ELSE h
  BY <1>2
<1>4. k > 1 => k - 1 \in 1..n
  BY <1>2
<1>5. k > 1 => s[k - 1] \in Elems(n, s)
  BY <1>4 DEF Elems
<1>6. \A x \in Elems(n, s) : nx2[x] = IF k > 1 /\ x = s[k - 1] THEN nx[s[k]] ELSE nx[x]
  BY <1>2, <1>5
<1>7. \A x \in Elems(m, r) : nx2[x] = nx[x]
  BY <1>1, <1>2, <1>5 DEF Parts
<1>8. /\ IsList(h2, n - 1, Dropped(k, n, s), nx2, Cells)
      /\ Elems(n - 1, Dropped(k, n, s)) = Elems(n, s) \ {s[k]}
  BY <1>1, <1>3, <1>6, ListDrop
<1>9. IsList(g, m, r, nx2, Cells)
  BY <1>1, <1>7, ListFrame
<1>10. Parts(Elems(n, s) \ {s[k]}, Elems(m, r), G, {s[k]}, top)
  BY <1>1, <1>2 DEF Parts
<1>11. Named(Elems(n, s) \ {s[k]}, dat, ent \ {dat[s[k]]})
  BY <1>1, <1>2 DEF Named
<1> QED BY <1>8, <1>9, <1>10, <1>11 DEF Intact

LEMMA IntactReserve ==
  ASSUME NEW h, NEW n, NEW s, NEW g, NEW m, NEW r, NEW nx, NEW dat, NEW G, NEW ent, NEW top,
         NEW x \in Cells, Intact(h, n, s, g, m, r, nx, dat, G, {x}, ent, top),
         DOMAIN nx = Cells
  PROVE  Intact(h, n, s, x, m + 1, Pushed(x, m, r), [nx EXCEPT ![x] = g], dat, G, {}, ent, top)
<1> DEFINE nx2 == [nx EXCEPT ![x] = g]
<1>1. /\ IsList(h, n, s, nx, Cells) /\ IsList(g, m, r, nx, Cells)
      /\ Parts(Elems(n, s), Elems(m, r), G, {x}, top)
      /\ Named(Elems(n, s), dat, ent)
  BY DEF Intact
<1>2. x \notin Elems(n, s) /\ x \notin Elems(m, r)
  BY <1>1 DEF Parts
<1>3. Elems(n, s) \subseteq Cells /\ Elems(m, r) \subseteq Cells
  BY <1>1 DEF IsList, Elems
<1>4. /\ \A c \in Elems(n, s) : nx2[c] = nx[c]
      /\ \A c \in Elems(m, r) : nx2[c] = nx[c]
      /\ nx2[x] = g
  BY <1>2, <1>3
<1> HIDE DEF nx2
<1>5. IsList(h, n, s, nx2, Cells) /\ IsList(g, m, r, nx2, Cells)
  BY <1>1, <1>4, ListFrame
<1>6. /\ IsList(x, m + 1, Pushed(x, m, r), nx2, Cells)
      /\ Elems(m + 1, Pushed(x, m, r)) = Elems(m, r) \cup {x}
  BY <1>2, <1>4, <1>5, ListPush
<1>7. Parts(Elems(n, s), Elems(m, r) \cup {x}, G, {}, top)
  BY <1>1 DEF Parts
<1> QED BY <1>1, <1>5, <1>6, <1>7 DEF Intact, nx2

-----------------------------------------------------------------------------
(* What the changes of the list do to the position of a search.            *)

LEMMA CursorPush ==
  ASSUME NEW f, NEW c, NEW n \in Nat, NEW s, NEW dat, NEW x, CursorOK(f, c, n, s, dat)
  PROVE  CursorOK(f, c, n + 1, Pushed(x, n, s), dat)
<1> DEFINE v == Pushed(x, n, s)
<1>1. \A i \in 1..n : i + 1 \in 1..(n + 1) /\ v[i + 1] = s[i]
  BY DEF Pushed
<1> HIDE DEF v
<1>2. ASSUME NEW node, NEW prev, Pos(node, prev, n, s) PROVE Pos(node, prev, n + 1, v)
  <2>1. SUFFICES ASSUME node # 0
                 PROVE  \E i \in 1..(n + 1) :
                          v[i] = node /\ (prev = Unset \/ (i > 1 /\ prev = v[i - 1]))
    BY DEF Pos
  <2>2. PICK i \in 1..n : s[i] = node /\ (prev = Unset \/ (i > 1 /\ prev = s[i - 1]))
    BY <1>2, <2>1 DEF Pos
  <2>3. i + 1 \in 1..(n + 1) /\ v[i + 1] = node /\ i + 1 > 1 /\ (i + 1) - 1 = i
    BY <1>1, <2>2
  <2>4. CASE prev = Unset
    BY <2>3, <2>4
  <2>5. CASE i > 1 /\ prev = s[i - 1]
    <3>1. i - 1 \in 1..n /\ (i - 1) + 1 = i
      BY <2>5
    <3>2. v[(i + 1) - 1] = s[i - 1]
      BY <1>1, <2>3, <3>1
    <3> QED BY <2>3, <2>5, <3>2
  <2> QED BY <2>2, <2>4, <2>5
<1> QED BY <1>2 DEF CursorOK, v

LEMMA CursorData ==
  ASSUME NEW f, NEW c, NEW n, NEW s, NEW dat, NEW dat2, CursorOK(f, c, n, s, dat),
         Shape(f, c), \A x \in Elems(n, s) : dat2[x] = dat[x]
  PROVE  CursorOK(f, c, n, s, dat2)
<1>1. 0 \notin Cells
  BY CellsFinite
<1>2. ASSUME NEW node \in Cells, NEW prev, Pos(node, prev, n, s) PROVE dat2[node] = dat[node]
  BY <1>1, <1>2 DEF Pos, Elems
<1>3. f.pc \in {"handler", "unlink"} => dat2[f.node] = f.want
  <2>1. SUFFICES ASSUME f.pc \in {"handler", "unlink"} PROVE dat2[f.node] = f.want
    OBVIOUS
  <2>2. f.node \in Cells /\ Pos(f.node, f.prev, n, s) /\ dat[f.node] = f.want
    BY <2>1 DEF Shape, Adding, Palloc, Searching, CursorOK, Looking
  <2> QED BY <1>2, <2>2
<1>4. c # <<>> /\ c[1].pc = "unlink" => dat2[c[1].node] = c[1].want
  <2>1. SUFFICES ASSUME c # <<>>, c[1].pc = "unlink" PROVE dat2[c[1].node] = c[1].want
    OBVIOUS
  <2>2. FromHandler(c)
    BY <2>1 DEF Shape, FromLarge, FromAdd
  <2>3. c[1].node \in Cells /\ Pos(c[1].node, c[1].prev, n, s) /\ dat[c[1].node] = c[1].want
    BY <2>1, <2>2 DEF FromHandler, Found, CursorOK
  <2> QED BY <1>2, <2>3
<1> QED BY <1>3, <1>4 DEF CursorOK

LEMMA CursorNone ==
  ASSUME NEW f, NEW c, NEW n, NEW s, NEW dat, ~ Searches(f, c)
  PROVE  CursorOK(f, c, n, s, dat)
BY DEF CursorOK, Searches, Searching, Looking

-----------------------------------------------------------------------------
(* What a step does to the thread that takes it.                           *)

(* The parts of a thread's state that the invariant speaks of.             *)
LEMMA ReturnParts ==
  ASSUME IInv, NEW t \in Threads, Return(t),
         me[t].pc \in {"palloc_read", "palloc_unlock", "large_unlock", "add_unlock",
                       "search_unlock", "search"},
         me[t].pc = "palloc_read" /\ callers[t] # <<>> => Head(callers[t]).pc # "add_link"
  PROVE  /\ Adds(me'[t], callers'[t]) = AddsOf(t)
         /\ TakesOf(t) \subseteq Takes(me'[t], callers'[t])
         /\ Searches(me'[t], callers'[t]) => Searches(me[t], callers[t])
         /\ me'[t].pc \in {"idle", "large_unlock", "add_link", "unlink"}
         /\ me'[t].pc = "add_link" <=> callers[t] # <<>> /\ Head(callers[t]).pc = "add_link"
         /\ me'[t].pc = "add_link" => me[t].pc = "palloc_unlock"
         /\ \A n, s, dat : CursorOK(me[t], callers[t], n, s, dat) =>
                             CursorOK(me'[t], callers'[t], n, s, dat)
<1>1. TypeOK /\ callers[t] \in Seq(Frame) /\ Shape(me[t], callers[t])
  BY DEF IInv, TypeOK, ShapeInv
<1>2. CASE callers[t] = <<>>
  <2>1. me'[t].pc = "idle" /\ callers'[t] = <<>>
    BY <1>1, <1>2, FrameReturn, Fields
  <2> QED BY <1>2, <2>1 DEF AddsOf, TakesOf, Adds, Takes, Searches, Searching, CursorOK, Looking
<1>3. CASE callers[t] # <<>>
  <2>1. /\ me'[t] = callers[t][1] /\ callers'[t] = Tail(callers[t])
        /\ Len(callers[t]) = 1 => callers'[t] = <<>>
        /\ Head(callers[t]) = callers[t][1]
    BY <1>1, <1>3, FrameReturn
  <2>2. CASE FromLarge(callers[t])
    <3>1. callers'[t] = <<>> /\ me'[t].pc = "large_unlock" /\ callers[t][1].pc = "large_unlock"
      BY <1>3, <2>1, <2>2 DEF FromLarge
    <3> QED BY <1>3, <2>1, <3>1 DEF AddsOf, TakesOf, Adds, Takes, Searches, Searching, CursorOK,
                                    Looking
  <2>3. CASE FromAdd(callers[t])
    <3>1. me'[t].pc = "add_link" /\ callers[t][1].pc = "add_link" /\ FromLarge(callers'[t])
      BY <2>1, <2>3 DEF FromAdd
    <3>2. me[t].pc = "palloc_unlock"
      BY <1>1, <1>3, <2>1, <3>1 DEF Shape, FromLarge, Adding, Palloc, Searching
    <3>3. callers'[t] = <<>> \/ callers'[t][1].pc = "large_unlock"
      BY <3>1 DEF FromLarge
    <3>4. AddsOf(t) = {callers[t][1].want} /\ Adds(me'[t], callers'[t]) = {me'[t].want}
      BY <1>3, <3>1, <3>2 DEF AddsOf, Adds
    <3> QED BY <1>3, <2>1, <3>1, <3>2, <3>3, <3>4 DEF TakesOf, Takes, Searches, Searching,
                                                      CursorOK, Looking
  <2>4. CASE FromHandler(callers[t])
    <3>1. me'[t].pc = "unlink" /\ callers[t][1].pc = "unlink" /\ callers'[t] = <<>>
      BY <2>1, <2>4 DEF FromHandler
    <3>2. me[t].pc \in {"palloc_read", "palloc_unlock"}
      BY <1>1, <1>3, <3>1 DEF Shape, FromLarge, Adding, Palloc, Searching
    <3> QED BY <1>3, <2>1, <3>1, <3>2 DEF AddsOf, TakesOf, Adds, Takes, Searches, Searching,
                                          CursorOK, Looking
  <2> QED BY <1>1, <1>3, <2>2, <2>3, <2>4 DEF Shape
<1> QED BY <1>2, <1>3

LEMMA StepParts ==
  ASSUME IInv, NoLargeInHandlers, NEW t \in Threads, Step(t)
  PROVE  /\ Searches(me'[t], callers'[t]) => Searches(me[t], callers[t])
         /\ ~ At(t, "add_push") => Adds(me'[t], callers'[t]) = AddsOf(t)
         /\ At(t, "add_push") =>
              AddsOf(t) = {me[t].want} /\ Adds(me'[t], callers'[t]) = {}
         /\ ~ At(t, "unlink") => TakesOf(t) \subseteq Takes(me'[t], callers'[t])
         /\ me[t].pc \notin {"palloc_write", "palloc_unlock", "add_take", "add_push",
                             "unlink", "reserve"} =>
              Fly(me'[t], mem'[t]) = Fly(me[t], mem[t])
<1> DEFINE Good ==
         /\ Searches(me'[t], callers'[t]) => Searches(me[t], callers[t])
         /\ ~ At(t, "add_push") => Adds(me'[t], callers'[t]) = AddsOf(t)
         /\ At(t, "add_push") =>
              AddsOf(t) = {me[t].want} /\ Adds(me'[t], callers'[t]) = {}
         /\ ~ At(t, "unlink") => TakesOf(t) \subseteq Takes(me'[t], callers'[t])
         /\ me[t].pc \notin {"palloc_write", "palloc_unlock", "add_take", "add_push",
                             "unlink", "reserve"} =>
              Fly(me'[t], mem'[t]) = Fly(me[t], mem[t])
<1>1. TypeOK /\ me[t] \in Frame /\ callers[t] \in Seq(Frame) /\ Shape(me[t], callers[t])
  BY DEF IInv, TypeOK, ShapeInv
<1>2. ASSUME palloc_fails(t) \/ palloc_unlock(t) \/ large_unlock(t) \/ add_unlock(t)
             \/ search_unlock(t)
      PROVE  Good
  <2>1. /\ Return(t) /\ mem' = mem
        /\ me[t].pc \in {"palloc_read", "palloc_unlock", "large_unlock", "add_unlock",
                         "search_unlock"}
        /\ me[t].pc = "palloc_read" /\ callers[t] # <<>> => Head(callers[t]).pc # "add_link"
    BY <1>2 DEF palloc_fails, palloc_unlock, large_unlock, add_unlock, search_unlock,
                UnlockStep, At
  <2>2. /\ Adds(me'[t], callers'[t]) = AddsOf(t)
        /\ TakesOf(t) \subseteq Takes(me'[t], callers'[t])
        /\ Searches(me'[t], callers'[t]) => Searches(me[t], callers[t])
        /\ me'[t].pc \in {"idle", "large_unlock", "add_link", "unlink"}
        /\ me'[t].pc = "add_link" => me[t].pc = "palloc_unlock"
    BY <2>1, ReturnParts
  <2> QED BY <2>1, <2>2 DEF At, Fly
<1>3. ASSUME search(t) PROVE Good
  <2>1. me[t].pc = "search" /\ mem' = mem /\ callers[t] = <<>>
    BY <1>1, <1>3 DEF search, At, Shape, Palloc, Adding, Searching
  <2>2. CASE Return(t)
    <3>1. /\ Adds(me'[t], callers'[t]) = AddsOf(t)
          /\ TakesOf(t) \subseteq Takes(me'[t], callers'[t])
          /\ Searches(me'[t], callers'[t]) => Searches(me[t], callers[t])
          /\ me'[t].pc \in {"idle", "large_unlock", "add_link", "unlink"}
          /\ me'[t].pc = "add_link" => me[t].pc = "palloc_unlock"
      BY <2>1, <2>2, ReturnParts
    <3> QED BY <2>1, <3>1 DEF At, Fly
  <2>3. CASE ~ Return(t)
    <3>1. callers' = callers
      BY <1>3, <2>3 DEF search
    <3>2. me'[t].pc \in {"handler", "unlink", "search"}
      <4>1. CASE Goto(t, IF me[t].run THEN "handler" ELSE "unlink")
        BY <1>1, <4>1 DEF Goto, TypeOK, Frame
      <4>2. CASE me' = [me EXCEPT ![t].prev = me[t].node, ![t].node = next[me[t].node]]
        BY <1>1, <2>1, <4>2 DEF TypeOK, Frame
      <4> QED BY <1>3, <2>3, <4>1, <4>2 DEF search
    <3> QED BY <2>1, <3>1, <3>2 DEF At, AddsOf, TakesOf, Adds, Takes, Searches, Searching, Fly
  <2> QED BY <2>2, <2>3
<1>4. ASSUME palloc_lock(t) \/ palloc_read(t) \/ palloc_write(t) PROVE Good
  <2>1. /\ me[t].pc \in {"palloc_lock", "palloc_read", "palloc_write"}
    BY <1>4 DEF palloc_lock, palloc_read, palloc_write, LockStep, At
  <2>2. PICK pc \in {"palloc_read", "palloc_write", "palloc_unlock"} :
            Goto(t, pc) /\ callers' = callers
            /\ (me[t].pc # "palloc_write" => pc # "palloc_unlock")
    BY <1>4 DEF palloc_lock, palloc_read, palloc_write, LockStep, At
  <2>3. me'[t].pc = pc /\ callers'[t] = callers[t] /\ pc \in Pcs
    BY <1>1, <2>2, FrameGoto DEF Pcs
  <2> QED BY <2>1, <2>2, <2>3 DEF At, AddsOf, TakesOf, Adds, Takes, Searches, Searching, Fly
<1>5. ASSUME large_add(t) PROVE Good
  <2>1. me[t].pc = "large_add" /\ callers[t] = <<>> /\ me[t].want \in Data
    BY <1>1, <1>5 DEF large_add, At, Shape, Palloc, Adding, Searching
  <2>2. Call(t, "large_unlock", Procedure("add_lock", me[t].want, FALSE))
    BY <1>5 DEF large_add
  <2>3. "large_unlock" \in Pcs /\ "add_lock" \in Pcs
    BY DEF Pcs
  <2>4. /\ me'[t].pc = "add_lock" /\ me'[t].want = me[t].want
        /\ callers'[t][1].pc = "large_unlock"
    BY <1>1, <2>2, <2>3, FrameCall DEF Procedure
  <2> QED BY <2>1, <2>4 DEF At, AddsOf, TakesOf, Adds, Takes, Searches, Searching, Fly
<1>6. ASSUME add_lock(t) \/ add_link(t) PROVE Good
  <2>1. /\ me[t].pc \in {"add_lock", "add_link"} /\ mem' = mem
    BY <1>6 DEF add_lock, add_link, LockStep, At
  <2>2. PICK pc \in {"add_take", "add_push"} :
            Goto(t, pc) /\ callers' = callers /\ (me[t].pc = "add_lock" <=> pc = "add_take")
    BY <1>6 DEF add_lock, add_link, LockStep, At
  <2>3. me'[t].pc = pc /\ callers'[t] = callers[t] /\ me'[t].want = me[t].want
    BY <1>1, <2>2, FrameGoto DEF Pcs
  <2> QED BY <2>1, <2>2, <2>3 DEF At, AddsOf, TakesOf, Adds, Takes, Searches, Searching, Fly
<1>7. ASSUME add_push(t) PROVE Good
  <2>1. me[t].pc = "add_push" /\ FromLarge(callers[t])
    BY <1>1, <1>7 DEF add_push, At, Shape, Palloc, Adding, Searching
  <2>2. Goto(t, "add_unlock") /\ callers' = callers /\ "add_unlock" \in Pcs
    BY <1>7 DEF add_push, Pcs
  <2>3. me'[t].pc = "add_unlock" /\ callers'[t] = callers[t]
    BY <1>1, <2>2, FrameGoto
  <2>4. callers[t] = <<>> \/ callers[t][1].pc = "large_unlock"
    BY <2>1 DEF FromLarge
  <2> QED BY <2>1, <2>3, <2>4 DEF At, AddsOf, TakesOf, Adds, Takes, Searches, Searching, Fly
<1>8. ASSUME add_take(t) PROVE Good
  <2>1. me[t].pc = "add_take" /\ FromLarge(callers[t])
    BY <1>1, <1>8 DEF add_take, At, Shape, Palloc, Adding, Searching
  <2>2. "add_link" \in Pcs /\ "palloc_lock" \in Pcs
    BY DEF Pcs
  <2>3. callers[t] = <<>> \/ callers[t][1].pc = "large_unlock"
    BY <2>1 DEF FromLarge
  <2>4. CASE Goto(t, "add_link") /\ callers' = callers
    <3>1. me'[t].pc = "add_link" /\ me'[t].want = me[t].want /\ callers'[t] = callers[t]
      BY <1>1, <2>2, <2>4, FrameGoto
    <3> QED BY <2>1, <2>3, <3>1 DEF At, AddsOf, TakesOf, Adds, Takes, Searches, Searching
  <2>5. CASE Call(t, "add_link", Procedure("palloc_lock", None, FALSE))
    <3>1. /\ me'[t].pc = "palloc_lock" /\ callers'[t] # <<>>
          /\ callers'[t][1].pc = "add_link" /\ callers'[t][1].want = me[t].want
      BY <1>1, <2>2, <2>5, FrameCall DEF Procedure
    <3> QED BY <2>1, <2>3, <3>1 DEF At, AddsOf, TakesOf, Adds, Takes, Searches, Searching
  <2> QED BY <1>8, <2>4, <2>5 DEF add_take
<1>9. ASSUME read_head(t) \/ search_lock(t) \/ unlink(t) \/ reserve(t) PROVE Good
  <2>1. /\ me[t].pc \in {"read_head", "search_lock", "unlink", "reserve"}
        /\ callers[t] = <<>> /\ callers' = callers /\ mem' = mem
    BY <1>1, <1>9 DEF read_head, search_lock, unlink, reserve, LockStep, At, Shape, Palloc, Adding,
                      Searching
  <2>2. /\ me'[t].pc \in {"search_lock", "search", "reserve", "search_unlock"}
        /\ me'[t].pc = "reserve" => me[t].pc = "unlink"
    <3>1. CASE read_head(t)
      BY <1>1, <3>1 DEF read_head, TypeOK, Frame
    <3>2. CASE search_lock(t) \/ unlink(t) \/ reserve(t)
      <4>1. \/ Goto(t, "search") \/ Goto(t, "search_unlock")
            \/ Goto(t, "reserve") /\ me[t].pc = "unlink"
        BY <3>2 DEF search_lock, unlink, reserve, LockStep, At
      <4> QED BY <1>1, <4>1 DEF Goto, TypeOK, Frame
    <3> QED BY <1>9, <3>1, <3>2
  <2> QED BY <2>1, <2>2 DEF At, AddsOf, TakesOf, Adds, Takes, Searches, Searching, Fly
<1>10. ASSUME handler(t) PROVE Good
  <2>1. me[t].pc = "handler" /\ callers[t] = <<>> /\ mem' = mem
    BY <1>1, <1>10 DEF handler, At, Shape, Palloc, Adding, Searching
  <2>2. "unlink" \in Pcs /\ "palloc_lock" \in Pcs
    BY DEF Pcs
  <2>3. CASE Goto(t, "unlink") /\ callers' = callers
    <3>1. me'[t].pc = "unlink" /\ callers'[t] = callers[t]
      BY <1>1, <2>2, <2>3, FrameGoto
    <3> QED BY <2>1, <3>1 DEF At, AddsOf, TakesOf, Adds, Takes, Searches, Searching, Fly
  <2>4. CASE Call(t, "unlink", Procedure("palloc_lock", None, FALSE))
    <3>1. /\ me'[t].pc = "palloc_lock" /\ callers'[t] # <<>>
          /\ callers'[t][1].pc = "unlink"
      BY <1>1, <2>2, <2>4, FrameCall DEF Procedure
    <3> QED BY <2>1, <3>1 DEF At, AddsOf, TakesOf, Adds, Takes, Searches, Searching, Fly
  <2> QED BY <1>10, <2>3, <2>4 DEF handler, NoLargeInHandlers
<1> HIDE DEF Good
<1>11. Good
  BY <1>2, <1>3, <1>4, <1>5, <1>6, <1>7, <1>8, <1>9, <1>10 DEF Step
<1> QED BY <1>11 DEF Good

LEMMA StartParts ==
  ASSUME IInv, NEW t \in Threads, Start(t)
  PROVE  /\ AddsOf(t) = {} /\ TakesOf(t) = {}
         /\ \/ Adds(me'[t], callers'[t]) = {} /\ fresh' = fresh
            \/ \E d \in fresh : Adds(me'[t], callers'[t]) = {d} /\ fresh' = fresh \ {d}
         /\ Searches(me'[t], callers'[t]) => Asks(t)
         /\ Fly(me'[t], mem'[t]) = Fly(me[t], mem[t])
         /\ \A n, s, dat : CursorOK(me'[t], callers'[t], n, s, dat)
<1>1. /\ me[t].pc = "idle" /\ callers[t] = <<>> /\ callers' = callers /\ mem' = mem
      /\ me \in [Threads -> Frame]
  BY DEF Start, At, IInv, TypeOK, ShapeInv, Shape, Adding, Palloc, Searching
<1>2. AddsOf(t) = {} /\ TakesOf(t) = {}
  BY <1>1 DEF AddsOf, TakesOf, Adds, Takes
<1>3. CASE fresh' = fresh /\ me'[t].pc \in {"palloc_lock", "large_unlock"}
  BY <1>1, <1>2, <1>3 DEF Adds, Searches, Searching, Fly, CursorOK, Looking
<1>4. CASE \E d \in fresh : /\ me'[t].pc \in {"large_add", "add_lock"} /\ me'[t].want = d
                            /\ fresh' = fresh \ {d}
  BY <1>1, <1>2, <1>4 DEF Adds, Searches, Searching, Fly, CursorOK, Looking
<1>5. CASE fresh' = fresh /\ me'[t].pc = "read_head" /\ me'[t].prev = Unset /\ Asks(t)
  BY <1>1, <1>2, <1>5 DEF Adds, Searches, Searching, Fly, CursorOK, Looking
<1> QED BY <1>1, <1>3, <1>4, <1>5 DEF Start, Procedure, Asks

(* A thread between lock and unlock is the only one.                       *)
LEMMA Alone ==
  ASSUME IInv, NEW t \in Threads, me[t].pc \in Critical, NEW u \in Threads \ {t}
  PROVE  /\ me[u].pc \notin Critical
         /\ callers[u] # <<>> => callers[u][1].pc \notin Critical
<1>1. holder = t
  <2>1. Held(me[t], callers[t]) > 0
    BY HeldValue DEF Crit
  <2> QED BY <2>1 DEF IInv, HeldInv
<1>2. ~ (Held(me[u], callers[u]) > 0)
  BY <1>1 DEF IInv, HeldInv
<1> QED BY <1>2, CritValues DEF Held, Crit

LEMMA FlightStep ==
  ASSUME IInv, NEW t \in Threads, Start(t) \/ Step(t)
  PROVE  /\ me[t].pc \in Critical =>
              Flight = Fly(me[t], mem[t]) /\ Flight' = Fly(me'[t], mem'[t])
         /\ Fly(me'[t], mem'[t]) = Fly(me[t], mem[t]) => Flight' = Flight
<1>1. \A u \in Threads \ {t} : Fly(me'[u], mem'[u]) = Fly(me[u], mem[u])
  BY Others DEF IInv
<1>2. ASSUME me[t].pc \in Critical, NEW u \in Threads \ {t} PROVE Fly(me[u], mem[u]) = {}
  <2>1. me[u].pc \notin Critical
    BY <1>2, Alone
  <2> QED BY <2>1 DEF Fly, Critical
<1>3. ASSUME me[t].pc \in Critical
      PROVE  Flight = Fly(me[t], mem[t]) /\ Flight' = Fly(me'[t], mem'[t])
  <2>1. \A u \in Threads \ {t} : Fly(me[u], mem[u]) = {} /\ Fly(me'[u], mem'[u]) = {}
    BY <1>1, <1>2, <1>3
  <2>2. Flight = Fly(me[t], mem[t])
    BY <2>1 DEF Flight
  <2>3. Flight' = Fly(me'[t], mem'[t])
    BY <2>1 DEF Flight
  <2> QED BY <2>2, <2>3
<1>4. ASSUME Fly(me'[t], mem'[t]) = Fly(me[t], mem[t]) PROVE Flight' = Flight
  <2>1. \A u \in Threads : Fly(me'[u], mem'[u]) = Fly(me[u], mem[u])
    BY <1>1, <1>4
  <2> QED BY <2>1 DEF Flight
<1> QED BY <1>3, <1>4

LEMMA StepObjects ==
  ASSUME IInv, NoLargeInHandlers, NEW t \in Threads, Step(t)
  PROVE  /\ fresh' = fresh
         /\ At(t, "add_push") => entries' = entries \cup {me[t].want}
         /\ At(t, "unlink") => entries' = entries \ {me[t].want}
         /\ ~ At(t, "add_push") /\ ~ At(t, "unlink") => entries' = entries
         /\ At(t, "handler") => runs' = [runs EXCEPT ![me[t].want] = @ + 1]
         /\ ~ At(t, "handler") => runs' = runs
<1>1. CASE palloc_lock(t) \/ palloc_read(t) \/ palloc_fails(t) \/ palloc_write(t)
           \/ palloc_unlock(t)
  BY <1>1 DEF palloc_lock, palloc_read, palloc_fails, palloc_write, palloc_unlock,
              LockStep, UnlockStep, client, At
<1>2. CASE large_add(t) \/ large_unlock(t) \/ add_lock(t) \/ add_take(t) \/ add_link(t)
  BY <1>2 DEF large_add, large_unlock, add_lock, add_take, add_link, LockStep, UnlockStep,
              client, At
<1>3. CASE add_push(t) \/ unlink(t) \/ handler(t)
  BY <1>3 DEF add_push, unlink, handler, At, NoLargeInHandlers
<1>4. CASE add_unlock(t) \/ read_head(t) \/ search_lock(t)
  BY <1>4 DEF add_unlock, read_head, search_lock, LockStep, UnlockStep, client, At
<1>5. CASE search(t) \/ reserve(t) \/ search_unlock(t)
  BY <1>5 DEF search, reserve, search_unlock, UnlockStep, client, At
<1> QED BY <1>1, <1>2, <1>3, <1>4, <1>5 DEF Step

LEMMA SearchKept ==
  ASSUME IInv, SearchInv, NoLargeInHandlers, NEW t \in Threads, Start(t) \/ Step(t)
  PROVE  SearchInv'
<1>1. Searches(me'[t], callers'[t]) => Asks(t)
  BY StartParts, StepParts DEF SearchInv
<1>2. \A u \in Threads \ {t} : me'[u] = me[u] /\ callers'[u] = callers[u]
  BY Others DEF IInv
<1> QED BY <1>1, <1>2 DEF SearchInv

LEMMA FreshKept ==
  ASSUME IInv, FreshInv, NoLargeInHandlers, NEW t \in Threads, Start(t) \/ Step(t)
  PROVE  FreshInv'
<1>1. \A u \in Threads \ {t} : AddsOf(u)' = AddsOf(u)
  BY Others DEF IInv, AddsOf
<1>2. AddsOf(t)' = Adds(me'[t], callers'[t])
  BY DEF AddsOf
<1>3. CASE Start(t)
  <2>1. entries' = entries
    BY <1>3 DEF Start
  <2>2. \/ AddsOf(t)' = {} /\ fresh' = fresh
        \/ \E d \in fresh : AddsOf(t)' = {d} /\ fresh' = fresh \ {d}
    BY <1>2, <1>3, StartParts
  <2>3. AddsOf(t)' \subseteq fresh /\ fresh' = fresh \ AddsOf(t)'
    BY <2>2
  <2>4. \A u \in Threads : AddsOf(u) \cap (fresh \cup entries) = {}
    BY DEF FreshInv
  <2>5. fresh' \cap entries' = {}
    BY <2>1, <2>3 DEF FreshInv
  <2>6. \A u \in Threads : AddsOf(u)' \cap (fresh' \cup entries') = {}
    BY <1>1, <2>1, <2>3, <2>4 DEF FreshInv
  <2>7. \A u, v \in Threads : u # v => AddsOf(u)' \cap AddsOf(v)' = {}
    BY <1>1, <2>3, <2>4 DEF FreshInv
  <2> QED BY <2>5, <2>6, <2>7 DEF FreshInv
<1>4. CASE Step(t)
  <2>1. fresh' = fresh
    BY <1>4, StepObjects
  <2>2. /\ AddsOf(t)' \subseteq AddsOf(t)
        /\ entries' \cap (fresh \cup AddsOf(t)') = {}
        /\ \A u \in Threads \ {t} : entries' \cap AddsOf(u) = {}
    <3>1. CASE At(t, "add_push")
      <4>1. AddsOf(t) = {me[t].want} /\ AddsOf(t)' = {} /\ entries' = entries \cup {me[t].want}
        BY <1>2, <1>4, <3>1, StepParts, StepObjects
      <4> QED BY <4>1 DEF FreshInv
    <3>2. CASE ~ At(t, "add_push")
      <4>1. AddsOf(t)' = AddsOf(t) /\ entries' \subseteq entries
        BY <1>2, <1>4, <3>2, StepParts, StepObjects
      <4> QED BY <4>1 DEF FreshInv
    <3> QED BY <3>1, <3>2
  <2>3. \A u \in Threads : AddsOf(u)' \cap (fresh' \cup entries') = {}
    BY <1>1, <2>1, <2>2 DEF FreshInv
  <2>4. \A u, v \in Threads : u # v => AddsOf(u)' \cap AddsOf(v)' = {}
    BY <1>1, <2>2 DEF FreshInv
  <2> QED BY <2>1, <2>2, <2>3, <2>4 DEF FreshInv
<1> QED BY <1>3, <1>4

LEMMA RunsKept ==
  ASSUME IInv, ListInv, FreshInv, RunsInv, SearchInv, NoLargeInHandlers, OneSearcher,
         NEW t \in Threads, Start(t) \/ Step(t)
  PROVE  RunsInv'
<1> SUFFICES ASSUME NEW d \in Data
             PROVE  /\ runs'[d] <= 1
                    /\ runs'[d] = 1 =>
                         /\ d \notin fresh' /\ \A u \in Threads : d \notin AddsOf(u)'
                         /\ d \in entries' => \E u \in Threads : d \in TakesOf(u)'
  BY DEF RunsInv
<1>1. \A u \in Threads \ {t} : AddsOf(u)' = AddsOf(u) /\ TakesOf(u)' = TakesOf(u)
  BY Others DEF IInv, AddsOf, TakesOf
<1>2. AddsOf(t)' = Adds(me'[t], callers'[t]) /\ TakesOf(t)' = Takes(me'[t], callers'[t])
  BY DEF AddsOf, TakesOf
<1>3. /\ runs[d] <= 1
      /\ runs[d] = 1 =>
           /\ d \notin fresh /\ \A u \in Threads : d \notin AddsOf(u)
           /\ d \in entries => \E u \in Threads : d \in TakesOf(u)
  BY DEF RunsInv
<1>4. CASE Start(t)
  <2>1. runs' = runs /\ entries' = entries
    BY <1>4 DEF Start
  <2>2. AddsOf(t)' \subseteq fresh /\ fresh' \subseteq fresh /\ TakesOf(t) = {}
    BY <1>2, <1>4, StartParts
  <2> QED BY <1>1, <1>3, <2>1, <2>2
<1>5. CASE Step(t)
  <2>0. TypeOK /\ Shape(me[t], callers[t]) /\ runs \in [Data -> Nat]
    BY DEF IInv, ShapeInv, TypeOK
  <2>1. fresh' = fresh
    BY <1>5, StepObjects
  <2>2. CASE At(t, "handler")
    <3>1. /\ runs' = [runs EXCEPT ![me[t].want] = @ + 1] /\ entries' = entries
          /\ AddsOf(t)' = AddsOf(t)
      BY <1>2, <1>5, <2>2, StepObjects, StepParts DEF At
    <3>2. TakesOf(t) = {} /\ me[t].want \in Data /\ me[t].node \in Cells /\ callers[t] = <<>>
      BY <2>0, <2>2 DEF At, TakesOf, Takes, Shape, Palloc, Adding, Searching
    <3>3. TakesOf(t)' = {me[t].want}
      <4>1. handler(t)
        BY <1>5, <2>2 DEF Step, At, palloc_lock, palloc_read, palloc_fails, palloc_write,
                          palloc_unlock, large_add,
             large_unlock, add_lock, add_take, add_link, add_push, add_unlock, read_head,
             search_lock, search, unlink, reserve, search_unlock, LockStep, UnlockStep
      <4>2. "unlink" \in Pcs /\ "palloc_lock" \in Pcs
        BY DEF Pcs
      <4>3. CASE Goto(t, "unlink") /\ callers' = callers
        <5>1. me'[t].pc = "unlink" /\ me'[t].want = me[t].want
          BY <2>0, <4>2, <4>3, FrameGoto
        <5> QED BY <1>2, <5>1 DEF Takes
      <4>4. CASE Call(t, "unlink", Procedure("palloc_lock", None, FALSE))
        <5>1. /\ me'[t].pc = "palloc_lock" /\ callers'[t] # <<>>
              /\ callers'[t][1].pc = "unlink" /\ callers'[t][1].want = me[t].want
          BY <2>0, <4>2, <4>4, FrameCall DEF Procedure
        <5> QED BY <1>2, <5>1 DEF Takes
      <4> QED BY <4>1, <4>3, <4>4 DEF handler, NoLargeInHandlers
    <3>4. me[t].want \in entries
      <4>1. ~ wild
        BY <1>5 DEF Step
      <4>2. PICK n, s, m, r :
              /\ Intact(cleanups, n, s, free_cleanups, m, r, next, data, Given, Flight,
                        entries, first_avail)
              /\ \A u \in Threads : CursorOK(me[u], callers[u], n, s, data)
        BY <4>1 DEF ListInv
      <4>3. Pos(me[t].node, me[t].prev, n, s) /\ data[me[t].node] = me[t].want
        BY <2>2, <4>2 DEF CursorOK, At, Looking
      <4>4. me[t].node \in Elems(n, s)
        BY <3>2, <4>3, CellsFinite DEF Pos, Elems
      <4> QED BY <4>2, <4>3, <4>4 DEF Intact, Named
    <3>5. \A u \in Threads \ {t} : TakesOf(u) = {}
      <4>1. SUFFICES ASSUME NEW u \in Threads \ {t} PROVE TakesOf(u) = {}
        OBVIOUS
      <4>2. Asks(t)
        BY <2>2 DEF SearchInv, Searches, Searching, At
      <4>3. ~ Searches(me[u], callers[u])
        BY <4>2 DEF SearchInv, OneSearcher
      <4> QED BY <4>3 DEF Searches, Searching, TakesOf, Takes
    <3>6. CASE d = me[t].want
      <4>1. runs[d] # 1
        BY <1>3, <3>2, <3>4, <3>5, <3>6
      <4>2. runs'[d] = 1
        BY <1>3, <2>0, <3>1, <3>6, <4>1
      <4>3. d \notin fresh /\ \A u \in Threads : d \notin AddsOf(u)
        BY <3>4, <3>6 DEF FreshInv
      <4> QED BY <1>1, <2>1, <3>1, <3>3, <3>6, <4>2, <4>3
    <3>7. CASE d # me[t].want
      <4>1. runs'[d] = runs[d]
        BY <2>0, <3>1, <3>7
      <4> QED BY <1>1, <1>3, <2>1, <3>1, <3>2, <4>1
    <3> QED BY <3>6, <3>7
  <2>3. CASE ~ At(t, "handler")
    <3>1. runs' = runs
      BY <1>5, <2>3, StepObjects
    <3>2. CASE At(t, "unlink")
      <4>1. /\ entries' = entries \ {me[t].want} /\ AddsOf(t)' = AddsOf(t)
            /\ TakesOf(t) = {me[t].want}
        BY <1>2, <1>5, <3>2, StepObjects, StepParts DEF At, TakesOf, Takes
      <4> QED BY <1>1, <1>3, <2>1, <3>1, <4>1
    <3>3. CASE At(t, "add_push")
      <4>1. /\ entries' = entries \cup {me[t].want} /\ AddsOf(t) = {me[t].want}
            /\ AddsOf(t)' = {} /\ TakesOf(t) \subseteq TakesOf(t)'
        BY <1>2, <1>5, <3>3, StepObjects, StepParts DEF At
      <4> QED BY <1>1, <1>3, <2>1, <3>1, <4>1
    <3>4. CASE ~ At(t, "unlink") /\ ~ At(t, "add_push")
      <4>1. /\ entries' = entries /\ AddsOf(t)' = AddsOf(t) /\ TakesOf(t) \subseteq TakesOf(t)'
        BY <1>2, <1>5, <3>4, StepObjects, StepParts
      <4> QED BY <1>1, <1>3, <2>1, <3>1, <4>1
    <3> QED BY <3>2, <3>3, <3>4
  <2> QED BY <2>2, <2>3
<1> QED BY <1>4, <1>5

LEMMA AddsDoNotSearch ==
  ASSUME NEW f, NEW c, Shape(f, c), f.pc \in Adding \cup {"idle", "large_add", "large_unlock"}
  PROVE  ~ Searches(f, c)
BY DEF Shape, Adding, Palloc, Searching, Searches, FromLarge

(* A step of a search, or one that leaves the list alone, keeps the        *)
(* position of the search right.                                           *)
LEMMA CursorStep ==
  ASSUME IInv, NoLargeInHandlers, NEW t \in Threads, Step(t), me[t].pc # "unlink",
         NEW n, NEW s, IsList(cleanups, n, s, next, Cells),
         CursorOK(me[t], callers[t], n, s, data)
  PROVE  CursorOK(me'[t], callers'[t], n, s, data)
<1> DEFINE Good == CursorOK(me'[t], callers'[t], n, s, data)
<1>1. /\ TypeOK /\ me[t] \in Frame /\ callers[t] \in Seq(Frame) /\ Shape(me[t], callers[t])
      /\ me \in [Threads -> Frame]
  BY DEF IInv, TypeOK, ShapeInv
<1>2. ASSUME palloc_fails(t) \/ palloc_unlock(t) \/ large_unlock(t) \/ add_unlock(t)
             \/ search_unlock(t)
      PROVE  Good
  <2>1. /\ Return(t)
        /\ me[t].pc \in {"palloc_read", "palloc_unlock", "large_unlock", "add_unlock",
                         "search_unlock"}
        /\ me[t].pc = "palloc_read" /\ callers[t] # <<>> => Head(callers[t]).pc # "add_link"
    BY <1>2 DEF palloc_fails, palloc_unlock, large_unlock, add_unlock, search_unlock,
                UnlockStep, At
  <2> QED BY <2>1, ReturnParts
<1>3. ASSUME palloc_lock(t) \/ palloc_read(t) \/ palloc_write(t) PROVE Good
  <2>1. PICK pc \in {"palloc_read", "palloc_write", "palloc_unlock"} :
            Goto(t, pc) /\ callers' = callers
    BY <1>3 DEF palloc_lock, palloc_read, palloc_write, LockStep
  <2>2. me'[t].pc = pc /\ callers'[t] = callers[t]
    BY <1>1, <2>1, FrameGoto DEF Pcs
  <2> QED BY <2>1, <2>2 DEF CursorOK, Looking
<1>4. ASSUME large_add(t) \/ add_lock(t) \/ add_take(t) \/ add_link(t) \/ add_push(t)
      PROVE  Good
  <2>1. me[t].pc \in Adding \cup {"idle", "large_add", "large_unlock"}
    BY <1>4 DEF large_add, add_lock, add_take, add_link, add_push, LockStep, At, Adding
  <2>2. ~ Searches(me'[t], callers'[t])
    BY <1>1, <2>1, AddsDoNotSearch, StepParts
  <2> QED BY <2>2, CursorNone
<1>5. ASSUME read_head(t) PROVE Good
  <2>1. /\ me[t].pc = "read_head" /\ callers[t] = <<>> /\ callers' = callers
        /\ me[t].prev = Unset
    BY <1>1, <1>5 DEF read_head, At, Shape, Palloc, Adding, Searching, CursorOK
  <2>2. me'[t].pc = "search_lock" /\ me'[t].node = cleanups /\ me'[t].prev = Unset
    BY <1>1, <1>5, <2>1 DEF read_head, Frame
  <2>3. Pos(cleanups, Unset, n, s)
    <3>1. SUFFICES ASSUME cleanups # 0 PROVE \E i \in 1..n : s[i] = cleanups
      BY DEF Pos
    <3>2. n \in Nat /\ n # 0 /\ cleanups = s[1]
      BY <3>1 DEF IsList
    <3>3. 1 \in 1..n
      BY <3>2
    <3> QED BY <3>2, <3>3
  <2> QED BY <2>1, <2>2, <2>3 DEF CursorOK
<1>6. ASSUME search_lock(t) PROVE Good
  <2>1. me[t].pc = "search_lock" /\ callers[t] = <<>> /\ callers' = callers /\ Goto(t, "search")
    BY <1>1, <1>6 DEF search_lock, LockStep, At, Shape, Palloc, Adding, Searching
  <2>2. /\ me'[t].pc = "search" /\ me'[t].node = me[t].node /\ me'[t].prev = me[t].prev
    BY <1>1, <2>1, FrameGoto DEF Pcs
  <2> QED BY <2>1, <2>2 DEF CursorOK, Looking
<1>7. ASSUME search(t) PROVE Good
  <2>1. me[t].pc = "search" /\ callers[t] = <<>>
    BY <1>1, <1>7 DEF search, At, Shape, Palloc, Adding, Searching
  <2>2. Pos(me[t].node, me[t].prev, n, s)
    BY <2>1 DEF CursorOK, Looking
  <2>3. CASE Return(t)
    BY <2>1, <2>3, ReturnParts
  <2>4. CASE /\ me[t].node # 0 /\ data[me[t].node] = me[t].want /\ callers' = callers
             /\ Goto(t, IF me[t].run THEN "handler" ELSE "unlink")
    <3>1. PICK pc \in {"handler", "unlink"} : Goto(t, pc)
      BY <2>4
    <3>2. /\ me'[t].pc = pc /\ me'[t].node = me[t].node /\ me'[t].prev = me[t].prev
          /\ me'[t].want = me[t].want
      BY <1>1, <2>4, <3>1, FrameGoto DEF Pcs
    <3> QED BY <2>1, <2>2, <2>4, <3>1, <3>2 DEF CursorOK, Looking
  <2>5. CASE /\ me[t].node # 0 /\ callers' = callers
             /\ me' = [me EXCEPT ![t].prev = me[t].node, ![t].node = next[me[t].node]]
    <3>1. /\ me'[t].pc = "search" /\ me'[t].node = next[me[t].node]
          /\ me'[t].prev = me[t].node
      BY <1>1, <2>1, <2>5 DEF Frame
    <3>2. Pos(next[me[t].node], me[t].node, n, s)
      <4>1. PICK i \in 1..n : s[i] = me[t].node
        BY <2>2, <2>5 DEF Pos
      <4>2. /\ n \in Nat /\ next[s[i]] = IF i = n THEN 0 ELSE s[i + 1]
        BY DEF IsList
      <4>3. CASE i = n
        BY <4>1, <4>2, <4>3 DEF Pos
      <4>4. CASE i # n
        <5>1. i + 1 \in 1..n /\ i + 1 > 1 /\ (i + 1) - 1 = i
          BY <4>2, <4>4
        <5>2. s[(i + 1) - 1] = me[t].node
          BY <4>1, <5>1
        <5> QED BY <4>1, <4>2, <4>4, <5>1, <5>2 DEF Pos
      <4> QED BY <4>3, <4>4
    <3> QED BY <2>1, <2>5, <3>1, <3>2 DEF CursorOK
  <2> QED BY <1>7, <2>3, <2>4, <2>5 DEF search
<1>8. ASSUME handler(t) PROVE Good
  <2>1. /\ me[t].pc = "handler" /\ callers[t] = <<>>
        /\ Pos(me[t].node, me[t].prev, n, s) /\ data[me[t].node] = me[t].want
    BY <1>1, <1>8 DEF handler, At, Shape, Palloc, Adding, Searching, CursorOK, Looking
  <2>2. "unlink" \in Pcs /\ "palloc_lock" \in Pcs
    BY DEF Pcs
  <2>3. CASE Goto(t, "unlink") /\ callers' = callers
    <3>1. /\ me'[t].pc = "unlink" /\ callers'[t] = callers[t] /\ me'[t].want = me[t].want
          /\ me'[t].node = me[t].node /\ me'[t].prev = me[t].prev
      BY <1>1, <2>2, <2>3, FrameGoto
    <3> QED BY <2>1, <3>1 DEF CursorOK
  <2>4. CASE Call(t, "unlink", Procedure("palloc_lock", None, FALSE))
    <3>1. /\ me'[t].pc = "palloc_lock" /\ callers'[t][1].want = me[t].want
          /\ callers'[t][1].node = me[t].node /\ callers'[t][1].prev = me[t].prev
      BY <1>1, <2>2, <2>4, FrameCall DEF Procedure
    <3> QED BY <2>1, <3>1 DEF CursorOK, Looking
  <2> QED BY <1>8, <2>3, <2>4 DEF handler, NoLargeInHandlers
<1>9. ASSUME reserve(t) PROVE Good
  <2>1. me[t].pc = "reserve" /\ callers[t] = <<>> /\ callers' = callers /\ Goto(t, "search_unlock")
    BY <1>1, <1>9 DEF reserve, At, Shape, Palloc, Adding, Searching
  <2>2. me'[t].pc = "search_unlock"
    BY <1>1, <2>1, FrameGoto DEF Pcs
  <2> QED BY <2>1, <2>2 DEF CursorOK, Looking
<1>10. ~ unlink(t)
  BY DEF unlink, At
<1> QED BY <1>2, <1>3, <1>4, <1>5, <1>6, <1>7, <1>8, <1>9, <1>10 DEF Step

(* Only a step between lock and unlock changes the pool.                   *)
LEMMA PoolOutside ==
  ASSUME NEW t \in Threads, Start(t) \/ Step(t),
         me[t].pc \notin {"palloc_write", "add_take", "add_link", "add_push", "unlink", "reserve"}
  PROVE  UNCHANGED pool
<1>1. CASE Start(t)
  BY <1>1 DEF Start
<1>2. CASE palloc_lock(t) \/ palloc_read(t) \/ palloc_fails(t) \/ palloc_unlock(t) \/ large_add(t)
           \/ large_unlock(t)
  BY <1>2 DEF palloc_lock, palloc_read, palloc_fails, palloc_unlock, large_add, large_unlock,
              LockStep,
              UnlockStep
<1>3. CASE palloc_write(t) \/ add_take(t) \/ add_link(t) \/ add_push(t) \/ unlink(t) \/ reserve(t)
  BY <1>3 DEF palloc_write, add_take, add_link, add_push, unlink, reserve, At
<1>4. CASE add_lock(t) \/ add_unlock(t) \/ read_head(t) \/ search_lock(t) \/ search(t)
           \/ handler(t) \/ search_unlock(t)
  BY <1>4 DEF add_lock, add_unlock, read_head, search_lock, search, handler, search_unlock,
              LockStep, UnlockStep
<1> QED BY <1>1, <1>2, <1>3, <1>4 DEF Step

LEMMA BlocksOutside ==
  ASSUME NEW t \in Threads, Start(t) \/ Step(t)
  PROVE  me[t].pc # "palloc_unlock" => blocks' = blocks
<1>1. CASE Start(t)
  BY <1>1 DEF Start
<1>2. CASE palloc_lock(t) \/ palloc_read(t) \/ palloc_fails(t) \/ palloc_write(t)
           \/ palloc_unlock(t)
           \/ large_add(t) \/ large_unlock(t)
  BY <1>2 DEF palloc_lock, palloc_read, palloc_fails, palloc_write, palloc_unlock, large_add,
              large_unlock,
              LockStep, UnlockStep, client, At
<1>3. CASE add_lock(t) \/ add_take(t) \/ add_link(t) \/ add_push(t) \/ add_unlock(t)
  BY <1>3 DEF add_lock, add_take, add_link, add_push, add_unlock, LockStep, UnlockStep, client
<1>4. CASE read_head(t) \/ search_lock(t) \/ search(t) \/ handler(t)
  BY <1>4 DEF read_head, search_lock, search, handler, LockStep, client
<1>5. CASE unlink(t) \/ reserve(t) \/ search_unlock(t)
  BY <1>5 DEF unlink, reserve, search_unlock, UnlockStep, client
<1> QED BY <1>1, <1>2, <1>3, <1>4, <1>5 DEF Step

LEMMA PushAfterLink ==
  ASSUME IInv, NoLargeInHandlers, NEW t \in Threads, Start(t) \/ Step(t),
         me'[t].pc = "add_push"
  PROVE  add_link(t)
<1>1. /\ TypeOK /\ me \in [Threads -> Frame] /\ me[t] \in Frame
  BY DEF IInv, TypeOK
<1>2. ASSUME NEW pc \in Pcs \ {"add_push"}, Goto(t, pc) PROVE FALSE
  BY <1>1, <1>2 DEF Goto, Frame
<1>3. ~ Return(t)
  BY ReturnTakesNone
<1>4. ASSUME NEW pc, NEW qc \in Pcs \ {"add_push"}, NEW d, NEW run,
             Call(t, pc, Procedure(qc, d, run)) PROVE FALSE
  BY <1>1, <1>4 DEF Call, Procedure
<1>5. ~ Start(t)
  BY <1>1 DEF Start, Procedure
<1>6. ~ (palloc_lock(t) \/ palloc_read(t) \/ palloc_fails(t) \/ palloc_write(t) \/ palloc_unlock(t))
  BY <1>2, <1>3 DEF palloc_lock, palloc_read, palloc_fails, palloc_write, palloc_unlock,
                      LockStep, UnlockStep, Pcs
<1>7. ~ (large_add(t) \/ large_unlock(t) \/ add_lock(t) \/ add_take(t) \/ add_push(t)
           \/ add_unlock(t))
  BY <1>2, <1>3, <1>4 DEF large_add, large_unlock, add_lock, add_take, add_push, add_unlock,
                          LockStep, UnlockStep, Pcs
<1>8. ~ read_head(t)
  BY <1>1 DEF read_head, Frame
<1>9. ~ search(t)
  <2>1. ~ (me[t].pc = "search" /\
            me' = [me EXCEPT ![t].prev = me[t].node, ![t].node = next[me[t].node]])
    BY <1>1 DEF Frame
  <2>2. (IF me[t].run THEN "handler" ELSE "unlink") \in Pcs \ {"add_push"}
    BY DEF Pcs
  <2> QED BY <1>2, <1>3, <2>1, <2>2 DEF search, At
<1>10. ~ (search_lock(t) \/ handler(t) \/ unlink(t) \/ reserve(t) \/ search_unlock(t))
  BY <1>2, <1>3, <1>4 DEF search_lock, handler, unlink, reserve, search_unlock, LockStep,
                          UnlockStep, Pcs, NoLargeInHandlers
<1> QED BY <1>5, <1>6, <1>7, <1>8, <1>9, <1>10 DEF Step

LEMMA LinkedKept ==
  ASSUME IInv, LinkedInv, NoLargeInHandlers, NEW t \in Threads, Start(t) \/ Step(t)
  PROVE  LinkedInv'
<1> SUFFICES ASSUME NEW u \in Threads, me'[u].pc = "add_push"
             PROVE  next'[mem'[u]] = cleanups' /\ data'[mem'[u]] = me'[u].want
  BY DEF LinkedInv, At
<1>1. CASE u = t
  <2>1. add_link(t)
    BY <1>1, PushAfterLink
  <2>2. TypeOK /\ mem[t] \in Cells /\ Goto(t, "add_push") /\ callers' = callers
    BY <2>1 DEF IInv, MemInv, add_link, At
  <2>3. me'[t].want = me[t].want
    BY <2>2, FrameGoto DEF Pcs
  <2> QED BY <1>1, <2>1, <2>2, <2>3 DEF add_link, TypeOK
<1>2. CASE u # t
  <2>1. /\ me'[u] = me[u] /\ mem'[u] = mem[u]
    BY <1>2, Others DEF IInv
  <2>2. me[u].pc \in Critical
    BY <2>1 DEF Critical
  <2>3. me[t].pc \notin Critical
    BY <1>2, <2>2, Alone
  <2>4. UNCHANGED pool
    BY <2>3, PoolOutside DEF Critical
  <2> QED BY <2>1, <2>4 DEF LinkedInv, At, pool
<1> QED BY <1>1, <1>2

LEMMA GivenStep ==
  ASSUME IInv, NEW t \in Threads, palloc_unlock(t)
  PROVE  /\ Flight = {mem[t]}
         /\ \/ blocks' = blocks /\ Flight' = {mem[t]}
            \/ /\ blocks' = [blocks EXCEPT ![t] = @ \cup {mem[t]}] /\ Flight' = {}
               /\ Given' = Given \cup {mem[t]}
<1>1. /\ me[t].pc = "palloc_unlock" /\ Return(t) /\ mem' = mem /\ me[t].pc \in Critical
      /\ blocks \in [Threads -> SUBSET Cells]
  BY DEF palloc_unlock, At, Critical, IInv, TypeOK
<1>2. Flight = {mem[t]}
  <2>1. \A u \in Threads \ {t} : Fly(me[u], mem[u]) = {}
    BY <1>1, Alone DEF Fly, Critical
  <2>2. Fly(me[t], mem[t]) = {mem[t]}
    BY <1>1 DEF Fly
  <2> QED BY <2>1, <2>2 DEF Flight
<1>3. Flight' = Fly(me'[t], mem'[t])
  <2>1. \A u \in Threads \ {t} : Fly(me[u], mem[u]) = {} /\ me'[u] = me[u]
    BY <1>1, Alone DEF Fly, Critical, Return, IInv, TypeOK
  <2>2. \A u \in Threads \ {t} : Fly(me'[u], mem'[u]) = {}
    BY <1>1, <2>1
  <2> QED BY <2>2 DEF Flight
<1>4. /\ me'[t].pc \in {"idle", "large_unlock", "add_link", "unlink"}
      /\ me'[t].pc = "add_link" <=> callers[t] # <<>> /\ Head(callers[t]).pc = "add_link"
  BY <1>1, ReturnParts
<1>5. CASE me'[t].pc = "add_link"
  BY <1>1, <1>2, <1>3, <1>4, <1>5 DEF Fly, palloc_unlock
<1>6. CASE me'[t].pc # "add_link"
  <2>1. blocks' = [blocks EXCEPT ![t] = @ \cup {mem[t]}]
    BY <1>4, <1>6 DEF palloc_unlock
  <2>2. Flight' = {}
    BY <1>3, <1>4, <1>6 DEF Fly
  <2>3. /\ \A u \in Threads \ {t} : blocks'[u] = blocks[u]
        /\ blocks'[t] = blocks[t] \cup {mem[t]}
    BY <1>1, <2>1
  <2>4. Given' = Given \cup {mem[t]}
    BY <2>3 DEF Given
  <2> QED BY <1>2, <2>1, <2>2, <2>4
<1> QED BY <1>5, <1>6

LEMMA BlocksKept ==
  ASSUME IInv, ListInv, BlocksInv, NEW t \in Threads, Start(t) \/ Step(t)
  PROVE  BlocksInv'
<1>1. CASE me[t].pc # "palloc_unlock"
  BY <1>1, BlocksOutside DEF BlocksInv
<1>2. CASE me[t].pc = "palloc_unlock"
  <2>1. palloc_unlock(t) /\ ~ wild
    BY <1>2 DEF Start, Step, At, palloc_lock, palloc_read, palloc_fails, palloc_write, large_add,
         large_unlock, add_lock, add_take, add_link, add_push, add_unlock, read_head,
         search_lock, search, handler, unlink, reserve, search_unlock, LockStep, UnlockStep
  <2>2. mem[t] \notin Given
    <3>1. PICK n, s, m, r :
            Intact(cleanups, n, s, free_cleanups, m, r, next, data, Given, Flight,
                   entries, first_avail)
      BY <2>1 DEF ListInv
    <3>2. mem[t] \in Flight
      BY <2>1, GivenStep
    <3> QED BY <3>1, <3>2 DEF Intact, Parts
  <2>3. CASE blocks' = blocks
    BY <2>3 DEF BlocksInv
  <2>4. CASE blocks' = [blocks EXCEPT ![t] = @ \cup {mem[t]}]
    <3>1. /\ \A u \in Threads \ {t} : blocks'[u] = blocks[u]
          /\ blocks'[t] = blocks[t] \cup {mem[t]}
      BY <2>4 DEF IInv, TypeOK
    <3>2. \A u \in Threads : mem[t] \notin blocks[u]
      BY <2>2 DEF Given
    <3> QED BY <3>1, <3>2 DEF BlocksInv
  <2> QED BY <2>1, <2>3, <2>4, GivenStep
<1> QED BY <1>1, <1>2

LEMMA ListKept ==
  ASSUME IInv, ListInv, LinkedInv, FreshInv, SearchInv, NoLargeInHandlers, OneSearcher,
         NEW t \in Threads, Start(t) \/ Step(t)
  PROVE  ListInv'
<1>1. /\ TypeOK /\ me[t] \in Frame /\ Shape(me[t], callers[t]) /\ me \in [Threads -> Frame]
      /\ DOMAIN next = Cells /\ DOMAIN data = Cells
      /\ \A u \in Threads : Shape(me[u], callers[u])
  BY DEF IInv, TypeOK, ShapeInv
<1>2. ~ wild
  BY DEF Start, Step
<1>3. PICK n, s, m, r :
        /\ Intact(cleanups, n, s, free_cleanups, m, r, next, data, Given, Flight,
                  entries, first_avail)
        /\ \A u \in Threads : CursorOK(me[u], callers[u], n, s, data)
  BY <1>2 DEF ListInv
<1>4. IsList(cleanups, n, s, next, Cells) /\ n \in Nat
  BY <1>3 DEF Intact, IsList
<1>5. \A u \in Threads \ {t} : me'[u] = me[u] /\ callers'[u] = callers[u]
  BY Others DEF IInv
<1> DEFINE Good(n2, s2, m2, r2) ==
      /\ Intact(cleanups', n2, s2, free_cleanups', m2, r2, next', data', Given', Flight',
                entries', first_avail')
      /\ \A u \in Threads : CursorOK(me'[u], callers'[u], n2, s2, data')
<1>6. ASSUME NEW n2, NEW s2, NEW m2, NEW r2, Good(n2, s2, m2, r2) PROVE ListInv'
  BY <1>6 DEF ListInv
<1>7. blocks' = blocks => Given' = Given
  BY DEF Given
<1>8. ASSUME me[t].pc # "unlink", data' = data, Step(t)
      PROVE  \A u \in Threads : CursorOK(me'[u], callers'[u], n, s, data')
  BY <1>3, <1>4, <1>5, <1>8, CursorStep
<1>9. ASSUME me[t].pc \notin {"palloc_write", "palloc_unlock", "add_take", "add_link", "add_push",
                              "unlink", "reserve"}
      PROVE  ListInv'
  <2>1. UNCHANGED <<first_avail, cleanups, free_cleanups, next, data>>
    BY <1>9, PoolOutside DEF pool
  <2>2. Given' = Given
    BY <1>7, <1>9, BlocksOutside
  <2>3. Flight' = Flight
    BY <1>9, FlightStep, StartParts, StepParts
  <2>4. entries' = entries
    BY <1>9, StepObjects DEF Start, At
  <2>5. \A u \in Threads : CursorOK(me'[u], callers'[u], n, s, data')
    <3>1. CASE Start(t)
      <4>1. CursorOK(me'[t], callers'[t], n, s, data')
        BY <3>1, StartParts
      <4> QED BY <1>3, <1>5, <2>1, <4>1
    <3>2. CASE Step(t)
      BY <1>8, <1>9, <2>1, <3>2
    <3> QED BY <3>1, <3>2
  <2>6. Good(n, s, m, r)
    BY <1>3, <2>1, <2>2, <2>3, <2>4, <2>5
  <2> QED BY <1>6, <2>6
<1>10. ASSUME palloc_unlock(t), Step(t) PROVE ListInv'
  <2>1. UNCHANGED <<first_avail, cleanups, free_cleanups, next, data, entries>> /\ me[t].pc # "unlink"
    BY <1>10 DEF palloc_unlock, pool, At
  <2>2. \A u \in Threads : CursorOK(me'[u], callers'[u], n, s, data')
    BY <1>8, <1>10, <2>1
  <2>3. Flight = {mem[t]}
    BY <1>10, GivenStep
  <2>4. Intact(cleanups, n, s, free_cleanups, m, r, next, data, Given', Flight', entries, first_avail)
    <3>1. CASE blocks' = blocks /\ Flight' = {mem[t]}
      BY <1>3, <1>7, <2>3, <3>1
    <3>2. CASE Given' = Given \cup {mem[t]} /\ Flight' = {}
      BY <1>3, <2>3, <3>2, IntactGive
    <3> QED BY <1>10, <3>1, <3>2, GivenStep
  <2>5. Good(n, s, m, r)
    BY <2>1, <2>2, <2>4
  <2> QED BY <1>6, <2>5
<1>11. ASSUME palloc_write(t), Step(t) PROVE ListInv'
  <2>1. /\ UNCHANGED <<cleanups, free_cleanups, next, data, callers, mem, entries, blocks>>
        /\ me[t].pc = "palloc_write" /\ me[t].pc \in Critical /\ Goto(t, "palloc_unlock")
        /\ mem[t] = first_avail /\ first_avail' = first_avail + 1
    BY <1>11 DEF palloc_write, client, At, Critical, IInv, RoomInv
  <2>2. \A u \in Threads : CursorOK(me'[u], callers'[u], n, s, data')
    BY <1>8, <1>11, <2>1
  <2>3. me'[t].pc = "palloc_unlock"
    BY <1>1, <2>1, FrameGoto DEF Pcs
  <2>4. Flight = {} /\ Flight' = {first_avail}
    BY <2>1, <2>3, FlightStep DEF Fly
  <2>5. first_avail \in Nat \ {0}
    BY <1>1, CellsFinite DEF TypeOK
  <2>6. Intact(cleanups, n, s, free_cleanups, m, r, next, data, Given, {first_avail}, entries,
               first_avail + 1)
    BY <1>3, <2>4, <2>5, IntactGrow
  <2>7. Good(n, s, m, r)
    BY <1>7, <2>1, <2>2, <2>4, <2>6
  <2> QED BY <1>6, <2>7
<1>12. ASSUME add_take(t), Step(t) PROVE ListInv'
  <2>1. /\ UNCHANGED <<first_avail, cleanups, next, data, entries, blocks>>
        /\ me[t].pc = "add_take" /\ me[t].pc \in Critical
    BY <1>12 DEF add_take, client, At, Critical
  <2>2. \A u \in Threads : CursorOK(me'[u], callers'[u], n, s, data')
    BY <1>8, <1>12, <2>1
  <2>3. Flight = {} /\ Flight' = Fly(me'[t], mem'[t])
    BY <2>1, FlightStep DEF Fly
  <2>4. CASE /\ free_cleanups # 0 /\ mem' = [mem EXCEPT ![t] = free_cleanups]
             /\ free_cleanups' = next[free_cleanups] /\ Goto(t, "add_link") /\ callers' = callers
    <3>1. me'[t].pc = "add_link" /\ mem'[t] = free_cleanups
      BY <1>1, <2>4, FrameGoto DEF Pcs, TypeOK
    <3>2. Flight' = {free_cleanups}
      BY <2>3, <3>1 DEF Fly
    <3>3. Intact(cleanups, n, s, next[free_cleanups], m - 1, Dropped(1, m, r), next, data, Given,
                 {free_cleanups}, entries, first_avail)
      BY <1>3, <2>3, <2>4, IntactTake
    <3>4. Good(n, s, m - 1, Dropped(1, m, r))
      BY <1>7, <2>1, <2>2, <2>4, <3>2, <3>3
    <3> QED BY <1>6, <3>4
  <2>5. CASE /\ Call(t, "add_link", Procedure("palloc_lock", None, FALSE))
             /\ free_cleanups' = free_cleanups
    <3>1. me'[t].pc = "palloc_lock"
      BY <1>1, <2>5, FrameCall DEF Procedure, Pcs
    <3>2. Flight' = {}
      BY <2>3, <3>1 DEF Fly
    <3>3. Good(n, s, m, r)
      BY <1>3, <1>7, <2>1, <2>2, <2>3, <2>5, <3>2
    <3> QED BY <1>6, <3>3
  <2> QED BY <1>12, <2>4, <2>5 DEF add_take
<1>13. ASSUME add_link(t), Step(t) PROVE ListInv'
  <2>1. /\ UNCHANGED <<first_avail, cleanups, free_cleanups, entries, blocks, mem, callers>>
        /\ me[t].pc = "add_link" /\ me[t].pc \in Critical /\ Goto(t, "add_push")
        /\ data' = [data EXCEPT ![mem[t]] = me[t].want]
        /\ next' = [next EXCEPT ![mem[t]] = cleanups]
    BY <1>13 DEF add_link, client, At, Critical
  <2>2. me'[t].pc = "add_push"
    BY <1>1, <2>1, FrameGoto DEF Pcs
  <2>3. Flight = {mem[t]} /\ Flight' = {mem[t]}
    BY <2>1, <2>2, FlightStep DEF Fly
  <2>4. /\ Intact(cleanups, n, s, free_cleanups, m, r, next', data', Given, {mem[t]}, entries,
                  first_avail)
        /\ \A c \in Elems(n, s) : data'[c] = data[c]
    <3>1. Intact(cleanups, n, s, free_cleanups, m, r, next, data, Given, {mem[t]}, entries,
                 first_avail)
      BY <1>3, <2>3
    <3>2. \A c \in Cells \ {mem[t]} : next'[c] = next[c] /\ data'[c] = data[c]
      BY <1>1, <2>1
    <3>3. Intact(cleanups, n, s, free_cleanups, m, r, next', data', Given, {mem[t]}, entries,
                 first_avail)
      BY <3>1, <3>2, IntactLink, ZenonT(30)
    <3>4. Elems(n, s) \subseteq Cells /\ mem[t] \notin Elems(n, s)
      BY <3>1 DEF Intact, Parts, IsList, Elems
    <3> QED BY <3>2, <3>3, <3>4
  <2>5. ASSUME NEW u \in Threads PROVE CursorOK(me'[u], callers'[u], n, s, data')
    <3>1. CASE u = t
      <4>1. ~ Searches(me'[t], callers'[t])
        BY <1>1, <1>13, <2>1, AddsDoNotSearch, StepParts DEF Adding
      <4> QED BY <3>1, <4>1, CursorNone
    <3>2. CASE u # t
      <4>1. CursorOK(me[u], callers[u], n, s, data')
        BY <1>1, <1>3, <2>4, CursorData
      <4> QED BY <1>5, <3>2, <4>1
    <3> QED BY <3>1, <3>2
  <2>6. Good(n, s, m, r)
    BY <1>7, <2>1, <2>3, <2>4, <2>5
  <2> QED BY <1>6, <2>6
<1>14. ASSUME add_push(t), Step(t) PROVE ListInv'
  <2>1. /\ UNCHANGED <<first_avail, free_cleanups, next, data, blocks, mem, callers>>
        /\ me[t].pc = "add_push" /\ me[t].pc \in Critical /\ Goto(t, "add_unlock")
        /\ cleanups' = mem[t] /\ entries' = entries \cup {me[t].want}
    BY <1>14 DEF add_push, At, Critical
  <2>2. me'[t].pc = "add_unlock"
    BY <1>1, <2>1, FrameGoto DEF Pcs
  <2>3. Flight = {mem[t]} /\ Flight' = {}
    BY <2>1, <2>2, FlightStep DEF Fly
  <2>4. next[mem[t]] = cleanups /\ data[mem[t]] = me[t].want /\ mem[t] \in Cells
    BY <2>1 DEF LinkedInv, At, IInv, MemInv
  <2>5. me[t].want \notin entries
    <3>1. me[t].want \in AddsOf(t)
      BY <2>1 DEF AddsOf, Adds
    <3> QED BY <3>1 DEF FreshInv
  <2>6. Intact(mem[t], n + 1, Pushed(mem[t], n, s), free_cleanups, m, r, next, data, Given, {},
               entries \cup {me[t].want}, first_avail)
    BY <1>3, <2>3, <2>4, <2>5, IntactPush
  <2>7. ASSUME NEW u \in Threads
        PROVE  CursorOK(me'[u], callers'[u], n + 1, Pushed(mem[t], n, s), data')
    <3>1. CASE u = t
      <4>1. ~ Searches(me'[t], callers'[t])
        BY <1>1, <1>14, <2>1, AddsDoNotSearch, StepParts DEF Adding
      <4> QED BY <3>1, <4>1, CursorNone
    <3>2. CASE u # t
      <4>1. CursorOK(me[u], callers[u], n + 1, Pushed(mem[t], n, s), data)
        BY <1>3, <1>4, CursorPush
      <4> QED BY <1>5, <2>1, <3>2, <4>1
    <3> QED BY <3>1, <3>2
  <2>8. Good(n + 1, Pushed(mem[t], n, s), m, r)
    BY <1>7, <2>1, <2>3, <2>6, <2>7
  <2> QED BY <1>6, <2>8
<1>15. ASSUME unlink(t) PROVE ListInv'
  <2>1. /\ UNCHANGED <<first_avail, free_cleanups, data, blocks, mem, callers>>
        /\ me[t].pc = "unlink" /\ me[t].pc \in Critical /\ Goto(t, "reserve")
        /\ entries' = entries \ {me[t].want}
    BY <1>15 DEF unlink, At, Critical
  <2>2. me'[t].pc = "reserve" /\ me'[t].node = me[t].node
    BY <1>1, <2>1, FrameGoto DEF Pcs
  <2>3. Flight = {} /\ Flight' = {me[t].node}
    BY <2>1, <2>2, FlightStep DEF Fly
  <2>4. /\ Pos(me[t].node, me[t].prev, n, s) /\ data[me[t].node] = me[t].want
        /\ me[t].node \in Cells /\ me[t].node # 0 /\ callers[t] = <<>>
    BY <1>1, <1>3, <2>1, CellsFinite DEF CursorOK, Looking, Shape, Palloc, Adding, Searching
  <2>5. PICK k \in 1..n : /\ s[k] = me[t].node
                          /\ me[t].prev = Unset \/ (k > 1 /\ me[t].prev = s[k - 1])
    BY <2>4 DEF Pos
  <2>6. n # 0 /\ cleanups = s[1] /\ 1 \in 1..n /\ (cleanups = me[t].node => k = 1)
    BY <1>4, <2>5 DEF IsList
  <2>7. SUFFICES ASSUME ~ wild' PROVE ListInv'
    BY DEF ListInv
  <2>8. \/ k = 1 /\ cleanups' = next[s[1]] /\ next' = next
        \/ k > 1 /\ cleanups' = cleanups /\ next' = [next EXCEPT ![s[k - 1]] = next[s[k]]]
    BY <1>15, <2>5, <2>6, <2>7 DEF unlink
  <2>9. Intact(cleanups', n - 1, Dropped(k, n, s), free_cleanups, m, r, next', data, Given,
               {s[k]}, entries \ {data[s[k]]}, first_avail)
    BY <1>1, <1>3, <2>3, <2>8, IntactDrop
  <2>10. ASSUME NEW u \in Threads
         PROVE  CursorOK(me'[u], callers'[u], n - 1, Dropped(k, n, s), data')
    <3>1. CASE u = t
      BY <2>1, <2>2, <2>4, <3>1 DEF CursorOK, Looking
    <3>2. CASE u # t
      <4>1. Asks(t)
        BY <2>1 DEF SearchInv, Searches, Searching
      <4>2. ~ Searches(me[u], callers[u])
        BY <3>2, <4>1 DEF SearchInv, OneSearcher
      <4> QED BY <1>5, <3>2, <4>2, CursorNone
    <3> QED BY <3>1, <3>2
  <2>11. Good(n - 1, Dropped(k, n, s), m, r)
    BY <1>7, <2>1, <2>3, <2>4, <2>5, <2>9, <2>10
  <2> QED BY <1>6, <2>11
<1>16. ASSUME reserve(t), Step(t) PROVE ListInv'
  <2>1. /\ UNCHANGED <<first_avail, cleanups, data, entries, blocks, mem, callers>>
        /\ me[t].pc = "reserve" /\ me[t].pc \in Critical /\ Goto(t, "search_unlock")
        /\ next' = [next EXCEPT ![me[t].node] = free_cleanups] /\ free_cleanups' = me[t].node
    BY <1>16 DEF reserve, client, At, Critical
  <2>2. me'[t].pc = "search_unlock"
    BY <1>1, <2>1, FrameGoto DEF Pcs
  <2>3. Flight = {me[t].node} /\ Flight' = {}
    BY <2>1, <2>2, FlightStep DEF Fly
  <2>4. me[t].node \in Cells
    BY <1>1, <2>1 DEF Shape, Palloc, Adding, Searching
  <2>5. Intact(cleanups, n, s, me[t].node, m + 1, Pushed(me[t].node, m, r), next', data, Given,
               {}, entries, first_avail)
    BY <1>1, <1>3, <2>1, <2>3, <2>4, IntactReserve
  <2>6. \A u \in Threads : CursorOK(me'[u], callers'[u], n, s, data')
    BY <1>8, <1>16, <2>1
  <2>7. Good(n, s, m + 1, Pushed(me[t].node, m, r))
    BY <1>7, <2>1, <2>3, <2>5, <2>6
  <2> QED BY <1>6, <2>7
<1> HIDE DEF Good
<1> QED
  <2>1. CASE Start(t)
    BY <1>9, <2>1 DEF Start, At
  <2>2. CASE Step(t)
    <3>1. CASE me[t].pc \in {"palloc_write", "palloc_unlock", "add_take", "add_link", "add_push",
                             "unlink", "reserve"}
      <4>1. palloc_write(t) \/ palloc_unlock(t) \/ add_take(t) \/ add_link(t) \/ add_push(t)
            \/ unlink(t) \/ reserve(t)
        BY <2>2, <3>1 DEF Step, At, palloc_lock, palloc_read, palloc_fails, large_add,
             large_unlock, add_lock, add_unlock, read_head,
             search_lock, search, handler, search_unlock, LockStep, UnlockStep
      <4> QED BY <1>10, <1>11, <1>12, <1>13, <1>14, <1>15, <1>16, <2>2, <4>1
    <3>2. CASE me[t].pc \notin {"palloc_write", "palloc_unlock", "add_take", "add_link", "add_push",
                                "unlink", "reserve"}
      BY <1>9, <3>2
    <3> QED BY <3>1, <3>2
  <2> QED BY <2>1, <2>2

-----------------------------------------------------------------------------

LEMMA CellsInvInit == Init => CellsInv
<1> SUFFICES ASSUME Init PROVE CellsInv
  OBVIOUS
<1>1. IInv
  BY IInvInit
<1>2. \A t \in Threads : me[t].pc = "idle" /\ callers[t] = <<>> /\ blocks[t] = {}
  BY DEF Init, Idle
<1>3. \A t \in Threads : /\ AddsOf(t) = {} /\ TakesOf(t) = {} /\ Fly(me[t], mem[t]) = {}
                         /\ ~ Searches(me[t], callers[t])
  BY <1>2 DEF AddsOf, TakesOf, Adds, Takes, Fly, Searches, Searching
<1>4. Given = {} /\ Flight = {}
  BY <1>2, <1>3 DEF Given, Flight
<1>5. ListInv
  <2> DEFINE e == [i \in 1..0 |-> 0]
  <2>1. IsList(0, 0, e, next, Cells) /\ Elems(0, e) = {}
    BY ListEmpty
  <2> HIDE DEF e
  <2>2. cleanups = 0 /\ free_cleanups = 0 /\ first_avail = 1 /\ entries = {}
    BY DEF Init
  <2>3. Parts({}, {}, {}, {}, 1) /\ Named({}, data, {})
    BY DEF Parts, Named
  <2>4. Intact(cleanups, 0, e, free_cleanups, 0, e, next, data, Given, Flight, entries,
               first_avail)
    BY <1>4, <2>1, <2>2, <2>3 DEF Intact
  <2>5. \A t \in Threads : CursorOK(me[t], callers[t], 0, e, data)
    BY <1>3, CursorNone
  <2> QED BY <2>4, <2>5 DEF ListInv
<1>6. LinkedInv /\ BlocksInv /\ SearchInv
  BY <1>2, <1>3 DEF LinkedInv, BlocksInv, SearchInv, At
<1>7. FreshInv
  BY <1>3 DEF FreshInv, Init
<1>8. RunsInv
  BY DEF RunsInv, Init
<1> QED BY <1>1, <1>5, <1>6, <1>7, <1>8 DEF CellsInv

LEMMA CellsInvNext ==
  NoLargeInHandlers /\ OneSearcher => (CellsInv /\ [Next]_vars => CellsInv')
<1> SUFFICES ASSUME NoLargeInHandlers, OneSearcher, CellsInv, [Next]_vars PROVE CellsInv'
  OBVIOUS
<1>1. /\ IInv /\ ListInv /\ LinkedInv /\ BlocksInv /\ FreshInv /\ RunsInv /\ SearchInv
  BY DEF CellsInv
<1>2. CASE Next
  <2>1. PICK t \in Threads : Start(t) \/ Step(t)
    BY <1>2 DEF Next
  <2>2. IInv' /\ SearchInv' /\ FreshInv' /\ LinkedInv' /\ BlocksInv'
    BY <1>1, <2>1, IInvStep, SearchKept, FreshKept, LinkedKept, BlocksKept
  <2>3. RunsInv'
    BY <1>1, <2>1, RunsKept
  <2>4. ListInv'
    BY <1>1, <2>1, ListKept
  <2> QED BY <2>2, <2>3, <2>4 DEF CellsInv
<1>3. CASE UNCHANGED vars
  <2>1. IInv'
    BY <1>1, <1>3, IInvNext
  <2>2. /\ UNCHANGED <<first_avail, cleanups, free_cleanups, next, data, me, callers, mem>>
        /\ UNCHANGED <<blocks, entries, fresh, runs, wild>>
    BY <1>3 DEF vars, pool, client
  <2>3. Given' = Given /\ Flight' = Flight
    BY <2>2 DEF Given, Flight
  <2>4. ListInv'
    BY <1>1, <2>2, <2>3 DEF ListInv
  <2>5. LinkedInv' /\ BlocksInv' /\ SearchInv'
    BY <1>1, <2>2 DEF LinkedInv, BlocksInv, SearchInv, At
  <2>6. FreshInv' /\ RunsInv'
    BY <1>1, <2>2 DEF FreshInv, RunsInv, AddsOf, TakesOf
  <2> QED BY <2>1, <2>4, <2>5, <2>6 DEF CellsInv
<1> QED BY <1>2, <1>3

LEMMA CellsInvIntact == CellsInv => PoolIntact
<1> SUFFICES ASSUME CellsInv, ~ wild, \A t \in Threads : ~ InCritical(t)
             PROVE  LET listed   == Chain(cleanups)
                        reserved == Chain(free_cleanups)
                        given    == UNION {blocks[t] : t \in Threads}
                    IN  /\ Ends(cleanups) /\ Ends(free_cleanups)
                        /\ listed \cup reserved \cup given = 1..(first_avail - 1)
                        /\ listed \cap reserved = {} /\ (listed \cup reserved) \cap given = {}
                        /\ \A t, u \in Threads : t # u => blocks[t] \cap blocks[u] = {}
                        /\ {data[c] : c \in listed} = entries
                        /\ Cardinality(listed) = Cardinality(entries)
  BY DEF PoolIntact
<1>1. PICK n, s, m, r :
        Intact(cleanups, n, s, free_cleanups, m, r, next, data, Given, Flight,
               entries, first_avail)
  BY DEF CellsInv, ListInv
<1>2. /\ IsList(cleanups, n, s, next, Cells) /\ IsList(free_cleanups, m, r, next, Cells)
      /\ Parts(Elems(n, s), Elems(m, r), Given, Flight, first_avail)
      /\ Named(Elems(n, s), data, entries)
  BY <1>1 DEF Intact
<1>3. Flight = {}
  <2>1. \A t \in Threads : me[t].pc \notin Critical
    BY DEF InCritical
  <2>2. \A t \in Threads : Fly(me[t], mem[t]) = {}
    BY <2>1 DEF Fly, Critical
  <2> QED BY <2>2 DEF Flight
<1> DEFINE N == Cardinality(Cells)
<1>4. N \in Nat /\ IsFiniteSet(Cells) /\ 0 \notin Cells /\ DOMAIN next = Cells
  BY CellsFinite DEF CellsInv, IInv, TypeOK
<1>5. Way(cleanups, next, N)[N] = 0 /\ {Way(cleanups, next, N)[k] : k \in 0..N} \ {0} = Elems(n, s)
  <2>1. N >= N
    BY <1>4
  <2> HIDE DEF N
  <2> QED BY <1>2, <1>4, <2>1, ListWay DEF N
<1>6. /\ Way(free_cleanups, next, N)[N] = 0
      /\ {Way(free_cleanups, next, N)[k] : k \in 0..N} \ {0} = Elems(m, r)
  <2>1. N >= N
    BY <1>4
  <2> HIDE DEF N
  <2> QED BY <1>2, <1>4, <2>1, ListWay DEF N
<1>7. /\ Ends(cleanups) /\ Chain(cleanups) = Elems(n, s)
      /\ Ends(free_cleanups) /\ Chain(free_cleanups) = Elems(m, r)
  BY <1>5, <1>6 DEF Ends, Chain, Walk
<1>8. {data[c] : c \in Elems(n, s)} = entries
  BY <1>2 DEF Named
<1>9. Cardinality(Elems(n, s)) = Cardinality(entries)
  <2> DEFINE E == Elems(n, s)
             f == [c \in E |-> data[c]]
  <2>1. E \subseteq Cells
    BY <1>2 DEF IsList, Elems
  <2>2. IsFiniteSet(E)
    BY <1>4, <2>1, FS_Subset
  <2>3. f \in Bijection(E, entries)
    <3>1. /\ \A c \in E : data[c] \in entries
          /\ \A d \in entries : \E c \in E : data[c] = d
          /\ \A b, c \in E : data[b] = data[c] => b = c
      BY <1>2 DEF Named
    <3> HIDE DEF E
    <3> QED BY <3>1 DEF Bijection, Injection, Surjection, IsInjective
  <2>4. ExistsBijection(E, entries)
    BY <2>3 DEF ExistsBijection
  <2> QED BY <2>2, <2>4, FS_Bijection
<1>10. \A t, u \in Threads : t # u => blocks[t] \cap blocks[u] = {}
  BY DEF CellsInv, BlocksInv
<1>11. /\ Elems(n, s) \cup Elems(m, r) \cup Given = 1..(first_avail - 1)
       /\ Elems(n, s) \cap Elems(m, r) = {} /\ (Elems(n, s) \cup Elems(m, r)) \cap Given = {}
  BY <1>2, <1>3 DEF Parts
<1> QED BY <1>7, <1>8, <1>9, <1>10, <1>11 DEF Given

(***************************************************************************)
(* Whenever nobody is between lock and unlock, every cell handed out is a  *)
(* client's block, a node of the cleanup list or a node of the reserve,    *)
(* whatever the threads have done, as long as one of them at most runs and *)
(* removes handlers and handlers do not ask for oversized blocks.          *)
(***************************************************************************)
THEOREM NoCellLost == NoLargeInHandlers /\ OneSearcher => (Spec => []PoolIntact)
<1> SUFFICES ASSUME NoLargeInHandlers, OneSearcher PROVE Spec => []PoolIntact
  OBVIOUS
<1>1. Init => CellsInv
  BY CellsInvInit
<1>2. CellsInv /\ [Next]_vars => CellsInv'
  BY CellsInvNext
<1>3. CellsInv => PoolIntact
  BY CellsInvIntact
<1> QED BY <1>1, <1>2, <1>3, PTL DEF Spec

(***************************************************************************)
(* Under the same conditions no handler runs twice.                        *)
(***************************************************************************)
THEOREM HandlersRunOnce == NoLargeInHandlers /\ OneSearcher => (Spec => []RunsOnce)
<1> SUFFICES ASSUME NoLargeInHandlers, OneSearcher PROVE Spec => []RunsOnce
  OBVIOUS
<1>1. Init => CellsInv
  BY CellsInvInit
<1>2. CellsInv /\ [Next]_vars => CellsInv'
  BY CellsInvNext
<1>3. CellsInv => RunsOnce
  BY DEF CellsInv, RunsInv, RunsOnce
<1> QED BY <1>1, <1>2, <1>3, PTL DEF Spec

-----------------------------------------------------------------------------
(* The mutex is given back.                                                *)

(* The holder has locked the mutex as often as it is between lock and      *)
(* unlock, and no more.                                                    *)
ExactInv == \A t \in Threads : holder = t => depth = Held(me[t], callers[t])

(* What a search looks for is registered, and is not before its node.      *)
Ahead(f, n, s, dat) == \E i, j \in 1..n : i <= j /\ s[i] = f.node /\ dat[s[j]] = f.want

AheadInv ==
  ~ wild =>
    \A t \in Threads :
      /\ At(t, "read_head") => me[t].want \in entries
      /\ me[t].pc \in {"search_lock", "search"} =>
           \A n, s : IsList(cleanups, n, s, next, Cells) => Ahead(me[t], n, s, data)

OnlyKnown == ~ AskUnknown

ReleaseInv == CellsInv /\ ExactInv /\ AheadInv

LEMMA ListUnique ==
  ASSUME NEW h, NEW n, NEW s, NEW nx, IsList(h, n, s, nx, Cells), DOMAIN nx = Cells,
         NEW k, NEW v, IsList(h, k, v, nx, Cells)
  PROVE  n = k /\ \A i \in 1..n : s[i] = v[i]
<1> DEFINE N == Cardinality(Cells)
           w == Way(h, nx, N)
<1>1. N \in Nat /\ IsFiniteSet(Cells) /\ 0 \notin Cells
  BY CellsFinite
<1>2. N >= N
  BY <1>1
<1>3. n <= N /\ \A i \in 0..N : w[i] = IF i < n THEN s[i + 1] ELSE 0
  <2> HIDE DEF N
  <2> QED BY <1>1, <1>2, ListWay DEF N
<1>4. k <= N /\ \A i \in 0..N : w[i] = IF i < k THEN v[i + 1] ELSE 0
  <2> HIDE DEF N
  <2> QED BY <1>1, <1>2, ListWay DEF N
<1>5. /\ n \in Nat /\ k \in Nat
      /\ \A i \in 1..n : s[i] \in Cells
      /\ \A i \in 1..k : v[i] \in Cells
  BY DEF IsList
<1> HIDE DEF N, w
<1>6. ~ (n < k)
  <2>1. SUFFICES ASSUME n < k PROVE FALSE
    OBVIOUS
  <2>2. n \in 0..N /\ n + 1 \in 1..k
    BY <1>1, <1>3, <1>4, <1>5, <2>1
  <2>3. w[n] = 0 /\ w[n] = v[n + 1]
    BY <1>3, <1>4, <1>5, <2>1, <2>2
  <2> QED BY <1>1, <1>5, <2>2, <2>3
<1>7. ~ (k < n)
  <2>1. SUFFICES ASSUME k < n PROVE FALSE
    OBVIOUS
  <2>2. k \in 0..N /\ k + 1 \in 1..n
    BY <1>1, <1>3, <1>4, <1>5, <2>1
  <2>3. w[k] = 0 /\ w[k] = s[k + 1]
    BY <1>3, <1>4, <1>5, <2>1, <2>2
  <2> QED BY <1>1, <1>5, <2>2, <2>3
<1>8. n = k
  BY <1>5, <1>6, <1>7
<1>9. ASSUME NEW i \in 1..n PROVE s[i] = v[i]
  <2>1. i - 1 \in 0..N /\ i - 1 < n /\ i - 1 < k /\ (i - 1) + 1 = i
    BY <1>1, <1>3, <1>5, <1>8
  <2> QED BY <1>3, <1>4, <2>1
<1> QED BY <1>8, <1>9

LEMMA AheadSame ==
  ASSUME NEW h, NEW n, NEW s, NEW nx, IsList(h, n, s, nx, Cells), DOMAIN nx = Cells,
         NEW k, NEW v, IsList(h, k, v, nx, Cells), NEW f, NEW dat, Ahead(f, n, s, dat)
  PROVE  Ahead(f, k, v, dat)
BY ListUnique DEF Ahead

LEMMA AheadPush ==
  ASSUME NEW n \in Nat, NEW s, NEW f, NEW dat, Ahead(f, n, s, dat), NEW x
  PROVE  Ahead(f, n + 1, Pushed(x, n, s), dat)
<1>1. \A i \in 1..n : i + 1 \in 1..(n + 1) /\ Pushed(x, n, s)[i + 1] = s[i]
  BY DEF Pushed
<1>2. PICK i \in 1..n, j \in 1..n : i <= j /\ s[i] = f.node /\ dat[s[j]] = f.want
  BY DEF Ahead
<1>3. i + 1 <= j + 1
  BY <1>2
<1> HIDE DEF Pushed
<1> QED BY <1>1, <1>2, <1>3 DEF Ahead

(* A search that looks for what is registered does not come to the end of  *)
(* the list.                                                               *)
LEMMA AheadFound ==
  ASSUME CellsInv, AheadInv, ~ wild, NEW t \in Threads, me[t].pc = "search"
  PROVE  me[t].node \in Cells /\ me[t].node # 0
<1>1. PICK n, s, m, r :
        Intact(cleanups, n, s, free_cleanups, m, r, next, data, Given, Flight,
               entries, first_avail)
  BY DEF CellsInv, ListInv
<1>2. IsList(cleanups, n, s, next, Cells)
  BY <1>1 DEF Intact
<1>3. Ahead(me[t], n, s, data)
  BY <1>2 DEF AheadInv
<1> QED BY <1>2, <1>3, CellsFinite DEF Ahead, IsList

LEMMA SearchStarts ==
  ASSUME IInv, NoLargeInHandlers, NEW t \in Threads, Start(t) \/ Step(t),
         me'[t].pc \in {"read_head", "search_lock", "search"}
  PROVE  Start(t) \/ read_head(t) \/ search_lock(t) \/ search(t)
<1> DEFINE Not == Pcs \ {"read_head", "search_lock", "search"}
<1>1. /\ TypeOK /\ me \in [Threads -> Frame] /\ me[t] \in Frame
  BY DEF IInv, TypeOK
<1>2. ASSUME NEW pc \in Not, Goto(t, pc) PROVE FALSE
  BY <1>1, <1>2 DEF Goto, Frame
<1>3. ~ Return(t)
  BY ReturnTakesNone
<1>4. ASSUME NEW pc, NEW qc \in Not, NEW d, NEW run, Call(t, pc, Procedure(qc, d, run))
      PROVE FALSE
  BY <1>1, <1>4 DEF Call, Procedure
<1>5. ~ (palloc_lock(t) \/ palloc_read(t) \/ palloc_fails(t) \/ palloc_write(t) \/ palloc_unlock(t))
  BY <1>2, <1>3 DEF palloc_lock, palloc_read, palloc_fails, palloc_write, palloc_unlock,
                      LockStep, UnlockStep, Pcs
<1>6. ~ (large_add(t) \/ large_unlock(t) \/ add_lock(t) \/ add_take(t) \/ add_link(t)
           \/ add_push(t) \/ add_unlock(t))
  BY <1>2, <1>3, <1>4 DEF large_add, large_unlock, add_lock, add_take, add_link, add_push,
                          add_unlock, LockStep, UnlockStep, Pcs
<1>7. ~ (handler(t) \/ unlink(t) \/ reserve(t) \/ search_unlock(t))
  BY <1>2, <1>3, <1>4 DEF handler, unlink, reserve, search_unlock, UnlockStep, Pcs,
                          NoLargeInHandlers
<1> QED BY <1>5, <1>6, <1>7 DEF Step

LEMMA AheadKept ==
  ASSUME CellsInv, AheadInv, NoLargeInHandlers, OneSearcher, OnlyKnown,
         NEW t \in Threads, Start(t) \/ Step(t)
  PROVE  AheadInv'
<1>1. /\ IInv /\ ListInv /\ LinkedInv /\ SearchInv /\ FreshInv /\ TypeOK
      /\ me \in [Threads -> Frame] /\ me[t] \in Frame /\ DOMAIN next = Cells
      /\ Shape(me[t], callers[t])
  BY DEF CellsInv, IInv, TypeOK, ShapeInv
<1>2. ~ wild
  BY DEF Start, Step
<1>3. PICK n, s, m, r :
        Intact(cleanups, n, s, free_cleanups, m, r, next, data, Given, Flight,
               entries, first_avail)
  BY <1>1, <1>2 DEF ListInv
<1>4. IsList(cleanups, n, s, next, Cells) /\ n \in Nat /\ Named(Elems(n, s), data, entries)
  BY <1>3 DEF Intact, IsList
<1> SUFFICES ASSUME NEW q \in Threads, me'[q].pc \in {"read_head", "search_lock", "search"}
             PROVE  /\ me'[q].pc = "read_head" => me'[q].want \in entries'
                    /\ me'[q].pc \in {"search_lock", "search"} =>
                         \A k, v : IsList(cleanups', k, v, next', Cells) =>
                                     Ahead(me'[q], k, v, data')
  BY DEF AheadInv, At
<1>5. CASE q = t
  <2>1. Start(t) \/ read_head(t) \/ search_lock(t) \/ search(t)
    BY <1>1, <1>5, SearchStarts
  <2>2. UNCHANGED <<cleanups, next, data, entries>>
    BY <2>1 DEF Start, read_head, search_lock, search, LockStep, pool, client
  <2>3. CASE Start(t)
    <3>1. me'[t].pc = "read_head" /\ me'[t].want \in entries
      BY <1>1, <1>5, <2>3 DEF Start, Procedure, OnlyKnown
    <3> QED BY <1>5, <2>2, <3>1
  <2>4. ASSUME Ahead(me'[t], n, s, data), me'[t].pc # "read_head"
        PROVE  \A k, v : IsList(cleanups', k, v, next', Cells) => Ahead(me'[q], k, v, data')
    BY <1>1, <1>4, <1>5, <2>2, <2>4, AheadSame
  <2>5. CASE read_head(t)
    <3>1. /\ me'[t].pc = "search_lock" /\ me'[t].node = cleanups /\ me'[t].want = me[t].want
          /\ me[t].pc = "read_head"
      BY <1>1, <2>5 DEF read_head, Frame, At
    <3>2. me[t].want \in entries
      BY <1>2, <3>1 DEF AheadInv, At
    <3>3. PICK j \in 1..n : data[s[j]] = me[t].want
      BY <1>4, <3>2 DEF Named, Elems
    <3>4. n # 0 /\ cleanups = s[1] /\ 1 \in 1..n /\ 1 <= j
      BY <1>4, <3>3 DEF IsList
    <3>5. Ahead(me'[t], n, s, data)
      BY <3>1, <3>3, <3>4 DEF Ahead
    <3> QED BY <1>5, <2>4, <3>1, <3>5
  <2>6. CASE search_lock(t)
    <3>1. me[t].pc = "search_lock" /\ Goto(t, "search") /\ callers' = callers
      BY <2>6 DEF search_lock, LockStep, At
    <3>2. me'[t].pc = "search" /\ me'[t].node = me[t].node /\ me'[t].want = me[t].want
      BY <1>1, <3>1, FrameGoto DEF Pcs
    <3>3. Ahead(me[t], n, s, data)
      BY <1>2, <1>4, <3>1 DEF AheadInv
    <3>4. Ahead(me'[t], n, s, data)
      BY <3>2, <3>3 DEF Ahead
    <3> QED BY <1>5, <2>4, <3>2, <3>4
  <2>7. CASE search(t)
    <3>1. me[t].pc = "search"
      BY <2>7 DEF search, At
    <3>2. ~ Return(t)
      BY <1>1, <1>5, ReturnTakesNone
    <3>3. ~ Goto(t, IF me[t].run THEN "handler" ELSE "unlink")
      BY <1>1, <1>5 DEF Goto, Frame
    <3>4. /\ data[me[t].node] # me[t].want
          /\ me' = [me EXCEPT ![t].prev = me[t].node, ![t].node = next[me[t].node]]
      BY <2>7, <3>2, <3>3 DEF search
    <3>5. me'[t].pc = "search" /\ me'[t].node = next[me[t].node] /\ me'[t].want = me[t].want
      BY <1>1, <3>1, <3>4 DEF Frame
    <3>6. Ahead(me[t], n, s, data)
      BY <1>2, <1>4, <3>1 DEF AheadInv
    <3>7. PICK i \in 1..n, j \in 1..n : /\ i <= j /\ s[i] = me[t].node
                                        /\ data[s[j]] = me[t].want
      BY <3>6 DEF Ahead
    <3>8. i # j
      BY <3>4, <3>7
    <3>9. i # n /\ i + 1 \in 1..n /\ i + 1 <= j
      BY <1>4, <3>7, <3>8
    <3>10. next[me[t].node] = s[i + 1]
      BY <1>4, <3>7, <3>9 DEF IsList
    <3>11. Ahead(me'[t], n, s, data)
      BY <3>5, <3>7, <3>9, <3>10 DEF Ahead
    <3> QED BY <1>5, <2>4, <3>5, <3>11
  <2> QED BY <2>1, <2>3, <2>5, <2>6, <2>7
<1>6. CASE q # t
  <2>1. me'[q] = me[q] /\ callers'[q] = callers[q]
    BY <1>1, <1>6, Others
  <2>2. /\ me[q].pc = "read_head" => me[q].want \in entries
        /\ me[q].pc \in {"search_lock", "search"} =>
             \A k, v : IsList(cleanups, k, v, next, Cells) => Ahead(me[q], k, v, data)
    BY <1>2 DEF AheadInv, At
  <2>3. me[t].pc \notin Searching
    <3>1. Asks(q)
      BY <1>1, <2>1 DEF SearchInv, Searches, Searching
    <3> QED BY <1>1, <1>6, <3>1 DEF SearchInv, Searches, OneSearcher
  <2>4. entries \subseteq entries'
    BY <1>1, <2>3, StepObjects DEF Start, At, Searching
  <2>5. CASE me[t].pc \notin {"add_link", "add_push"}
    <3>1. UNCHANGED <<cleanups, next, data>>
      <4>1. CASE me[t].pc \notin {"palloc_write", "add_take"}
        BY <2>3, <2>5, <4>1, PoolOutside DEF pool, Searching
      <4>2. CASE me[t].pc \in {"palloc_write", "add_take"}
        <5>1. palloc_write(t) \/ add_take(t)
          BY <4>2 DEF Start, Step, At, palloc_lock, palloc_read, palloc_fails, palloc_unlock,
                      large_add,
               large_unlock, add_lock, add_link, add_push, add_unlock, read_head,
               search_lock, search, handler, unlink, reserve, search_unlock, LockStep, UnlockStep
        <5> QED BY <5>1 DEF palloc_write, add_take
      <4> QED BY <4>1, <4>2
    <3> QED BY <2>1, <2>2, <2>4, <3>1
  <2>6. CASE me[t].pc \in {"add_link", "add_push"}
    <3>1. add_link(t) \/ add_push(t)
      BY <2>6 DEF Start, Step, At, palloc_lock, palloc_read, palloc_fails, palloc_write,
                  palloc_unlock, large_add,
           large_unlock, add_lock, add_take, add_unlock, read_head,
           search_lock, search, handler, unlink, reserve, search_unlock, LockStep, UnlockStep
    <3>2. Flight = {mem[t]} /\ mem[t] \in Cells
      BY <1>1, <2>6, FlightStep DEF Fly, Critical, IInv, MemInv
    <3>3. Elems(n, s) \subseteq Cells /\ mem[t] \notin Elems(n, s)
      BY <1>3, <3>2 DEF Intact, Parts, IsList, Elems
    <3>4. CASE add_link(t)
      <4>1. /\ cleanups' = cleanups /\ DOMAIN next' = Cells
            /\ \A c \in Elems(n, s) : next'[c] = next[c] /\ data'[c] = data[c]
        BY <1>1, <3>3, <3>4 DEF add_link, TypeOK
      <4>2. IsList(cleanups', n, s, next', Cells)
        BY <1>4, <4>1, ListFrame
      <4>3. Ahead(me[q], n, s, data) => Ahead(me[q], n, s, data')
        BY <4>1 DEF Ahead, Elems
      <4> QED BY <1>4, <2>1, <2>2, <2>4, <4>1, <4>2, <4>3, AheadSame
    <3>5. CASE add_push(t)
      <4>1. /\ cleanups' = mem[t] /\ next' = next /\ data' = data
            /\ next[mem[t]] = cleanups
        BY <1>1, <3>5 DEF add_push, LinkedInv
      <4>2. IsList(cleanups', n + 1, Pushed(mem[t], n, s), next', Cells)
        BY <1>4, <3>2, <3>3, <4>1, ListPush
      <4>3. Ahead(me[q], n, s, data) => Ahead(me[q], n + 1, Pushed(mem[t], n, s), data')
        BY <1>4, <4>1, AheadPush
      <4> QED BY <1>1, <1>4, <2>1, <2>2, <2>4, <4>1, <4>2, <4>3, AheadSame
    <3> QED BY <3>1, <3>4, <3>5
  <2> QED BY <2>5, <2>6
<1> QED BY <1>5, <1>6

LEMMA ExactKept ==
  ASSUME CellsInv, AheadInv, ExactInv, NoLargeInHandlers, NEW t \in Threads, Start(t) \/ Step(t)
  PROVE  ExactInv'
<1> DEFINE old == Held(me[t], callers[t])
           new == Held(me'[t], callers'[t])
<1>1. /\ IInv /\ TypeOK /\ Shape(me[t], callers[t]) /\ me[t] \in Frame
      /\ me \in [Threads -> Frame] /\ ~ wild
  BY DEF CellsInv, IInv, TypeOK, ShapeInv, Start, Step
<1>2. LockStepOf(t, old, new)
  BY <1>1, LockSteps
<1>3. old \in Nat /\ new \in Nat /\ Crit(me[t].pc) \in {0, 1} /\ old >= Crit(me[t].pc)
  BY HeldValue, CritValues
<1>4. /\ holder \in Threads \cup {NULL} /\ depth \in Nat
      /\ depth = 0 <=> holder = NULL
      /\ t # NULL
      /\ old > 0 => holder = t /\ depth >= old
      /\ holder = t => depth = old
  BY <1>1, ThreadsAssumption DEF IInv, TypeOK, HeldInv, ExactInv
<1>5. me[t].pc \in Critical => Crit(me[t].pc) = 1
  BY DEF Crit
<1>6. search(t) => new = old
  <2>1. SUFFICES ASSUME search(t) PROVE new = old
    OBVIOUS
  <2>2. me[t].pc = "search" /\ callers[t] = <<>> /\ me[t].node # 0
    BY <1>1, <2>1, AheadFound DEF search, At, Shape, Adding, Palloc, Searching
  <2>3. callers' = callers
    BY <2>1, <2>2 DEF search
  <2>4. me'[t].pc \in {"handler", "unlink", "search"}
    <3>1. CASE Goto(t, IF me[t].run THEN "handler" ELSE "unlink")
      BY <1>1, <3>1 DEF Goto, Frame
    <3>2. CASE me' = [me EXCEPT ![t].prev = me[t].node, ![t].node = next[me[t].node]]
      BY <1>1, <2>2, <3>2 DEF Frame
    <3> QED BY <2>1, <2>2, <3>1, <3>2 DEF search
  <2>5. Crit(me'[t].pc) = Crit(me[t].pc)
    BY <2>2, <2>4, CritValues
  <2> QED BY <2>3, <2>5 DEF Held
<1>7. ASSUME NEW u \in Threads \ {t} PROVE holder' = u => depth' = Held(me'[u], callers'[u])
  <2>1. /\ Held(me'[u], callers'[u]) = Held(me[u], callers[u])
        /\ holder = u => depth = Held(me[u], callers[u])
    BY <1>1, Others DEF ExactInv
  <2>2. u # NULL
    BY ThreadsAssumption
  <2> HIDE DEF old, new
  <2> QED BY <1>2, <2>1, <2>2 DEF LockStepOf, spr_mutex_lock, spr_mutex_unlock
<1>8. holder' = t => depth' = new
  <2> HIDE DEF old, new
  <2>1. CASE spr_mutex_lock(t) /\ new = old + 1
    <3>1. depth = old
      BY <1>3, <1>4, <2>1 DEF spr_mutex_lock
    <3> QED BY <2>1, <3>1 DEF spr_mutex_lock
  <2>2. CASE /\ spr_mutex_unlock(t) /\ new = old - Crit(me[t].pc)
             /\ me[t].pc \in Critical \/ old = 0
    BY <1>3, <1>4, <1>5, <2>2 DEF spr_mutex_unlock
  <2>3. CASE UNCHANGED <<holder, depth>> /\ new = old
    BY <1>4, <2>3
  <2> QED BY <1>2, <1>6, <2>1, <2>2, <2>3 DEF LockStepOf
<1>9. \A u \in Threads : holder' = u => depth' = Held(me'[u], callers'[u])
  BY <1>7, <1>8
<1> QED BY <1>9 DEF ExactInv

LEMMA ReleaseInvInit == Init => ReleaseInv
<1> SUFFICES ASSUME Init PROVE ReleaseInv
  OBVIOUS
<1>1. CellsInv
  BY CellsInvInit
<1>2. \A t \in Threads : me[t].pc = "idle"
  BY DEF Init, Idle
<1>3. holder = NULL
  BY DEF Init, MutexInit
<1>4. ExactInv
  BY <1>3, ThreadsAssumption DEF ExactInv
<1>5. AheadInv
  BY <1>2 DEF AheadInv, At
<1> QED BY <1>1, <1>4, <1>5 DEF ReleaseInv

LEMMA ReleaseInvNext ==
  NoLargeInHandlers /\ OneSearcher /\ OnlyKnown => (ReleaseInv /\ [Next]_vars => ReleaseInv')
<1> SUFFICES ASSUME NoLargeInHandlers, OneSearcher, OnlyKnown, ReleaseInv, [Next]_vars
             PROVE  ReleaseInv'
  OBVIOUS
<1>1. CellsInv /\ ExactInv /\ AheadInv
  BY DEF ReleaseInv
<1>2. CellsInv'
  BY <1>1, CellsInvNext
<1>3. CASE Next
  <2>1. PICK t \in Threads : Start(t) \/ Step(t)
    BY <1>3 DEF Next
  <2>2. ExactInv'
    BY <1>1, <2>1, ExactKept
  <2>3. AheadInv'
    BY <1>1, <2>1, AheadKept
  <2> QED BY <1>2, <2>2, <2>3 DEF ReleaseInv
<1>4. CASE UNCHANGED vars
  <2>1. UNCHANGED <<holder, depth, cleanups, next, data, me, callers, entries, wild>>
    BY <1>4 DEF vars, pool, client
  <2>2. ExactInv' /\ AheadInv'
    BY <1>1, <2>1 DEF ExactInv, AheadInv, At
  <2> QED BY <1>2, <2>2 DEF ReleaseInv
<1> QED BY <1>3, <1>4

(***************************************************************************)
(* The mutex protects the pool, and every call that has returned has given *)
(* it back, as long as one thread at most searches the cleanup list and it *)
(* asks only for what is registered: a search that comes to the end of the *)
(* list returns without unlocking.                                         *)
(***************************************************************************)
THEOREM MutexGivenBack ==
  NoLargeInHandlers /\ OneSearcher /\ OnlyKnown => (Spec => []LockInv)
<1> SUFFICES ASSUME NoLargeInHandlers, OneSearcher, OnlyKnown PROVE Spec => []LockInv
  OBVIOUS
<1>1. Init => ReleaseInv
  BY ReleaseInvInit
<1>2. ReleaseInv /\ [Next]_vars => ReleaseInv'
  BY ReleaseInvNext
<1>3. ReleaseInv => LockInv
  <2> SUFFICES ASSUME ReleaseInv PROVE LockInv
    OBVIOUS
  <2>1. IInv /\ TypeOK
    BY DEF ReleaseInv, CellsInv, IInv
  <2>2. Protected
    BY <2>1, HeldIsCritical
  <2>3. ASSUME NEW t \in Threads, me[t].pc = "idle" PROVE holder # t
    <3>1. Held(me[t], callers[t]) = 0
      <4>1. callers[t] = <<>>
        BY <2>1, <2>3 DEF IInv, ShapeInv, Shape, Adding, Palloc, Searching
      <4> QED BY <2>3, <4>1, CritValues DEF Held
    <3>2. holder = t => depth = 0
      BY <3>1 DEF ReleaseInv, ExactInv
    <3> QED BY <2>1, <3>2, ThreadsAssumption DEF TypeOK
  <2> QED BY <2>1, <2>2, <2>3 DEF LockInv, LockReleased, At
<1> QED BY <1>1, <1>2, <1>3, PTL DEF Spec
=============================================================================
