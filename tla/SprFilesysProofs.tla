-------------------------- MODULE SprFilesysProofs --------------------------
(***************************************************************************)
(* Proofs about the two models of lib/spr_filesys.c.  SprFile, for any     *)
(* number of threads and handles and any bounds: the bytes of the file are *)
(* where they belong, the handles count right, and what the calls return   *)
(* is what they have done.  SprDir, for any files, kinds and order:        *)
(* streams report what there is, and end as they should.                   *)
(***************************************************************************)
EXTENDS SprFile, SprDir, SequenceTheorems, FiniteSetTheorems, TLAPS

-----------------------------------------------------------------------------
(* The operators of the model.                                             *)

LEMMA MaxOfTwo ==
  ASSUME NEW a \in Int, NEW b \in Int
  PROVE  Max({a, b}) = IF a >= b THEN a ELSE b
<1>1. PICK m : m = IF a >= b THEN a ELSE b
  OBVIOUS
<1>2. m \in {a, b} /\ \A y \in {a, b} : m >= y
  BY <1>1
<1>3. \A x \in {a, b} : (\A y \in {a, b} : x >= y) => x = m
  BY <1>2
<1>4. (CHOOSE x \in {a, b} : \A y \in {a, b} : x >= y) = m
  BY <1>2, <1>3
<1> QED
  BY <1>1, <1>4 DEF Max

LEMMA MinOfTwo ==
  ASSUME NEW a \in Int, NEW b \in Int
  PROVE  Min({a, b}) = IF a <= b THEN a ELSE b
<1>1. PICK m : m = IF a <= b THEN a ELSE b
  OBVIOUS
<1>2. m \in {a, b} /\ \A y \in {a, b} : m <= y
  BY <1>1
<1>3. \A x \in {a, b} : (\A y \in {a, b} : x <= y) => x = m
  BY <1>2
<1>4. (CHOOSE x \in {a, b} : \A y \in {a, b} : x <= y) = m
  BY <1>2, <1>3
<1> QED
  BY <1>1, <1>4 DEF Min

(* A function on 1..n is a sequence of length n.                           *)
LEMMA FcnIsSeq ==
  ASSUME NEW S, NEW n \in Nat, NEW f, f \in [1..n -> S]
  PROVE  f \in Seq(S) /\ Len(f) = n /\ DOMAIN f = 1..n
OBVIOUS

(* The fields of a frame.                                                  *)
LEMMA FrameTypes ==
  ASSUME NEW f \in Frame
  PROVE  /\ f.h \in Handles /\ f.ret \in Int /\ f.ret <= MaxLen
         /\ {f.off, f.req, f.written, f.was, f.len} \subseteq Nat
         /\ f.off <= MaxLen /\ f.req <= MaxSize /\ f.written <= MaxSize
         /\ MaxLen \in Nat /\ MaxSize \in Nat /\ MaxSize <= MaxLen
<1>1. MaxLen \in Nat /\ MaxSize \in Nat /\ MaxSize <= MaxLen
  BY FileAssumption DEF FileAssumption
<1> QED
  BY <1>1 DEF Frame

Bytes == ({"at", "hole"} \cup Handles) \X Nat

(* A transfer takes at most what was asked for, and what there is room     *)
(* for.                                                                    *)
LEMMA TransferBounds ==
  ASSUME NEW size \in Nat, NEW max \in Nat, NEW n \in Transfers(size, max)
  PROVE  n \in Nat /\ n <= size /\ n <= max /\ (size > 0 => n > 0)
<1>1. CASE size = 0 \/ max = 0
  BY <1>1 DEF Transfers
<1>2. CASE ~ (size = 0 \/ max = 0)
  <2>1. n \in 1..Min({size, max})
    BY <1>2 DEF Transfers
  <2>2. Min({size, max}) = IF size <= max THEN size ELSE max
    BY MinOfTwo
  <2> QED
    BY <2>1, <2>2
<1> QED
  BY <1>1, <1>2

LEMMA RoomBounds ==
  ASSUME NEW p \in Nat, FileAssumption
  PROVE  Room(p) \in Nat /\ \A n \in Nat : n <= Room(p) /\ n > 0 => p + n <= MaxLen
BY DEF Room, FileAssumption

(* What Overwritten makes of the file.                                     *)
LEMMA OverwrittenRight ==
  ASSUME FileAssumption, TypeOK,
         NEW p \in 0..MaxLen, NEW n \in Nat, n <= Room(p),
         NEW s \in [1..n -> Bytes], NEW new, new = Overwritten(p, s)
  PROVE  /\ new \in Seq(Bytes) /\ Len(new) <= MaxLen /\ Len(content) <= Len(new)
         /\ n > 0 => p + n <= Len(new)
         /\ Len(new) <= Len(content) \/ (n > 0 /\ Len(new) = p + n)
         /\ \A k \in 1..Len(new) :
              \/ k \in (p + 1)..(p + n) /\ new[k] = s[k - p]
              \/ k \notin (p + 1)..(p + n) /\ k \in 1..Len(content) /\ new[k] = content[k]
              \/ k \notin (p + 1)..(p + n) /\ k > Len(content) /\ new[k] = Hole
<1> DEFINE L == IF n > 0 /\ p + n > Len(content) THEN p + n ELSE Len(content)
<1>1. s \in Seq(Bytes) /\ Len(s) = n /\ p \in Nat /\ MaxLen \in Nat
  BY FcnIsSeq DEF FileAssumption
<1>2. content \in Seq(Bytes) /\ Len(content) \in Nat /\ Len(content) <= MaxLen
      /\ \A k \in 1..Len(content) : content[k] \in Bytes
  BY DEF TypeOK, Bytes
<1>3. s = <<>> <=> n = 0
  BY <1>1
<1>4. Max({Len(content), IF s = <<>> THEN 0 ELSE p + Len(s)}) = L
  <2>1. PICK b : b = IF s = <<>> THEN 0 ELSE p + Len(s)
    OBVIOUS
  <2>2. b = (IF n = 0 THEN 0 ELSE p + n) /\ b \in Int /\ Len(content) \in Int
    BY <1>1, <1>2, <1>3, <2>1
  <2>3. Max({Len(content), b}) = IF Len(content) >= b THEN Len(content) ELSE b
    BY <2>2, MaxOfTwo
  <2>4. Max({Len(content), b}) = L
    BY <1>1, <1>2, <2>2, <2>3
  <2> QED
    BY <2>1, <2>4
<1>5. L \in Nat /\ L <= MaxLen /\ Len(content) <= L
  BY <1>1, <1>2, RoomBounds
<1>6. new = [k \in 1..L |-> IF k \in (p + 1)..(p + n) THEN s[k - p]
                            ELSE IF k <= Len(content) THEN content[k] ELSE Hole]
  BY <1>1, <1>4 DEF Overwritten
<1> HIDE DEF L
<1>7. \A k \in 1..L : new[k] = IF k \in (p + 1)..(p + n) THEN s[k - p]
                               ELSE IF k <= Len(content) THEN content[k] ELSE Hole
  BY <1>6
<1>8. ASSUME NEW k \in 1..L
      PROVE  (IF k \in (p + 1)..(p + n) THEN s[k - p]
              ELSE IF k <= Len(content) THEN content[k] ELSE Hole) \in Bytes
  <2>1. Hole \in Bytes
    BY DEF Hole, Bytes
  <2>2. k \in (p + 1)..(p + n) => k - p \in 1..n
    BY <1>1, <1>5
  <2>3. k <= Len(content) => k \in 1..Len(content)
    BY <1>2, <1>5
  <2> QED
    BY <1>2, <2>1, <2>2, <2>3
<1>9. new \in [1..L -> Bytes]
  BY <1>6, <1>8
<1>10. new \in Seq(Bytes) /\ Len(new) = L
  BY <1>5, <1>9, FcnIsSeq
<1>11. /\ n > 0 => p + n <= L
       /\ L <= Len(content) \/ (n > 0 /\ L = p + n)
  BY <1>1, <1>2 DEF L
<1>12. ASSUME NEW k \in 1..L
       PROVE  \/ k \in (p + 1)..(p + n) /\ new[k] = s[k - p]
              \/ k \notin (p + 1)..(p + n) /\ k \in 1..Len(content) /\ new[k] = content[k]
              \/ k \notin (p + 1)..(p + n) /\ k > Len(content) /\ new[k] = Hole
  BY <1>2, <1>5, <1>7
<1> QED
  BY <1>5, <1>10, <1>11, <1>12

(* What a file holds once the bytes s have been written at p.              *)
WrittenAt(p, n, s, new) ==
  /\ new \in Seq(Bytes) /\ Len(new) <= MaxLen /\ Len(content) <= Len(new)
  /\ n > 0 => p + n <= Len(new)
  /\ Len(new) <= Len(content) \/ (n > 0 /\ Len(new) = p + n)
  /\ \A k \in 1..Len(new) :
       \/ k \in (p + 1)..(p + n) /\ new[k] = s[k - p]
       \/ k \notin (p + 1)..(p + n) /\ k \in 1..Len(content) /\ new[k] = content[k]
       \/ k \notin (p + 1)..(p + n) /\ k > Len(content) /\ new[k] = Hole

LEMMA OverwrittenWritten ==
  ASSUME FileAssumption, TypeOK,
         NEW p \in 0..MaxLen, NEW n \in Nat, n <= Room(p),
         NEW s \in [1..n -> Bytes], NEW new, new = Overwritten(p, s)
  PROVE  WrittenAt(p, n, s, new)
  BY OverwrittenRight DEF WrittenAt

-----------------------------------------------------------------------------
(* The inductive invariant.                                                *)

Writing(t)    == me[t].pc \in {"w_seek", "w_write"}
Appending(t)  == Writing(t) /\ mode[me[t].h] = "append"

(* What thread t knows in its call.                                        *)
CallOK(t) ==
  /\ me[t].pc # "w_write" => me[t].written = 0
  /\ ~ At(t, "idle") =>
       /\ Open(me[t].h)
       /\ me[t].written <= me[t].req
       /\ build = "win32" => me[t].pc \in {"w_seek", "r_seek", "s_cur"}
       /\ me[t].len <= Len(content)
       /\ At(t, "s_set") => me[t].len <= me[t].ret /\ me[t].ret <= Len(content)
       /\ Appending(t) => me[t].req <= sent[me[t].h]

(* Where the descriptor stands when the call has it to itself.             *)
PosOK(t) ==
  me[t].h \notin shared =>
    /\ At(t, "w_write") /\ mode[me[t].h] # "append" =>
         pos[me[t].h] = me[t].off + me[t].written
    /\ At(t, "r_read") => pos[me[t].h] = me[t].off
    /\ At(t, "s_cur") => pos[me[t].h] = me[t].was
    /\ me[t].pc \in {"s_end", "s_set"} => me[t].off = me[t].was

(* The offset field of h, when w bytes of a write are not reported yet.    *)
Counts(h, w) ==
  IF h \in torn THEN build = "posix" /\ offset[h] > told[h] + w ELSE offset[h] = told[h] + w

ModeInv  == build = "win32" => \A h \in Handles : mode[h] # "append"
CallInv  == \A t \in Threads : CallOK(t)
AloneInv == \A t, u \in Threads :
              t # u /\ me[t].h = me[u].h /\ ~ At(t, "idle") /\ ~ At(u, "idle") => me[t].h \in shared
PosInv   == \A t \in Threads : PosOK(t)
CountInv ==
  /\ OffsetCounts
  /\ \A t \in Threads : ~ At(t, "idle") /\ me[t].h \notin shared => Counts(me[t].h, me[t].written)

(* The bytes of the file: at their offset, in the order of the handle,     *)
(* none that the handle has not been given, none behind what the write     *)
(* under way has taken, and what it has taken is there.                    *)
AtInv    == \A k \in DOMAIN content : content[k][1] = "at" => content[k][2] = k
OrderInv == \A j, k \in DOMAIN content :
              j < k /\ content[j][1] = content[k][1] /\ content[j][1] \in Handles =>
                content[j][2] < content[k][2]
SentInv  == \A k \in DOMAIN content : content[k][1] \in Handles => content[k][2] <= sent[content[k][1]]
TakenInv == \A t \in Threads, k \in DOMAIN content :
              Appending(t) /\ content[k][1] = me[t].h =>
                content[k][2] <= sent[me[t].h] - me[t].req + me[t].written
DoneOK(t) ==
  At(t, "w_write") /\ mode[me[t].h] # "append" =>
    \A i \in 1..me[t].written :
      /\ me[t].off + i \in DOMAIN content
      /\ content[me[t].off + i] = <<"at", me[t].off + i>>
DoneInv  == \A t \in Threads : DoneOK(t)
ByteInv  == shared = {} => AtInv /\ OrderInv /\ SentInv /\ TakenInv /\ DoneInv

HandleInv == TypeOK /\ ModeInv /\ CallInv /\ AloneInv /\ PosInv /\ CountInv
IInv      == HandleInv /\ ByteInv


-----------------------------------------------------------------------------
(* Steps of a thread in its call.                                          *)

(* Thread t takes a step of its call: it touches its own handle only, and  *)
(* the file does not get shorter.                                          *)
Acts(t) ==
  /\ t \in Threads /\ ~ At(t, "idle")
  /\ me'[t].h = me[t].h /\ \A u \in Threads \ {t} : me'[u] = me[u]
  /\ \A g \in Handles \ {me[t].h} :
       /\ pos'[g] = pos[g] /\ offset'[g] = offset[g] /\ told'[g] = told[g]
       /\ g \in torn' <=> g \in torn
  /\ Len(content) <= Len(content')
  /\ UNCHANGED <<build, mode, sent, shared>>

(* Such a step keeps the invariant of the handles if it does so for its    *)
(* own call and its own handle.                                            *)
LEMMA ActsKeep ==
  ASSUME HandleInv, NEW t, Acts(t), TypeOK', CallOK(t)', PosOK(t)',
         me[t].h \notin shared => Counts(me[t].h, me[t].written)'
  PROVE  HandleInv'
<1> DEFINE h == me[t].h
<1>1. /\ t \in Threads /\ h \in Handles /\ me'[t].h = h
      /\ \A u \in Threads : me[u] \in Frame /\ me'[u] \in Frame
  BY DEF Acts, HandleInv, TypeOK, Frame
<1>2. /\ build' = build /\ mode' = mode /\ sent' = sent /\ shared' = shared
      /\ Len(content) \in Nat /\ Len(content') \in Nat /\ Len(content) <= Len(content')
      /\ \A u \in Threads : u # t => me'[u] = me[u]
  BY DEF Acts, HandleInv, TypeOK
<1>3. ModeInv'
  BY <1>2 DEF HandleInv, ModeInv
<1>4. CallInv'
  <2> SUFFICES ASSUME NEW u \in Threads, u # t PROVE CallOK(u)'
    BY DEF CallInv
  <2>1. CallOK(u)
    BY DEF HandleInv, CallInv
  <2>2. me'[u] = me[u] /\ me[u] \in Frame
    BY <1>1, <1>2
  <2>3. me[u].len \in Int /\ me[u].ret \in Int
    BY <2>2 DEF Frame, HandleInv, TypeOK
  <2>4. (me[u].pc # "w_write" => me[u].written = 0)'
    BY <2>1, <2>2 DEF CallOK
  <2>5. CASE At(u, "idle")
    BY <2>2, <2>4, <2>5 DEF CallOK, At
  <2>6. CASE ~ At(u, "idle")
    <3>1. Open(me[u].h)' /\ (Appending(u) => me[u].req <= sent[me[u].h])'
      BY <1>2, <2>1, <2>2, <2>6 DEF CallOK, Open, Appending, Writing
    <3>2. (me[u].written <= me[u].req)' /\ (build = "win32" => me[u].pc \in {"w_seek", "r_seek", "s_cur"})'
      BY <1>2, <2>1, <2>2, <2>6 DEF CallOK
    <3>3. (me[u].len <= Len(content))'
      BY <1>2, <2>1, <2>2, <2>3, <2>6 DEF CallOK
    <3>4. (At(u, "s_set") => me[u].len <= me[u].ret /\ me[u].ret <= Len(content))'
      BY <1>2, <2>1, <2>2, <2>3, <2>6 DEF CallOK, At
    <3> QED
      BY <2>4, <3>1, <3>2, <3>3, <3>4 DEF CallOK
  <2> QED
    BY <2>5, <2>6
<1>5. ASSUME NEW u \in Threads, me'[u].h = h, u # t, ~ At(u, "idle")' PROVE h \in shared
  BY <1>1, <1>2, <1>5 DEF Acts, HandleInv, AloneInv, At
<1>6. AloneInv'
  BY <1>1, <1>2, <1>5 DEF HandleInv, AloneInv, At
<1>7. PosInv'
  <2> SUFFICES ASSUME NEW u \in Threads, u # t, me'[u].h \notin shared',
                      ~ At(u, "idle")'
               PROVE  PosOK(u)'
    BY DEF PosInv, PosOK, At
  <2>1. PosOK(u) /\ me'[u] = me[u] /\ me[u].h \in Handles /\ me[u].h # h
    BY <1>1, <1>2, <1>5 DEF HandleInv, PosInv, Frame
  <2>2. pos'[me[u].h] = pos[me[u].h]
    BY <2>1 DEF Acts
  <2> QED
    BY <1>2, <2>1, <2>2 DEF PosOK, At
<1>8. \A g \in Handles, w \in Nat : g # h => (Counts(g, w)' <=> Counts(g, w))
  BY <1>2 DEF Acts, Counts
<1>9. CountInv'
  <2>1. ASSUME NEW u \in Threads, ~ At(u, "idle")', me'[u].h \notin shared'
        PROVE  Counts(me[u].h, me[u].written)'
    <3>1. CASE u = t
      BY <1>1, <1>2, <2>1, <3>1
    <3>2. CASE u # t
      <4>1. me'[u] = me[u] /\ me[u].h \in Handles /\ me[u].h # h /\ me[u].written \in Nat
        BY <1>1, <1>2, <1>5, <2>1, <3>2, FrameTypes
      <4>2. Counts(me[u].h, me[u].written)
        BY <1>2, <2>1, <4>1 DEF HandleInv, CountInv, At
      <4> QED
        BY <1>8, <4>1, <4>2
    <3> QED
      BY <3>1, <3>2
  <2>2. ASSUME NEW g \in Handles, (Open(g) /\ ~ Busy(g) /\ g \notin shared)'
        PROVE  Counts(g, 0)'
    <3>1. CASE g = h
      <4>1. (me[t].written = 0)' /\ h \notin shared
        BY <1>1, <1>2, <2>2, <3>1 DEF Busy, At, CallOK
      <4> QED
        BY <1>1, <3>1, <4>1 DEF Counts
    <3>2. CASE g # h
      <4>1. Open(g) /\ ~ Busy(g) /\ g \notin shared
        BY <1>1, <1>2, <2>2, <3>2 DEF Busy, Open, At
      <4>2. offset[g] \in Nat /\ told[g] \in Nat
        BY DEF HandleInv, TypeOK
      <4>3. OffsetCounts
        BY DEF HandleInv, CountInv
      <4>4. Counts(g, 0)
        BY <4>1, <4>2, <4>3 DEF OffsetCounts, Counts
      <4> QED
        BY <1>8, <3>2, <4>4
    <3> QED
      BY <3>1, <3>2
  <2>3. OffsetCounts'
    <3>1. \A g \in Handles : offset'[g] \in Nat /\ told'[g] \in Nat
      BY DEF TypeOK
    <3> QED
      BY <2>2, <3>1 DEF OffsetCounts, Counts
  <2> QED
    BY <2>1, <2>3 DEF CountInv
<1> QED
  BY <1>3, <1>4, <1>6, <1>7, <1>9 DEF HandleInv


-----------------------------------------------------------------------------
(* Steps that write.                                                       *)

(* The file holds what it held, bytes at their offset, or holes.           *)
AtBytes ==
  \A k \in 1..Len(content') :
    \/ content'[k] = <<"at", k>>
    \/ k \in 1..Len(content) /\ content'[k] = content[k]
    \/ k \notin 1..Len(content) /\ content'[k] = Hole

(* After such a step every byte that a handle has appended is one that was *)
(* there before, at the same place.                                        *)
LEMMA AtBytesOld ==
  ASSUME TypeOK, TypeOK', AtBytes, AtInv, OrderInv, SentInv
  PROVE  /\ \A k \in DOMAIN content' : content'[k][1] \in Handles =>
              k \in DOMAIN content /\ content'[k] = content[k]
         /\ AtInv' /\ OrderInv'
<1>1. /\ Len(content) \in Nat /\ DOMAIN content = 1..Len(content)
      /\ Len(content') \in Nat /\ DOMAIN content' = 1..Len(content')
  BY DEF TypeOK
<1>2. "at" \notin Handles /\ "hole" \notin Handles /\ "at" # "hole"
  BY FileAssumption DEF FileAssumption
<1>3. Hole[1] = "hole" /\ \A k \in Int : <<"at", k>>[1] = "at" /\ <<"at", k>>[2] = k
  BY DEF Hole
<1>4. ASSUME NEW k \in DOMAIN content', content'[k][1] \in Handles
      PROVE  k \in DOMAIN content /\ content'[k] = content[k]
  BY <1>1, <1>2, <1>3, <1>4 DEF AtBytes
<1>5. AtInv'
  <2> SUFFICES ASSUME NEW k \in DOMAIN content', content'[k][1] = "at" PROVE content'[k][2] = k
    BY DEF AtInv
  <2> QED
    BY <1>1, <1>2, <1>3 DEF AtBytes, AtInv
<1>6. OrderInv'
  BY <1>4 DEF OrderInv
<1> QED
  BY <1>4, <1>5, <1>6

(* Bytes that were written at their offset stay there.                     *)
LEMMA AtBytesDone ==
  ASSUME TypeOK, TypeOK', AtBytes, Len(content) <= Len(content'),
         NEW k \in DOMAIN content, content[k] = <<"at", k>>
  PROVE  k \in DOMAIN content' /\ content'[k] = <<"at", k>>
<1>1. /\ Len(content) \in Nat /\ DOMAIN content = 1..Len(content)
      /\ Len(content') \in Nat /\ DOMAIN content' = 1..Len(content')
  BY DEF TypeOK
<1>2. k \in 1..Len(content')
  BY <1>1
<1> QED
  BY <1>1, <1>2 DEF AtBytes


(* A step that appends nothing keeps the invariant of the bytes if it does *)
(* so for what its own write has taken.                                    *)
LEMMA AtBytesKeep ==
  ASSUME HandleInv, TypeOK', ByteInv, NEW t, Acts(t), shared = {}, AtBytes, DoneOK(t)',
         Appending(t)' => /\ Appending(t) /\ me'[t].req = me[t].req
                          /\ me[t].written <= me'[t].written
  PROVE  ByteInv'
<1>1. TypeOK /\ AtInv /\ OrderInv /\ SentInv /\ TakenInv /\ DoneInv
  BY DEF HandleInv, ByteInv
<1>2. /\ \A k \in DOMAIN content' : content'[k][1] \in Handles =>
           k \in DOMAIN content /\ content'[k] = content[k]
      /\ AtInv' /\ OrderInv'
  BY <1>1, AtBytesOld
<1>3. /\ t \in Threads /\ mode' = mode /\ sent' = sent /\ me'[t].h = me[t].h
      /\ \A u \in Threads : u # t => me'[u] = me[u]
  BY DEF Acts
<1>4. SentInv'
  BY <1>1, <1>2, <1>3 DEF SentInv
<1>5. TakenInv'
  <2> SUFFICES ASSUME NEW u \in Threads, NEW k \in DOMAIN content',
                      Appending(u)', content'[k][1] = me'[u].h
               PROVE  content'[k][2] <= sent'[me'[u].h] - me'[u].req + me'[u].written
    BY DEF TakenInv
  <2>1. /\ me[u] \in Frame /\ me'[u] \in Frame /\ me'[u].h = me[u].h
        /\ Appending(u) /\ me'[u].req = me[u].req /\ me[u].written <= me'[u].written
    <3>1. me[u] \in Frame /\ me'[u] \in Frame
      BY <1>1 DEF TypeOK
    <3>2. CASE u = t
      BY <1>3, <3>1, <3>2
    <3>3. CASE u # t
      <4>1. me'[u] = me[u]
        BY <1>3, <3>3
      <4>2. me[u].written <= me[u].written
        BY <3>1, FrameTypes
      <4> QED
        BY <1>3, <3>1, <4>1, <4>2 DEF Appending, Writing
    <3> QED
      BY <3>2, <3>3
  <2>2. /\ me[u].h \in Handles /\ me[u].req \in Nat /\ me[u].written \in Nat
        /\ me'[u].written \in Nat
    BY <2>1, FrameTypes
  <2>3. k \in DOMAIN content /\ content'[k] = content[k] /\ content[k][1] = me[u].h
    BY <1>2, <2>1, <2>2
  <2>4. content[k][2] <= sent[me[u].h] - me[u].req + me[u].written
    BY <1>1, <2>1, <2>3 DEF TakenInv
  <2>5. content[k][2] \in Nat /\ sent[me[u].h] \in Nat
    BY <1>1, <2>2, <2>3 DEF TypeOK
  <2> QED
    BY <1>3, <2>1, <2>2, <2>3, <2>4, <2>5
<1>6. DoneInv'
  <2> SUFFICES ASSUME NEW u \in Threads, u # t, (At(u, "w_write") /\ mode[me[u].h] # "append")',
                      NEW i \in 1..me'[u].written
               PROVE  /\ me'[u].off + i \in DOMAIN content'
                      /\ content'[me'[u].off + i] = <<"at", me'[u].off + i>>
    BY DEF DoneInv, DoneOK
  <2>1. me'[u] = me[u] /\ DoneOK(u)
    BY <1>1, <1>3 DEF DoneInv
  <2>2. PICK k : k = me[u].off + i
    OBVIOUS
  <2>3. k \in DOMAIN content /\ content[k] = <<"at", k>>
    BY <1>3, <2>1, <2>2 DEF DoneOK, At
  <2>4. k \in DOMAIN content' /\ content'[k] = <<"at", k>>
    BY <1>1, <2>3, AtBytesDone DEF Acts
  <2> QED
    BY <2>1, <2>2, <2>4
<1> QED
  BY <1>2, <1>4, <1>5, <1>6 DEF ByteInv

(* A step of an appending write adds the next n bytes of its handle.       *)
Appends(t, n) ==
  /\ Len(content') = Len(content) + n
  /\ \A k \in 1..Len(content) : content'[k] = content[k]
  /\ \A k \in 1..Len(content') : k > Len(content) =>
       content'[k] = <<me[t].h, sent[me[t].h] - me[t].req + me[t].written + (k - Len(content))>>

LEMMA AppendKeep ==
  ASSUME HandleInv, TypeOK', ByteInv, NEW t, Acts(t), shared = {}, Appending(t),
         NEW n \in Nat, me[t].written + n <= me[t].req, Appends(t, n),
         Appending(t)' => /\ me'[t].req = me[t].req
                          /\ me'[t].written = me[t].written + n
  PROVE  ByteInv'
<1> DEFINE h == me[t].h
<1> DEFINE b == sent[h] - me[t].req + me[t].written
<1>1. TypeOK /\ AtInv /\ OrderInv /\ SentInv /\ TakenInv /\ DoneInv
  BY DEF HandleInv, ByteInv
<1>2. /\ t \in Threads /\ mode' = mode /\ sent' = sent /\ me'[t].h = h
      /\ \A u \in Threads : u # t => me'[u] = me[u]
  BY DEF Acts
<1>3. /\ me[t] \in Frame /\ h \in Handles /\ me[t].req \in Nat /\ me[t].written \in Nat
      /\ sent[h] \in Nat /\ me[t].req <= sent[h]
  <2>1. me[t] \in Frame /\ CallOK(t)
    BY <1>2 DEF HandleInv, TypeOK, CallInv
  <2>2. h \in Handles /\ me[t].req \in Nat /\ me[t].written \in Nat
    BY <2>1, FrameTypes
  <2>3. sent[h] \in Nat
    BY <1>1, <2>2 DEF TypeOK
  <2>4. ~ At(t, "idle")
    BY DEF Acts
  <2> QED
    BY <2>1, <2>2, <2>3, <2>4 DEF CallOK
<1>4. b \in Nat /\ b + n <= sent[h]
  BY <1>3
<1> HIDE DEF b
<1>5. /\ Len(content) \in Nat /\ DOMAIN content = 1..Len(content)
      /\ Len(content') = Len(content) + n /\ DOMAIN content' = 1..(Len(content) + n)
  BY <1>1 DEF TypeOK, Appends
<1>6. \A k \in DOMAIN content' :
        \/ k \in DOMAIN content /\ content'[k] = content[k]
        \/ /\ k > Len(content) /\ k - Len(content) \in 1..n
           /\ content'[k] = <<h, b + (k - Len(content))>>
  <2> SUFFICES ASSUME NEW k \in DOMAIN content'
               PROVE  \/ k \in DOMAIN content /\ content'[k] = content[k]
                      \/ /\ k > Len(content) /\ k - Len(content) \in 1..n
                         /\ content'[k] = <<h, b + (k - Len(content))>>
    OBVIOUS
  <2>1. CASE k <= Len(content)
    BY <1>5, <2>1 DEF Appends
  <2>2. CASE k > Len(content)
    <3>1. k - Len(content) \in 1..n
      BY <1>5, <2>2
    <3>2. content'[k] = <<h, b + (k - Len(content))>>
      BY <1>5, <2>2 DEF Appends, b
    <3> QED
      BY <2>2, <3>1, <3>2
  <2> QED
    BY <1>5, <2>1, <2>2
<1>7. \A k \in DOMAIN content : content[k][2] \in Nat /\ (content[k][1] = h => content[k][2] <= b)
  BY <1>1, <1>2 DEF TypeOK, TakenInv, b
<1>8. h # "at"
  BY <1>3, FileAssumption DEF FileAssumption
<1>9. AtInv'
  BY <1>1, <1>6, <1>8 DEF AtInv
<1>10. OrderInv'
  <2> SUFFICES ASSUME NEW j \in DOMAIN content', NEW k \in DOMAIN content', j < k,
                      content'[j][1] = content'[k][1], content'[j][1] \in Handles
               PROVE  content'[j][2] < content'[k][2]
    BY DEF OrderInv
  <2>1. CASE k \in DOMAIN content /\ content'[k] = content[k]
    <3>1. j \in DOMAIN content /\ content'[j] = content[j]
      BY <1>5, <1>6, <2>1
    <3> QED
      BY <1>1, <2>1, <3>1 DEF OrderInv
  <2>2. CASE /\ k > Len(content) /\ k - Len(content) \in 1..n
             /\ content'[k] = <<h, b + (k - Len(content))>>
    <3>1. content'[k][1] = h /\ content'[k][2] = b + (k - Len(content))
      BY <2>2
    <3>2. CASE j \in DOMAIN content /\ content'[j] = content[j]
      <4>1. content[j][2] <= b /\ content[j][2] \in Nat
        BY <1>7, <3>1, <3>2
      <4> QED
        BY <1>4, <2>2, <3>1, <3>2, <4>1
    <3>3. CASE /\ j > Len(content) /\ j - Len(content) \in 1..n
               /\ content'[j] = <<h, b + (j - Len(content))>>
      <4>1. content'[j][2] = b + (j - Len(content))
        BY <3>3
      <4>2. j \in Nat /\ k \in Nat /\ b + (j - Len(content)) < b + (k - Len(content))
        BY <1>4, <1>5
      <4> QED
        BY <3>1, <4>1, <4>2
    <3> QED
      BY <1>6, <3>2, <3>3
  <2> QED
    BY <1>6, <2>1, <2>2
<1>11. SentInv'
  <2> SUFFICES ASSUME NEW k \in DOMAIN content', content'[k][1] \in Handles
               PROVE  content'[k][2] <= sent[content'[k][1]]
    BY <1>2 DEF SentInv
  <2>1. CASE k \in DOMAIN content /\ content'[k] = content[k]
    BY <1>1, <2>1 DEF SentInv
  <2>2. CASE /\ k > Len(content) /\ k - Len(content) \in 1..n
             /\ content'[k] = <<h, b + (k - Len(content))>>
    BY <1>3, <1>4, <2>2
  <2> QED
    BY <1>6, <2>1, <2>2
<1>12. TakenInv'
  <2> SUFFICES ASSUME NEW u \in Threads, NEW k \in DOMAIN content',
                      Appending(u)', content'[k][1] = me'[u].h
               PROVE  content'[k][2] <= sent'[me'[u].h] - me'[u].req + me'[u].written
    BY DEF TakenInv
  <2>1. CASE u = t
    <3>1. content'[k][2] <= b + n
      <4>1. CASE k \in DOMAIN content /\ content'[k] = content[k]
        BY <1>2, <1>4, <1>7, <2>1, <4>1
      <4>2. CASE /\ k > Len(content) /\ k - Len(content) \in 1..n
                 /\ content'[k] = <<h, b + (k - Len(content))>>
        BY <1>4, <4>2
      <4> QED
        BY <1>6, <4>1, <4>2
    <3>2. b + n = sent'[me'[u].h] - me'[u].req + me'[u].written
      BY <1>2, <1>3, <2>1 DEF b
    <3> QED
      BY <3>1, <3>2
  <2>2. CASE u # t
    <3>1. me'[u] = me[u] /\ Appending(u)
      BY <1>2, <2>2 DEF Appending, Writing
    <3>2. me[u].h # h
      BY <1>2, <2>2, <3>1 DEF HandleInv, AloneInv, Appending, Writing, At, Acts
    <3>3. k \in DOMAIN content /\ content'[k] = content[k]
      BY <1>6, <3>1, <3>2
    <3> QED
      BY <1>1, <1>2, <3>1, <3>3 DEF TakenInv
  <2> QED
    BY <2>1, <2>2
<1>13. DoneInv'
  <2> SUFFICES ASSUME NEW u \in Threads, (At(u, "w_write") /\ mode[me[u].h] # "append")',
                      NEW i \in 1..me'[u].written
               PROVE  /\ me'[u].off + i \in DOMAIN content'
                      /\ content'[me'[u].off + i] = <<"at", me'[u].off + i>>
    BY DEF DoneInv, DoneOK
  <2>1. u # t
    BY <1>2 DEF Appending
  <2>2. me'[u] = me[u] /\ DoneOK(u)
    BY <1>1, <1>2, <2>1 DEF DoneInv
  <2>3. PICK k : k = me[u].off + i
    OBVIOUS
  <2>4. k \in DOMAIN content /\ content[k] = <<"at", k>>
    BY <1>2, <2>2, <2>3 DEF DoneOK, At
  <2>5. k \in DOMAIN content' /\ content'[k] = content[k]
    BY <1>5, <2>4 DEF Appends
  <2> QED
    BY <2>2, <2>3, <2>4, <2>5
<1> QED
  BY <1>9, <1>10, <1>11, <1>12, <1>13 DEF ByteInv


-----------------------------------------------------------------------------
(* The steps of a call, one by one.                                        *)

LEMMA IdleFrame ==
  ASSUME NEW h \in Handles, NEW r \in -1..MaxLen
  PROVE  /\ Idle(h, r) \in Frame /\ Idle(h, r).pc = "idle" /\ Idle(h, r).h = h
         /\ Idle(h, r).written = 0 /\ Idle(h, r).ret = r
<1>1. MaxLen \in Nat /\ MaxSize \in Nat
  BY FileAssumption DEF FileAssumption
<1> QED
  BY <1>1 DEF Idle, Frame

(* What thread t is in.                                                    *)
LEMMA InCall ==
  ASSUME HandleInv, NEW t \in Threads, ~ At(t, "idle")
  PROVE  /\ me[t] \in Frame /\ me[t].h \in Handles /\ CallOK(t) /\ PosOK(t)
         /\ me[t].h \notin shared => Counts(me[t].h, me[t].written)
         /\ {me[t].off, me[t].req, me[t].written, me[t].was, me[t].len} \subseteq Nat
         /\ me[t].off <= MaxLen /\ me[t].req <= MaxSize /\ me[t].written <= me[t].req
         /\ MaxLen \in Nat /\ MaxSize \in Nat /\ MaxSize <= MaxLen /\ me[t].ret \in Int
         /\ me[t].ret <= MaxLen
<1>1. me[t] \in Frame /\ CallOK(t) /\ PosOK(t)
  BY DEF HandleInv, TypeOK, CallInv, PosInv
<1>2. me[t].h \notin shared => Counts(me[t].h, me[t].written)
  BY DEF HandleInv, CountInv
<1>3. me[t].written <= me[t].req
  BY <1>1 DEF CallOK
<1> QED
  BY <1>1, <1>2, <1>3, FrameTypes

(* A call that returns leaves nothing behind.                              *)
LEMMA ReturnFacts ==
  ASSUME HandleInv, NEW t \in Threads, ~ At(t, "idle"), NEW r \in -1..MaxLen, Return(t, r)
  PROVE  /\ me' \in [Threads -> Frame] /\ me'[t].pc = "idle" /\ me'[t].h = me[t].h
         /\ me'[t].written = 0 /\ me'[t].ret = r
         /\ \A u \in Threads \ {t} : me'[u] = me[u]
         /\ CallOK(t)' /\ PosOK(t)' /\ DoneOK(t)' /\ ~ Appending(t)'
<1>1. me \in [Threads -> Frame] /\ me[t].h \in Handles
  BY InCall DEF HandleInv, TypeOK
<1>2. me' = [me EXCEPT ![t] = Idle(me[t].h, r)]
  BY DEF Return, Set
<1>3. me'[t] = Idle(me[t].h, r) /\ \A u \in Threads \ {t} : me'[u] = me[u]
  BY <1>1, <1>2
<1>4. /\ me' \in [Threads -> Frame] /\ me'[t].pc = "idle" /\ me'[t].h = me[t].h
      /\ me'[t].written = 0 /\ me'[t].ret = r
  BY <1>1, <1>2, <1>3, IdleFrame
<1> QED
  BY <1>3, <1>4 DEF CallOK, PosOK, DoneOK, Appending, Writing, At

LEMMA TypeKept ==
  ASSUME TypeOK, build' = build, mode' = mode, sent' = sent, shared' = shared,
         calls' = calls, me' \in [Threads -> Frame],
         content' \in Seq(Bytes), Len(content') <= MaxLen,
         pos' \in [Handles -> 0..MaxLen], offset' \in [Handles -> Nat],
         told' \in [Handles -> Nat], torn' \subseteq Handles, stray' \in BOOLEAN
  PROVE  TypeOK'
BY DEF TypeOK, Bytes

(* A step that leaves the file alone.                                      *)
LEMMA SameFile ==
  ASSUME IInv, NEW t, Acts(t), content' = content, TypeOK', CallOK(t)', PosOK(t)',
         me[t].h \notin shared => Counts(me[t].h, me[t].written)', DoneOK(t)',
         Appending(t)' => /\ Appending(t) /\ me'[t].req = me[t].req
                          /\ me[t].written <= me'[t].written
  PROVE  IInv'
<1>1. HandleInv'
  BY ActsKeep DEF IInv
<1>2. AtBytes
  <2>1. Len(content) \in Nat
    BY DEF IInv, HandleInv, TypeOK
  <2> QED
    BY <2>1 DEF AtBytes
<1>3. shared' = shared
  BY DEF Acts
<1>4. ByteInv'
  <2>1. CASE shared = {}
    BY <1>2, <2>1, AtBytesKeep DEF IInv
  <2>2. CASE shared # {}
    BY <1>3, <2>2 DEF ByteInv
  <2> QED
    BY <2>1, <2>2
<1> QED
  BY <1>1, <1>4 DEF IInv

(* A system call that fails.                                               *)
LEMMA FailStep ==
  ASSUME IInv, NEW t \in Threads, ~ At(t, "idle"), Fail(t)
  PROVE  IInv'
<1> DEFINE h == me[t].h
<1>1. HandleInv /\ TypeOK
  BY DEF IInv, HandleInv
<1>2. /\ h \in Handles /\ CallOK(t) /\ MaxLen \in Nat /\ me[t].written \in Nat
      /\ h \notin shared => Counts(h, me[t].written)
  BY <1>1, InCall
<1>3. Return(t, -1) /\ -1 \in -1..MaxLen
  BY <1>2 DEF Fail
<1>4. /\ me' \in [Threads -> Frame] /\ me'[t].h = h /\ me'[t].written = 0
      /\ \A u \in Threads \ {t} : me'[u] = me[u]
      /\ CallOK(t)' /\ PosOK(t)' /\ DoneOK(t)' /\ ~ Appending(t)'
  BY <1>1, <1>3, ReturnFacts
<1>5. /\ build' = build /\ content' = content /\ mode' = mode /\ pos' = pos /\ offset' = offset
      /\ calls' = calls /\ sent' = sent /\ told' = told /\ shared' = shared /\ stray' = stray
      /\ torn' = IF me[t].written > 0 THEN torn \cup {h} ELSE torn
  BY DEF Fail, kernel
<1>6. TypeOK'
  BY <1>1, <1>2, <1>4, <1>5 DEF TypeOK
<1>7. Acts(t)
  <2>1. Len(content) <= Len(content')
    BY <1>1, <1>5 DEF TypeOK
  <2> QED
    BY <1>4, <1>5, <2>1 DEF Acts
<1>8. ASSUME h \notin shared PROVE Counts(me[t].h, me[t].written)'
  <2>1. offset[h] \in Nat /\ told[h] \in Nat
    BY <1>1, <1>2 DEF TypeOK
  <2>2. me[t].written > 0 => build = "posix"
    <3>1. me[t].written > 0 => At(t, "w_write")
      BY <1>2 DEF CallOK, At
    <3>2. At(t, "w_write") => build # "win32"
      BY <1>2 DEF CallOK, At
    <3>3. build \in {"posix", "win32"}
      BY <1>1, FileAssumption DEF TypeOK, FileAssumption
    <3> QED
      BY <3>1, <3>2, <3>3
  <2>3. Counts(h, me[t].written)
    BY <1>2, <1>8
  <2>4. IF h \in torn' THEN build' = "posix" /\ offset'[h] > told'[h] + 0 ELSE offset'[h] = told'[h] + 0
    BY <1>2, <1>5, <2>1, <2>2, <2>3 DEF Counts
  <2> QED
    BY <1>4, <2>4 DEF Counts
<1> QED
  BY <1>4, <1>5, <1>6, <1>7, <1>8, SameFile


LEMMA MoveFacts ==
  ASSUME HandleInv, NEW t \in Threads, NEW f \in Frame, f.h = me[t].h, Set(t, f)
  PROVE  /\ me' \in [Threads -> Frame] /\ me'[t] = f /\ me'[t].h = me[t].h
         /\ \A u \in Threads \ {t} : me'[u] = me[u]
<1>1. me \in [Threads -> Frame] /\ me' = [me EXCEPT ![t] = f]
  BY DEF HandleInv, TypeOK, Set
<1> QED
  BY <1>1

(* lseek before a write or a read.                                         *)
LEMMA SeekStep ==
  ASSUME IInv, NEW t \in Threads, NEW from, NEW to, Seek(t, from, to),
         \/ from = "w_seek" /\ to = "w_write"
         \/ from = "r_seek" /\ to = "r_read"
  PROVE  IInv'
<1> DEFINE h == me[t].h
<1>0. At(t, from) /\ build = "posix" /\ ~ At(t, "idle")
  BY DEF Seek, At
<1>1. HandleInv /\ TypeOK
  BY DEF IInv, HandleInv
<1>2. /\ me[t] \in Frame /\ h \in Handles /\ CallOK(t) /\ me[t].written = 0
      /\ h \notin shared => Counts(h, me[t].written)
      /\ me[t].off \in Nat /\ me[t].off <= MaxLen /\ MaxLen \in Nat
  BY <1>0, <1>1, InCall DEF CallOK, At
<1>3. CASE Fail(t)
  BY <1>0, <1>3, FailStep
<1>4. CASE /\ pos' = [pos EXCEPT ![h] = me[t].off]
           /\ Set(t, [me[t] EXCEPT !.pc = to])
           /\ UNCHANGED <<build, content, mode, offset, calls, ghosts>>
  <2>1. PICK f : f = [me[t] EXCEPT !.pc = to]
    OBVIOUS
  <2>2. /\ f \in Frame /\ f.h = h /\ f.pc = to /\ f.off = me[t].off /\ f.req = me[t].req
        /\ f.written = 0 /\ f.was = me[t].was /\ f.len = me[t].len
    BY <1>2, <2>1 DEF Frame
  <2>3. /\ me' \in [Threads -> Frame] /\ me'[t] = f /\ me'[t].h = h
        /\ \A u \in Threads \ {t} : me'[u] = me[u]
    BY <1>1, <1>4, <2>1, <2>2, MoveFacts
  <2>4. /\ build' = build /\ content' = content /\ mode' = mode /\ offset' = offset
        /\ calls' = calls /\ sent' = sent /\ told' = told /\ torn' = torn
        /\ shared' = shared /\ stray' = stray
    BY <1>4 DEF ghosts
  <2>5. /\ pos' \in [Handles -> 0..MaxLen] /\ pos'[h] = me[t].off
        /\ \A g \in Handles \ {h} : pos'[g] = pos[g]
    BY <1>1, <1>2, <1>4 DEF TypeOK
  <2>6. TypeOK'
    BY <1>1, <2>3, <2>4, <2>5 DEF TypeOK
  <2>7. Acts(t)
    <3>1. Len(content) <= Len(content')
      BY <1>1, <2>4 DEF TypeOK
    <3> QED
      BY <1>0, <2>3, <2>4, <2>5, <3>1 DEF Acts
  <2>8. /\ Writing(t)' <=> Writing(t)
        /\ Appending(t)' <=> Appending(t)
    BY <1>0, <2>2, <2>3, <2>4 DEF Writing, Appending, At
  <2>9. CallOK(t)'
    BY <1>0, <1>2, <2>2, <2>3, <2>4, <2>8 DEF CallOK, At, Open
  <2>10. PosOK(t)'
    BY <1>2, <2>2, <2>3, <2>5 DEF PosOK, At
  <2>11. DoneOK(t)'
    BY <2>2, <2>3 DEF DoneOK
  <2>12. h \notin shared => Counts(me[t].h, me[t].written)'
    BY <1>2, <2>2, <2>3, <2>4 DEF Counts
  <2>13. Appending(t)' => /\ Appending(t) /\ me'[t].req = me[t].req
                          /\ me[t].written <= me'[t].written
    BY <1>2, <2>2, <2>3, <2>8
  <2> QED
    BY <2>4, <2>6, <2>7, <2>9, <2>10, <2>11, <2>12, <2>13, SameFile
<1> QED
  BY <1>3, <1>4 DEF Seek

(* A call that returns r, has told of n bytes and counted them, and has    *)
(* left the file alone.                                                    *)
LEMMA ReturnStep ==
  ASSUME IInv, NEW t \in Threads, ~ At(t, "idle"), ~ At(t, "w_write"),
         NEW r \in -1..MaxLen, Return(t, r), NEW n \in Nat, content' = content,
         pos' \in [Handles -> 0..MaxLen],
         \A g \in Handles \ {me[t].h} : pos'[g] = pos[g],
         offset' = [offset EXCEPT ![me[t].h] = @ + n],
         told' = [told EXCEPT ![me[t].h] = @ + n],
         UNCHANGED <<build, mode, calls, sent, torn, shared>>, stray' \in BOOLEAN
  PROVE  IInv'
<1> DEFINE h == me[t].h
<1>1. HandleInv /\ TypeOK
  BY DEF IInv, HandleInv
<1>2. /\ h \in Handles /\ CallOK(t) /\ me[t].written = 0
      /\ h \notin shared => Counts(h, me[t].written)
  BY <1>1, InCall DEF CallOK, At
<1>3. /\ me' \in [Threads -> Frame] /\ me'[t].h = h /\ me'[t].written = 0
      /\ \A u \in Threads \ {t} : me'[u] = me[u]
      /\ CallOK(t)' /\ PosOK(t)' /\ DoneOK(t)' /\ ~ Appending(t)'
  BY <1>1, ReturnFacts
<1>4. /\ offset \in [Handles -> Nat] /\ told \in [Handles -> Nat]
  BY <1>1 DEF TypeOK
<1>5. /\ offset' \in [Handles -> Nat] /\ told' \in [Handles -> Nat]
      /\ offset'[h] = offset[h] + n /\ told'[h] = told[h] + n
      /\ \A g \in Handles \ {h} : offset'[g] = offset[g] /\ told'[g] = told[g]
  BY <1>2, <1>4
<1>6. TypeOK'
  <2>1. content' \in Seq(Bytes) /\ Len(content') <= MaxLen /\ torn' \subseteq Handles
    BY <1>1 DEF TypeOK, Bytes
  <2> QED
    BY <1>1, <1>3, <1>5, <2>1, TypeKept
<1>7. Acts(t)
  <2>1. Len(content) <= Len(content')
    BY <1>1 DEF TypeOK
  <2> QED
    BY <1>3, <1>5, <2>1 DEF Acts
<1>8. ASSUME h \notin shared PROVE Counts(me[t].h, me[t].written)'
  <2>1. Counts(h, 0)
    BY <1>2, <1>8
  <2>2. offset[h] \in Nat /\ told[h] \in Nat
    BY <1>2, <1>4
  <2>3. IF h \in torn THEN build = "posix" /\ offset'[h] > told'[h] + 0 ELSE offset'[h] = told'[h] + 0
    BY <1>5, <2>1, <2>2 DEF Counts
  <2> QED
    BY <1>3, <2>3 DEF Counts
<1> QED
  BY <1>3, <1>6, <1>7, <1>8, SameFile


(* A size that is added to an entry of a function.                         *)
LEMMA AddNothing ==
  ASSUME NEW f \in [Handles -> Nat], NEW h \in Handles
  PROVE  f = [f EXCEPT ![h] = @ + 0]
OBVIOUS

LEMMA PosMoves ==
  ASSUME TypeOK, NEW h \in Handles, NEW p \in Nat, p <= MaxLen, pos' = [pos EXCEPT ![h] = p]
  PROVE  /\ pos' \in [Handles -> 0..MaxLen] /\ pos'[h] = p
         /\ \A g \in Handles \ {h} : pos'[g] = pos[g]
<1>1. MaxLen \in Nat /\ p \in 0..MaxLen
  BY FileAssumption DEF FileAssumption
<1> QED
  BY <1>1 DEF TypeOK

(* The read(2) of spr_file_read.                                           *)
LEMMA ReadStep ==
  ASSUME IInv, NEW t \in Threads, read_bytes(t)
  PROVE  IInv'
<1> DEFINE h == me[t].h
<1>0. At(t, "r_read") /\ ~ At(t, "idle") /\ ~ At(t, "w_write")
  BY DEF read_bytes, At
<1>1. HandleInv /\ TypeOK
  BY DEF IInv, HandleInv
<1>2. /\ h \in Handles /\ me[t].req \in Nat /\ me[t].req <= MaxLen /\ MaxLen \in Nat
  <2>1. h \in Handles /\ me[t].req \in Nat /\ me[t].req <= MaxSize
        /\ MaxSize \in Nat /\ MaxLen \in Nat /\ MaxSize <= MaxLen
    BY <1>0, <1>1, InCall
  <2> QED
    BY <2>1
<1>3. pos[h] \in Nat /\ pos[h] <= MaxLen /\ Len(content) \in Nat /\ Len(content) <= MaxLen
  BY <1>1, <1>2 DEF TypeOK
<1>4. CASE Fail(t)
  BY <1>0, <1>4, FailStep
<1>5. CASE ~ Fail(t)
  <2>1. PICK n \in Transfers(me[t].req, Len(content) - Min({pos[h], Len(content)})) \cup
                     IF pos[h] >= Len(content) THEN {0} ELSE {} :
          /\ pos' = [pos EXCEPT ![h] = @ + n]
          /\ offset' = [offset EXCEPT ![h] = @ + n]
          /\ Return(t, n) /\ Tell(h, n)
    BY <1>5 DEF read_bytes
  <2>2. UNCHANGED <<build, content, mode, calls, sent, torn, shared, stray>>
    BY <1>5 DEF read_bytes
  <2>3. PICK m : m = Min({pos[h], Len(content)})
    OBVIOUS
  <2>4. m = IF pos[h] <= Len(content) THEN pos[h] ELSE Len(content)
    BY <1>3, <2>3, MinOfTwo
  <2>5. Len(content) - m \in Nat
    BY <1>3, <2>4
  <2>6. n \in Nat /\ n <= me[t].req /\ pos[h] + n <= MaxLen
    <3>1. CASE n \in Transfers(me[t].req, Len(content) - m)
      <4>1. n \in Nat /\ n <= me[t].req /\ n <= Len(content) - m
        BY <1>2, <2>5, <3>1, TransferBounds
      <4> QED
        BY <1>2, <1>3, <2>4, <4>1
    <3>2. CASE n = 0
      BY <1>2, <1>3, <3>2
    <3> QED
      BY <2>1, <2>3, <3>1, <3>2
  <2>7. pos' = [pos EXCEPT ![h] = pos[h] + n] /\ pos[h] + n \in Nat
    BY <1>3, <2>1, <2>6
  <2>8. pos' \in [Handles -> 0..MaxLen] /\ \A g \in Handles \ {h} : pos'[g] = pos[g]
    BY <1>1, <1>2, <2>6, <2>7, PosMoves
  <2>9. n \in -1..MaxLen
    BY <1>2, <2>6
  <2>10. stray' \in BOOLEAN
    BY <1>1, <2>2 DEF TypeOK
  <2> QED
    BY <1>0, <2>1, <2>2, <2>6, <2>8, <2>9, <2>10, ReturnStep DEF Tell
<1> QED
  BY <1>4, <1>5

(* A call that returns without having transferred anything.                *)
LEMMA QuietReturn ==
  ASSUME IInv, NEW t \in Threads, ~ At(t, "idle"), ~ At(t, "w_write"),
         NEW r \in -1..MaxLen, Return(t, r), pos' \in [Handles -> 0..MaxLen],
         \A g \in Handles \ {me[t].h} : pos'[g] = pos[g],
         UNCHANGED <<build, content, mode, calls, offset, sent, told, torn, shared, stray>>
  PROVE  IInv'
<1>1. TypeOK /\ me[t].h \in Handles
  BY InCall DEF IInv, HandleInv
<1>2. /\ offset' = [offset EXCEPT ![me[t].h] = @ + 0]
      /\ told' = [told EXCEPT ![me[t].h] = @ + 0]
  BY <1>1, AddNothing DEF TypeOK
<1>3. stray' \in BOOLEAN
  BY <1>1 DEF TypeOK
<1>4. 0 \in Nat /\ UNCHANGED <<build, mode, calls, sent, torn, shared>> /\ content' = content
  OBVIOUS
<1> QED
  BY <1>2, <1>3, <1>4, ReturnStep

(* The three lseeks of spr_file_size.                                      *)
LEMMA SizeCurStep ==
  ASSUME IInv, NEW t \in Threads, size_cur(t)
  PROVE  IInv'
<1> DEFINE h == me[t].h
<1>0. At(t, "s_cur") /\ build = "posix" /\ ~ At(t, "idle")
  BY DEF size_cur, At
<1>1. HandleInv /\ TypeOK
  BY DEF IInv, HandleInv
<1>2. /\ me[t] \in Frame /\ h \in Handles /\ CallOK(t) /\ PosOK(t) /\ me[t].written = 0
      /\ h \notin shared => Counts(h, me[t].written)
  BY <1>0, <1>1, InCall DEF CallOK, At
<1>3. CASE Fail(t)
  BY <1>0, <1>3, FailStep
<1>4. CASE /\ Set(t, [me[t] EXCEPT !.pc = "s_end", !.off = pos[h]])
           /\ UNCHANGED <<build, kernel, offset, calls, ghosts>>
  <2>1. PICK f : f = [me[t] EXCEPT !.pc = "s_end", !.off = pos[h]]
    OBVIOUS
  <2>2. pos[h] \in 0..MaxLen
    BY <1>1, <1>2 DEF TypeOK
  <2>3. /\ f \in Frame /\ f.h = h /\ f.pc = "s_end" /\ f.off = pos[h] /\ f.req = me[t].req
        /\ f.written = 0 /\ f.was = me[t].was /\ f.len = me[t].len
    BY <1>2, <2>1, <2>2 DEF Frame
  <2>4. /\ me' \in [Threads -> Frame] /\ me'[t] = f /\ me'[t].h = h
        /\ \A u \in Threads \ {t} : me'[u] = me[u]
    BY <1>1, <1>4, <2>1, <2>3, MoveFacts
  <2>5. /\ build' = build /\ content' = content /\ mode' = mode /\ pos' = pos /\ offset' = offset
        /\ calls' = calls /\ sent' = sent /\ told' = told /\ torn' = torn
        /\ shared' = shared /\ stray' = stray
    BY <1>4 DEF kernel, ghosts
  <2>6. TypeOK'
    BY <1>1, <2>4, <2>5 DEF TypeOK
  <2>7. Acts(t)
    <3>1. Len(content) <= Len(content')
      BY <1>1, <2>5 DEF TypeOK
    <3> QED
      BY <1>0, <2>4, <2>5, <3>1 DEF Acts
  <2>8. ~ Appending(t)' /\ DoneOK(t)'
    BY <2>3, <2>4 DEF Writing, Appending, DoneOK, At
  <2>9. CallOK(t)'
    BY <1>0, <1>2, <2>3, <2>4, <2>5, <2>8 DEF CallOK, At, Open
  <2>10. PosOK(t)'
    BY <1>0, <1>2, <2>3, <2>4, <2>5 DEF PosOK, At
  <2>11. h \notin shared => Counts(me[t].h, me[t].written)'
    BY <1>2, <2>3, <2>4, <2>5 DEF Counts
  <2> QED
    BY <2>5, <2>6, <2>7, <2>8, <2>9, <2>10, <2>11, SameFile
<1> QED
  BY <1>3, <1>4 DEF size_cur

LEMMA SizeEndStep ==
  ASSUME IInv, NEW t \in Threads, size_end(t)
  PROVE  IInv'
<1> DEFINE h == me[t].h
<1>0. At(t, "s_end") /\ build = "posix" /\ ~ At(t, "idle")
  BY DEF size_end, At
<1>1. HandleInv /\ TypeOK
  BY DEF IInv, HandleInv
<1>2. /\ me[t] \in Frame /\ h \in Handles /\ CallOK(t) /\ PosOK(t) /\ me[t].written = 0
      /\ h \notin shared => Counts(h, me[t].written)
      /\ me[t].len \in Nat /\ me[t].len <= Len(content)
  BY <1>0, <1>1, InCall DEF CallOK, At
<1>3. CASE Fail(t)
  BY <1>0, <1>3, FailStep
<1>4. CASE /\ pos' = [pos EXCEPT ![h] = Len(content)]
           /\ Set(t, [me[t] EXCEPT !.pc = "s_set", !.ret = Len(content)])
           /\ UNCHANGED <<build, content, mode, offset, calls, ghosts>>
  <2>1. PICK f : f = [me[t] EXCEPT !.pc = "s_set", !.ret = Len(content)]
    OBVIOUS
  <2>2. Len(content) \in Nat /\ Len(content) <= MaxLen /\ Len(content) \in -1..MaxLen
    BY <1>1, FileAssumption DEF TypeOK, FileAssumption
  <2>3. /\ f \in Frame /\ f.h = h /\ f.pc = "s_set" /\ f.off = me[t].off /\ f.req = me[t].req
        /\ f.written = 0 /\ f.was = me[t].was /\ f.len = me[t].len /\ f.ret = Len(content)
    BY <1>2, <2>1, <2>2 DEF Frame
  <2>4. /\ me' \in [Threads -> Frame] /\ me'[t] = f /\ me'[t].h = h
        /\ \A u \in Threads \ {t} : me'[u] = me[u]
    BY <1>1, <1>4, <2>1, <2>3, MoveFacts
  <2>5. /\ build' = build /\ content' = content /\ mode' = mode /\ offset' = offset
        /\ calls' = calls /\ sent' = sent /\ told' = told /\ torn' = torn
        /\ shared' = shared /\ stray' = stray
    BY <1>4 DEF ghosts
  <2>6. pos' \in [Handles -> 0..MaxLen] /\ \A g \in Handles \ {h} : pos'[g] = pos[g]
    BY <1>1, <1>2, <1>4, <2>2, PosMoves
  <2>7. TypeOK'
    BY <1>1, <2>4, <2>5, <2>6 DEF TypeOK
  <2>8. Acts(t)
    <3>1. Len(content) <= Len(content')
      BY <1>1, <2>5 DEF TypeOK
    <3> QED
      BY <1>0, <2>4, <2>5, <2>6, <3>1 DEF Acts
  <2>9. ~ Appending(t)' /\ DoneOK(t)'
    BY <2>3, <2>4 DEF Writing, Appending, DoneOK, At
  <2>10. CallOK(t)'
    <3>1. Len(content') <= Len(content')
      BY <2>2, <2>5
    <3> QED
      BY <1>0, <1>2, <2>3, <2>4, <2>5, <2>9, <3>1 DEF CallOK, At, Open
  <2>11. PosOK(t)'
    BY <1>0, <1>2, <2>3, <2>4, <2>5 DEF PosOK, At
  <2>12. h \notin shared => Counts(me[t].h, me[t].written)'
    BY <1>2, <2>3, <2>4, <2>5 DEF Counts
  <2> QED
    BY <2>5, <2>7, <2>8, <2>9, <2>10, <2>11, <2>12, SameFile
<1> QED
  BY <1>3, <1>4 DEF size_end


LEMMA SizeSetStep ==
  ASSUME IInv, NEW t \in Threads, size_set(t)
  PROVE  IInv'
<1> DEFINE h == me[t].h
<1>0. At(t, "s_set") /\ ~ At(t, "idle") /\ ~ At(t, "w_write")
  BY DEF size_set, At
<1>1. HandleInv /\ TypeOK
  BY DEF IInv, HandleInv
<1>2. /\ h \in Handles /\ CallOK(t) /\ me[t].off \in Nat /\ me[t].off <= MaxLen
      /\ me[t].len \in Nat /\ me[t].ret \in Int /\ me[t].ret <= MaxLen /\ MaxLen \in Nat
  BY <1>0, <1>1, InCall
<1>3. me[t].ret \in -1..MaxLen
  BY <1>0, <1>2 DEF CallOK
<1>4. CASE Fail(t)
  BY <1>0, <1>4, FailStep
<1>5. CASE /\ pos' = [pos EXCEPT ![h] = me[t].off]
           /\ Return(t, me[t].ret)
           /\ UNCHANGED <<build, content, mode, offset, calls, ghosts>>
  <2>1. pos' \in [Handles -> 0..MaxLen] /\ \A g \in Handles \ {h} : pos'[g] = pos[g]
    BY <1>1, <1>2, <1>5, PosMoves
  <2>2. UNCHANGED <<build, content, mode, calls, offset, sent, told, torn, shared, stray>>
    BY <1>5 DEF ghosts
  <2> QED
    BY <1>0, <1>3, <1>5, <2>1, <2>2, QuietReturn
<1> QED
  BY <1>4, <1>5 DEF size_set

(* The Win32 functions that do not write.                                  *)
LEMMA Win32ReadStep ==
  ASSUME IInv, NEW t \in Threads, win32_file_read(t)
  PROVE  IInv'
<1> DEFINE h == me[t].h
<1>0. At(t, "r_seek") /\ ~ At(t, "idle") /\ ~ At(t, "w_write")
  BY DEF win32_file_read, At
<1>1. HandleInv /\ TypeOK
  BY DEF IInv, HandleInv
<1>2. /\ h \in Handles /\ me[t].off \in Nat /\ me[t].req \in Nat /\ MaxLen \in Nat
      /\ me[t].req <= MaxSize /\ MaxSize \in Nat /\ MaxSize <= MaxLen
  BY <1>0, <1>1, InCall
<1>3. Len(content) \in Nat /\ Len(content) <= MaxLen
  BY <1>1 DEF TypeOK
<1>4. CASE Fail(t)
  BY <1>0, <1>4, FailStep
<1>5. CASE ~ Fail(t)
  <2>1. PICK n \in Transfers(me[t].req, Len(content) - me[t].off) :
          /\ me[t].off < Len(content)
          /\ pos' = [pos EXCEPT ![h] = me[t].off + n]
          /\ offset' = [offset EXCEPT ![h] = @ + n]
          /\ Return(t, n) /\ Tell(h, n)
          /\ UNCHANGED <<build, content, mode, calls, sent, torn, shared, stray>>
    BY <1>5 DEF win32_file_read
  <2>2. Len(content) - me[t].off \in Nat
    BY <1>2, <1>3, <2>1
  <2>3. n \in Nat /\ n <= me[t].req /\ n <= Len(content) - me[t].off
    BY <1>2, <2>1, <2>2, TransferBounds
  <2>4. me[t].off + n \in Nat /\ me[t].off + n <= MaxLen /\ n \in -1..MaxLen
    BY ONLY <1>2, <1>3, <2>3
  <2>5. pos' \in [Handles -> 0..MaxLen] /\ \A g \in Handles \ {h} : pos'[g] = pos[g]
    BY <1>1, <1>2, <2>1, <2>4, PosMoves
  <2>6. stray' \in BOOLEAN
    BY <1>1, <2>1 DEF TypeOK
  <2> QED
    BY <1>0, <2>1, <2>3, <2>4, <2>5, <2>6, ReturnStep DEF Tell
<1> QED
  BY <1>4, <1>5

LEMMA Win32SizeStep ==
  ASSUME IInv, NEW t \in Threads, win32_file_size(t)
  PROVE  IInv'
<1>0. At(t, "s_cur") /\ ~ At(t, "idle") /\ ~ At(t, "w_write")
  BY DEF win32_file_size, At
<1>1. CASE Fail(t)
  BY <1>0, <1>1, FailStep
<1>2. CASE Return(t, Len(content)) /\ UNCHANGED <<build, kernel, offset, calls, ghosts>>
  <2>1. /\ Len(content) \in -1..MaxLen /\ pos \in [Handles -> 0..MaxLen]
    BY FileAssumption DEF IInv, HandleInv, TypeOK, FileAssumption
  <2>2. pos' = pos /\ UNCHANGED <<build, content, mode, calls, offset, sent, told, torn, shared, stray>>
    BY <1>2 DEF kernel, ghosts
  <2> QED
    BY <1>0, <1>2, <2>1, <2>2, QuietReturn
<1> QED
  BY <1>1, <1>2 DEF win32_file_size

LEMMA ElsewhereStep ==
  ASSUME IInv, NEW t \in Threads, win32_elsewhere(t)
  PROVE  IInv'
<1>1. HandleInv /\ TypeOK
  BY DEF IInv, HandleInv
<1>2. CASE \E n \in 0..me[t].req :
             /\ At(t, "r_seek") \/ At(t, "w_seek")
             /\ offset' = [offset EXCEPT ![me[t].h] = @ + n]
             /\ Return(t, n) /\ Tell(me[t].h, n)
             /\ UNCHANGED <<build, kernel, calls, sent, torn, shared, stray>>
  <2>1. PICK n \in 0..me[t].req :
             /\ At(t, "r_seek") \/ At(t, "w_seek")
             /\ offset' = [offset EXCEPT ![me[t].h] = @ + n]
             /\ Return(t, n) /\ Tell(me[t].h, n)
             /\ UNCHANGED <<build, kernel, calls, sent, torn, shared, stray>>
    BY <1>2
  <2>2. ~ At(t, "idle") /\ ~ At(t, "w_write")
    BY <2>1 DEF At
  <2>3. /\ me[t].req \in Nat /\ me[t].req <= MaxSize /\ MaxSize \in Nat
        /\ MaxSize <= MaxLen /\ MaxLen \in Nat
    BY <1>1, <2>2, InCall
  <2>4. n \in Nat /\ n \in -1..MaxLen
    BY <2>3
  <2>5. /\ pos' = pos /\ pos \in [Handles -> 0..MaxLen] /\ content' = content
        /\ UNCHANGED <<build, mode, calls, sent, torn, shared>> /\ stray' \in BOOLEAN
    BY <1>1, <2>1 DEF kernel, TypeOK
  <2> QED
    BY <2>1, <2>2, <2>4, <2>5, ReturnStep DEF Tell
<1>3. CASE /\ At(t, "s_cur") /\ \E n \in 0..MaxLen : Return(t, n)
           /\ UNCHANGED <<build, kernel, offset, calls, ghosts>>
  <2>1. ~ At(t, "idle") /\ ~ At(t, "w_write")
    BY <1>3 DEF At
  <2>2. PICK n \in 0..MaxLen : Return(t, n)
    BY <1>3
  <2>3. n \in -1..MaxLen /\ pos \in [Handles -> 0..MaxLen]
    BY <1>1, FileAssumption DEF TypeOK, FileAssumption
  <2>4. pos' = pos /\ UNCHANGED <<build, content, mode, calls, offset, sent, told, torn, shared, stray>>
    BY <1>3 DEF kernel, ghosts
  <2> QED
    BY <2>1, <2>2, <2>3, <2>4, QuietReturn
<1>4. CASE ~ At(t, "idle") /\ Fail(t)
  BY <1>4, FailStep
<1> QED
  BY <1>2, <1>3, <1>4 DEF win32_elsewhere

LEMMA Win32StrayStep ==
  ASSUME IInv, NEW t \in Threads, win32_write_strays(t)
  PROVE  IInv'
<1>0. At(t, "w_seek") /\ ~ At(t, "idle") /\ ~ At(t, "w_write")
  BY DEF win32_write_strays, At
<1>1. /\ me[t].req \in Nat /\ me[t].req <= MaxSize /\ MaxSize \in Nat
      /\ MaxSize <= MaxLen /\ MaxLen \in Nat
  BY <1>0, InCall DEF IInv
<1>2. me[t].req \in -1..MaxLen
  BY <1>1
<1>3. pos' = pos /\ pos \in [Handles -> 0..MaxLen] /\ content' = content
  BY DEF win32_write_strays, kernel, IInv, HandleInv, TypeOK
<1>4. UNCHANGED <<build, mode, calls, sent, torn, shared>> /\ stray' \in BOOLEAN
  BY DEF win32_write_strays, kernel
<1>5. /\ Return(t, me[t].req)
      /\ offset' = [offset EXCEPT ![me[t].h] = @ + me[t].req]
      /\ told' = [told EXCEPT ![me[t].h] = @ + me[t].req]
  BY DEF win32_write_strays, Tell
<1> QED
  BY <1>0, <1>1, <1>2, <1>3, <1>4, <1>5, ReturnStep


-----------------------------------------------------------------------------
(* The steps that write.                                                   *)

(* Thread t writes the next n bytes of its buffer at p, which is the end   *)
(* of the file or, if nobody else moves the descriptor, the place that     *)
(* these bytes are meant for.                                              *)
Writes(t, p, n) ==
  /\ t \in Threads /\ Writing(t) /\ p \in 0..MaxLen /\ n \in Nat /\ n <= Room(p)
  /\ me[t].written + n <= me[t].req
  /\ content' = Overwritten(p, [i \in 1..n |-> Byte(me[t], me[t].written + i)])
  /\ mode[me[t].h] = "append" => p = Len(content)
  /\ mode[me[t].h] # "append" /\ me[t].h \notin shared => p = me[t].off + me[t].written

LEMMA WritesFacts ==
  ASSUME IInv, NEW t, NEW p, NEW n, Writes(t, p, n)
  PROVE  /\ content' \in Seq(Bytes) /\ Len(content') <= MaxLen /\ Len(content) <= Len(content')
         /\ p + n <= MaxLen
         /\ mode[me[t].h] = "append" => Appends(t, n)
         /\ mode[me[t].h] # "append" /\ me[t].h \notin shared =>
              /\ AtBytes
              /\ \A k \in (p + 1)..(p + n) : k \in 1..Len(content') /\ content'[k] = <<"at", k>>
<1> DEFINE h == me[t].h
<1> DEFINE s == [i \in 1..n |-> Byte(me[t], me[t].written + i)]
<1>1. HandleInv /\ TypeOK
  BY DEF IInv, HandleInv
<1>2. /\ t \in Threads /\ p \in 0..MaxLen /\ n \in Nat /\ n <= Room(p) /\ ~ At(t, "idle")
  BY DEF Writes, Writing, At
<1>3. /\ h \in Handles /\ CallOK(t) /\ me[t].off \in Nat /\ me[t].req \in Nat
      /\ me[t].written \in Nat /\ MaxLen \in Nat
  BY <1>1, <1>2, InCall
<1>4. sent[h] \in Nat /\ (mode[h] = "append" => me[t].req <= sent[h])
  <2>1. sent[h] \in Nat
    BY <1>1, <1>3 DEF TypeOK
  <2>2. Appending(t) => me[t].req <= sent[h]
    BY <1>2, <1>3 DEF CallOK
  <2> QED
    BY <2>1, <2>2 DEF Appending, Writes
<1>5. \A i \in 1..n : s[i] = IF mode[h] = "append"
                             THEN <<h, sent[h] - me[t].req + (me[t].written + i)>>
                             ELSE <<"at", me[t].off + (me[t].written + i)>>
  BY DEF Byte
<1>6. s \in [1..n -> Bytes]
  <2> SUFFICES ASSUME NEW i \in 1..n PROVE s[i] \in Bytes
    OBVIOUS
  <2>1. me[t].off + (me[t].written + i) \in Nat
    BY <1>2, <1>3
  <2>2. mode[h] = "append" => sent[h] - me[t].req + (me[t].written + i) \in Nat
    BY <1>2, <1>3, <1>4
  <2>3. /\ \A a \in Nat : <<h, a>> \in Bytes /\ <<"at", a>> \in Bytes
    BY <1>3 DEF Bytes
  <2> QED
    BY <1>5, <2>1, <2>2, <2>3
<1>7. content' = Overwritten(p, s)
  BY DEF Writes
<1> HIDE DEF s
<1>8. PICK new : new = content'
  OBVIOUS
<1>9. /\ new \in Seq(Bytes) /\ Len(new) <= MaxLen /\ Len(content) <= Len(new)
      /\ n > 0 => p + n <= Len(new)
      /\ Len(new) <= Len(content) \/ (n > 0 /\ Len(new) = p + n)
      /\ \A k \in 1..Len(new) :
           \/ k \in (p + 1)..(p + n) /\ new[k] = s[k - p]
           \/ k \notin (p + 1)..(p + n) /\ k \in 1..Len(content) /\ new[k] = content[k]
           \/ k \notin (p + 1)..(p + n) /\ k > Len(content) /\ new[k] = Hole
  BY <1>1, <1>2, <1>6, <1>7, <1>8, OverwrittenRight, FileAssumption
<1>10. Len(content) \in Nat /\ Len(new) \in Nat /\ p \in Nat
  BY <1>1, <1>2, <1>3, <1>9 DEF TypeOK
<1>11. p + n <= MaxLen
  BY <1>2, <1>3, <1>9, <1>10
<1>12. ASSUME mode[h] = "append" PROVE Appends(t, n)
  <2>1. p = Len(content)
    BY <1>12 DEF Writes
  <2>2. Len(new) = Len(content) + n
    BY <1>2, <1>9, <1>10, <2>1
  <2>3. ASSUME NEW k \in 1..Len(content) PROVE new[k] = content[k]
    BY <1>9, <1>10, <2>1, <2>3
  <2>4. ASSUME NEW k \in 1..Len(new), k > Len(content)
        PROVE  new[k] = <<h, sent[h] - me[t].req + me[t].written + (k - Len(content))>>
    <3>1. k \in (p + 1)..(p + n) /\ k - p \in 1..n /\ k - p = k - Len(content)
      BY <1>2, <1>10, <2>1, <2>2, <2>4
    <3>2. new[k] = <<h, sent[h] - me[t].req + (me[t].written + (k - p))>>
      <4>1. new[k] = s[k - p]
        BY <1>9, <2>4, <3>1
      <4> QED
        BY <1>5, <1>12, <3>1, <4>1
    <3>3. sent[h] - me[t].req + (me[t].written + (k - p))
            = sent[h] - me[t].req + me[t].written + (k - Len(content))
      BY <1>3, <1>4, <3>1
    <3> QED
      BY <3>2, <3>3
  <2> QED
    BY <1>8, <2>2, <2>3, <2>4 DEF Appends
<1>13. ASSUME mode[h] # "append", h \notin shared
       PROVE  /\ AtBytes
              /\ \A k \in (p + 1)..(p + n) : k \in 1..Len(content') /\ content'[k] = <<"at", k>>
  <2>1. p = me[t].off + me[t].written
    BY <1>13 DEF Writes
  <2>2. ASSUME NEW k \in (p + 1)..(p + n)
        PROVE  k \in 1..Len(new) /\ new[k] = <<"at", k>>
    <3>0. n > 0 /\ p + n <= Len(new)
      BY <1>2, <1>9, <1>10, <2>2
    <3>1. k \in 1..Len(new) /\ k - p \in 1..n
      BY <1>2, <1>10, <2>2, <3>0
    <3>2. new[k] = s[k - p] /\ s[k - p] = <<"at", me[t].off + (me[t].written + (k - p))>>
      <4>1. new[k] = s[k - p]
        BY <1>9, <2>2, <3>1
      <4>2. s[k - p] = <<"at", me[t].off + (me[t].written + (k - p))>>
        BY <1>5, <1>13, <3>1
      <4> QED
        BY <4>1, <4>2
    <3>3. me[t].off + (me[t].written + (k - p)) = k
      <4>1. k \in Int /\ me[t].off \in Nat /\ me[t].written \in Nat
        BY <1>3, <1>10, <3>1
      <4> QED
        BY ONLY <2>1, <4>1
    <3> QED
      BY <3>1, <3>2, <3>3
  <2>3. AtBytes
    <3> SUFFICES ASSUME NEW k \in 1..Len(new)
                 PROVE  \/ new[k] = <<"at", k>>
                        \/ k \in 1..Len(content) /\ new[k] = content[k]
                        \/ k \notin 1..Len(content) /\ new[k] = Hole
      BY <1>8 DEF AtBytes
    <3>1. CASE k \in (p + 1)..(p + n)
      BY <2>2, <3>1
    <3>2. CASE k \notin (p + 1)..(p + n)
      BY <1>9, <1>10, <3>2
    <3> QED
      BY <3>1, <3>2
  <2> QED
    BY <1>8, <2>2, <2>3
<1> QED
  BY <1>8, <1>9, <1>11, <1>12, <1>13

(* All the bytes of the write so far are in the file.                      *)
LEMMA AllThere ==
  ASSUME IInv, TypeOK', NEW t, NEW p, NEW n, Writes(t, p, n), shared = {}, mode[me[t].h] # "append"
  PROVE  \A i \in 1..(me[t].written + n) :
           /\ me[t].off + i \in DOMAIN content'
           /\ content'[me[t].off + i] = <<"at", me[t].off + i>>
<1>1. HandleInv /\ TypeOK /\ DoneOK(t)
  BY DEF IInv, HandleInv, ByteInv, DoneInv, Writes
<1>2. t \in Threads /\ n \in Nat /\ ~ At(t, "idle") /\ p = me[t].off + me[t].written
  BY DEF Writes, Writing, At
<1>3. CallOK(t) /\ me[t].off \in Nat /\ me[t].written \in Nat
  BY <1>1, <1>2, InCall
<1>4. /\ Len(content) <= Len(content') /\ AtBytes
      /\ \A k \in (p + 1)..(p + n) : k \in 1..Len(content') /\ content'[k] = <<"at", k>>
  BY WritesFacts
<1>5. DOMAIN content' = 1..Len(content')
  BY DEF TypeOK
<1> SUFFICES ASSUME NEW i \in 1..(me[t].written + n)
             PROVE  /\ me[t].off + i \in DOMAIN content'
                    /\ content'[me[t].off + i] = <<"at", me[t].off + i>>
  OBVIOUS
<1>6. PICK k : k = me[t].off + i
  OBVIOUS
<1>7. CASE i <= me[t].written
  <2>1. At(t, "w_write") /\ i \in 1..me[t].written
    BY <1>2, <1>3, <1>7 DEF CallOK, At
  <2>2. k \in DOMAIN content /\ content[k] = <<"at", k>>
    BY <1>1, <1>6, <2>1 DEF DoneOK
  <2>3. k \in DOMAIN content' /\ content'[k] = <<"at", k>>
    BY <1>1, <1>4, <2>2, AtBytesDone
  <2> QED
    BY <1>6, <2>3
<1>8. CASE i > me[t].written
  <2>1. k \in (p + 1)..(p + n)
    BY <1>2, <1>3, <1>6, <1>8
  <2> QED
    BY <1>4, <1>5, <1>6, <2>1
<1> QED
  BY <1>2, <1>3, <1>7, <1>8

(* A step that writes keeps the invariant of the bytes.                    *)
LEMMA WritesKeep ==
  ASSUME IInv, TypeOK', NEW t, NEW p, NEW n, Writes(t, p, n), Acts(t),
         \/ me'[t].pc = "idle"
         \/ /\ me'[t].req = me[t].req /\ me'[t].off = me[t].off
            /\ me'[t].written = me[t].written + n
  PROVE  ByteInv'
<1>1. HandleInv /\ ByteInv /\ TypeOK
  BY DEF IInv, HandleInv
<1>2. shared' = shared /\ mode' = mode /\ me'[t].h = me[t].h /\ ~ At(t, "idle")
  BY DEF Acts
<1>3. CASE shared # {}
  BY <1>2, <1>3 DEF ByteInv
<1>4. t \in Threads /\ n \in Nat /\ me[t].written + n <= me[t].req /\ Writing(t)
  BY DEF Writes
<1>5. CASE shared = {} /\ mode[me[t].h] = "append"
  <2>1. Appends(t, n) /\ Appending(t)
    BY <1>4, <1>5, WritesFacts DEF Appending
  <2>2. Appending(t)' => me'[t].req = me[t].req /\ me'[t].written = me[t].written + n
    BY DEF Appending, Writing
  <2> QED
    BY <1>1, <1>4, <1>5, <2>1, <2>2, AppendKeep
<1>6. CASE shared = {} /\ mode[me[t].h] # "append"
  <2>1. AtBytes
    BY <1>6, WritesFacts
  <2>2. ~ Appending(t)'
    BY <1>2, <1>6 DEF Appending
  <2>3. DoneOK(t)'
    <3>1. CASE me'[t].pc = "idle"
      BY <3>1 DEF DoneOK, At
    <3>2. CASE me'[t].off = me[t].off /\ me'[t].written = me[t].written + n
      BY <1>6, <3>2, AllThere DEF DoneOK
    <3> QED
      BY <3>1, <3>2
  <2> QED
    BY <1>1, <1>6, <2>1, <2>2, <2>3, AtBytesKeep
<1> QED
  BY <1>3, <1>5, <1>6


(* What a round of the loop of spr_file_write does.                        *)
LEMMA RoundFacts ==
  ASSUME IInv, NEW t \in Threads, write_round(t)
  PROVE  \E n \in Nat :
           /\ Writes(t, Place(me[t].h), n)
           /\ pos' = [pos EXCEPT ![me[t].h] = Place(me[t].h) + n]
           /\ offset' = [offset EXCEPT ![me[t].h] = @ + n]
           /\ \/ /\ n = Rest(t) /\ Return(t, me[t].written + n)
                 /\ told' = [told EXCEPT ![me[t].h] = @ + (me[t].written + n)]
              \/ /\ n # Rest(t) /\ Set(t, [me[t] EXCEPT !.written = @ + n])
                 /\ told' = told
<1> DEFINE h == me[t].h
<1>0. At(t, "w_write") /\ ~ At(t, "idle") /\ Writing(t)
  BY DEF write_round, WriteSome, At, Writing
<1>1. HandleInv /\ TypeOK
  BY DEF IInv, HandleInv
<1>2. /\ h \in Handles /\ PosOK(t) /\ me[t].req \in Nat /\ me[t].written \in Nat
      /\ me[t].written <= me[t].req /\ MaxLen \in Nat
  BY <1>0, <1>1, InCall
<1>3. Place(h) \in 0..MaxLen /\ Place(h) \in Nat
  <2>1. pos[h] \in 0..MaxLen /\ Len(content) \in 0..MaxLen
    BY <1>1, <1>2 DEF TypeOK
  <2> QED
    BY <1>2, <2>1 DEF Place
<1>4. Room(Place(h)) \in Nat /\ Rest(t) \in Nat
  BY <1>2, <1>3, RoomBounds, FileAssumption DEF Rest
<1>5. PICK n \in Transfers(Rest(t), Room(Place(h))) :
        /\ content' = Overwritten(Place(h), [i \in 1..n |-> Byte(me[t], me[t].written + i)])
        /\ pos' = [pos EXCEPT ![h] = Place(h) + n]
        /\ offset' = [offset EXCEPT ![h] = @ + n]
        /\ IF n \in {Rest(t)}
           THEN Return(t, me[t].written + n) /\ Tell(h, me[t].written + n)
           ELSE Set(t, [me[t] EXCEPT !.written = @ + n]) /\ UNCHANGED told
  BY DEF write_round, WriteSome
<1>6. n \in Nat /\ n <= Rest(t) /\ n <= Room(Place(h))
  BY <1>4, <1>5, TransferBounds
<1>7. me[t].written + n <= me[t].req
  BY <1>2, <1>6 DEF Rest
<1>8. Writes(t, Place(h), n)
  <2>1. mode[h] = "append" => Place(h) = Len(content)
    BY DEF Place
  <2>2. mode[h] # "append" /\ h \notin shared => Place(h) = me[t].off + me[t].written
    BY <1>0, <1>2 DEF Place, PosOK
  <2> QED
    BY <1>0, <1>3, <1>5, <1>6, <1>7, <2>1, <2>2 DEF Writes
<1> QED
  BY <1>5, <1>6, <1>8 DEF Tell

LEMMA WriteRoundStep ==
  ASSUME IInv, NEW t \in Threads, write_round(t)
  PROVE  IInv'
<1> DEFINE h == me[t].h
<1>0. At(t, "w_write") /\ ~ At(t, "idle") /\ build = "posix"
  BY DEF write_round, WriteSome, At
<1>1. HandleInv /\ TypeOK
  BY DEF IInv, HandleInv
<1>2. /\ me[t] \in Frame /\ h \in Handles /\ CallOK(t) /\ PosOK(t)
      /\ me[t].req \in Nat /\ me[t].written \in Nat /\ me[t].off \in Nat
      /\ me[t].req <= MaxSize /\ MaxSize \in Nat /\ MaxLen \in Nat /\ MaxSize <= MaxLen
      /\ h \notin shared => Counts(h, me[t].written)
  BY <1>0, <1>1, InCall
<1>3. PICK n \in Nat :
        /\ Writes(t, Place(me[t].h), n)
        /\ pos' = [pos EXCEPT ![me[t].h] = Place(me[t].h) + n]
        /\ offset' = [offset EXCEPT ![me[t].h] = @ + n]
        /\ \/ /\ n = Rest(t) /\ Return(t, me[t].written + n)
              /\ told' = [told EXCEPT ![me[t].h] = @ + (me[t].written + n)]
           \/ /\ n # Rest(t) /\ Set(t, [me[t] EXCEPT !.written = @ + n])
              /\ told' = told
  BY RoundFacts
<1>4. /\ build' = build /\ mode' = mode /\ calls' = calls /\ sent' = sent
      /\ torn' = torn /\ shared' = shared /\ stray' = stray
  BY DEF write_round, WriteSome
<1>5. PICK p : p = Place(h)
  OBVIOUS
<1>6. /\ Writes(t, p, n) /\ p \in Nat /\ me[t].written + n <= me[t].req
      /\ mode[h] # "append" /\ h \notin shared => p = me[t].off + me[t].written
  BY <1>2, <1>3, <1>5 DEF Writes
<1>7. /\ content' \in Seq(Bytes) /\ Len(content') <= MaxLen /\ Len(content) <= Len(content')
      /\ p + n <= MaxLen
  BY <1>6, WritesFacts
<1>8. /\ pos' \in [Handles -> 0..MaxLen] /\ pos'[h] = p + n
      /\ \A g \in Handles \ {h} : pos'[g] = pos[g]
  <2>1. p + n \in Nat /\ pos' = [pos EXCEPT ![h] = p + n]
    BY <1>3, <1>5, <1>6
  <2> QED
    BY <1>1, <1>2, <1>7, <2>1, PosMoves
<1>9. offset \in [Handles -> Nat] /\ told \in [Handles -> Nat] /\ torn \subseteq Handles /\ stray \in BOOLEAN
  BY <1>1 DEF TypeOK
<1>10. /\ offset' \in [Handles -> Nat] /\ offset'[h] = offset[h] + n
       /\ \A g \in Handles \ {h} : offset'[g] = offset[g]
  BY <1>2, <1>3, <1>9
<1>11. offset[h] \in Nat /\ told[h] \in Nat /\ me[t].written + n \in Nat
  BY <1>2, <1>9
<1>12. CASE /\ n = Rest(t) /\ Return(t, me[t].written + n)
            /\ told' = [told EXCEPT ![h] = @ + (me[t].written + n)]
  <2>1. me[t].written + n \in -1..MaxLen
    BY <1>2, <1>6, <1>11
  <2>2. /\ me' \in [Threads -> Frame] /\ me'[t].h = h /\ me'[t].written = 0 /\ me'[t].pc = "idle"
        /\ \A u \in Threads \ {t} : me'[u] = me[u]
        /\ CallOK(t)' /\ PosOK(t)'
    BY <1>0, <1>1, <1>12, <2>1, ReturnFacts
  <2>3. /\ told' \in [Handles -> Nat] /\ told'[h] = told[h] + (me[t].written + n)
        /\ \A g \in Handles \ {h} : told'[g] = told[g]
    BY <1>2, <1>9, <1>11, <1>12
  <2>4. TypeOK'
    BY <1>1, <1>4, <1>7, <1>8, <1>9, <1>10, <2>2, <2>3, TypeKept
  <2>5. Acts(t)
    BY <1>0, <1>4, <1>7, <1>8, <1>10, <2>2, <2>3 DEF Acts
  <2>6. ASSUME h \notin shared PROVE Counts(me[t].h, me[t].written)'
    <3>1. Counts(h, me[t].written)
      BY <1>2, <2>6
    <3>2. IF h \in torn THEN build = "posix" /\ offset'[h] > told'[h] + 0 ELSE offset'[h] = told'[h] + 0
      BY <1>2, <1>10, <1>11, <2>3, <3>1 DEF Counts
    <3> QED
      BY <1>4, <2>2, <3>2 DEF Counts
  <2>7. HandleInv'
    BY <1>1, <2>2, <2>4, <2>5, <2>6, ActsKeep
  <2>8. ByteInv'
    BY <1>6, <2>2, <2>4, <2>5, WritesKeep
  <2> QED
    BY <2>7, <2>8 DEF IInv
<1>13. CASE n # Rest(t) /\ Set(t, [me[t] EXCEPT !.written = @ + n]) /\ told' = told
  <2>1. PICK f : f = [me[t] EXCEPT !.written = @ + n]
    OBVIOUS
  <2>2. me[t].written + n \in 0..MaxSize
    BY <1>2, <1>6, <1>11
  <2>3. /\ f \in Frame /\ f.h = h /\ f.pc = "w_write" /\ f.off = me[t].off /\ f.req = me[t].req
        /\ f.written = me[t].written + n /\ f.was = me[t].was /\ f.len = me[t].len
    BY <1>0, <1>2, <2>1, <2>2 DEF Frame, At
  <2>4. /\ me' \in [Threads -> Frame] /\ me'[t] = f /\ me'[t].h = h
        /\ \A u \in Threads \ {t} : me'[u] = me[u]
    BY <1>1, <1>13, <2>1, <2>3, MoveFacts
  <2>5. TypeOK'
    BY <1>1, <1>4, <1>7, <1>8, <1>9, <1>10, <1>13, <2>4, TypeKept
  <2>6. Acts(t)
    BY <1>0, <1>4, <1>7, <1>8, <1>10, <1>13, <2>4 DEF Acts
  <2>7. CallOK(t)'
    <3>1. /\ Open(h) /\ me[t].len <= Len(content) /\ (Appending(t) => me[t].req <= sent[h])
          /\ me[t].len \in Nat
      BY <1>0, <1>1, <1>2, InCall DEF CallOK
    <3>2. Len(content) \in Nat /\ Len(content') \in Nat
      BY <1>1, <2>5 DEF TypeOK
    <3>3. me[t].len <= Len(content')
      BY <1>7, <3>1, <3>2
    <3>4. Appending(t)' <=> Appending(t)
      BY <1>0, <1>4, <2>3, <2>4 DEF Appending, Writing, At
    <3>5. build' # "win32"
      BY <1>0, <1>4
    <3> QED
      BY <1>4, <1>6, <2>3, <2>4, <3>1, <3>3, <3>4, <3>5 DEF CallOK, At, Open
  <2>8. PosOK(t)'
    <3>1. mode[h] # "append" /\ h \notin shared => p + n = me[t].off + (me[t].written + n)
      BY <1>2, <1>6
    <3> QED
      BY <1>4, <1>8, <2>3, <2>4, <3>1 DEF PosOK, At
  <2>9. ASSUME h \notin shared PROVE Counts(me[t].h, me[t].written)'
    <3>1. Counts(h, me[t].written)
      BY <1>2, <2>9
    <3>2. IF h \in torn THEN build = "posix" /\ offset'[h] > told[h] + (me[t].written + n)
          ELSE offset'[h] = told[h] + (me[t].written + n)
      BY <1>2, <1>10, <1>11, <3>1 DEF Counts
    <3> QED
      BY <1>4, <1>13, <2>3, <2>4, <3>2 DEF Counts
  <2>10. HandleInv'
    BY <1>1, <2>5, <2>6, <2>7, <2>8, <2>9, ActsKeep
  <2>11. ByteInv'
    BY <1>6, <2>3, <2>4, <2>5, <2>6, WritesKeep
  <2> QED
    BY <2>10, <2>11 DEF IInv
<1> QED
  BY <1>3, <1>12, <1>13

LEMMA Win32WriteFacts ==
  ASSUME IInv, NEW t \in Threads, win32_file_write(t), ~ Fail(t)
  PROVE  \E n \in Nat :
           /\ Writes(t, me[t].off, n)
           /\ pos' = [pos EXCEPT ![me[t].h] = me[t].off + n]
           /\ \/ /\ n = me[t].req /\ Return(t, n)
                 /\ told' = [told EXCEPT ![me[t].h] = @ + n]
                 /\ offset' = [offset EXCEPT ![me[t].h] = @ + n]
              \/ Return(t, -1) /\ told' = told /\ offset' = offset
           /\ UNCHANGED <<build, mode, calls, sent, torn, shared, stray>>
<1> DEFINE h == me[t].h
<1>0. At(t, "w_seek") /\ build = "win32" /\ ~ At(t, "idle") /\ Writing(t)
  BY DEF win32_file_write, At, Writing
<1>1. HandleInv /\ TypeOK
  BY DEF IInv, HandleInv
<1>2. /\ h \in Handles /\ me[t].req \in Nat /\ me[t].written = 0 /\ MaxLen \in Nat
      /\ me[t].off \in Nat /\ me[t].off <= MaxLen
  BY <1>0, <1>1, InCall DEF CallOK, At
<1>3. mode[h] # "append"
  BY <1>0, <1>1, <1>2 DEF HandleInv, ModeInv
<1>4. PICK n \in Transfers(me[t].req, Room(me[t].off)) :
        /\ content' = Overwritten(me[t].off, [i \in 1..n |-> Byte(me[t], i)])
        /\ pos' = [pos EXCEPT ![h] = me[t].off + n]
        /\ \/ /\ n = me[t].req /\ Return(t, n) /\ Tell(h, n)
              /\ offset' = [offset EXCEPT ![h] = @ + n]
           \/ n # me[t].req /\ Return(t, -1) /\ UNCHANGED <<told, offset>>
        /\ UNCHANGED <<build, mode, calls, sent, torn, shared, stray>>
  BY DEF win32_file_write
<1>5. Room(me[t].off) \in Nat
  BY <1>2, RoomBounds, FileAssumption
<1>6. n \in Nat /\ n <= me[t].req /\ n <= Room(me[t].off)
  BY <1>2, <1>4, <1>5, TransferBounds
<1>7. Writes(t, me[t].off, n)
  <2>1. [i \in 1..n |-> Byte(me[t], i)] = [i \in 1..n |-> Byte(me[t], me[t].written + i)]
    <3>1. \A i \in 1..n : me[t].written + i = i
      BY <1>2, <1>6
    <3> QED
      BY <3>1
  <2>2. /\ me[t].off \in 0..MaxLen /\ me[t].written + n <= me[t].req
        /\ me[t].off = me[t].off + me[t].written
    BY <1>2, <1>6
  <2> QED
    BY <1>0, <1>3, <1>4, <1>6, <2>1, <2>2 DEF Writes
<1> QED
  BY <1>4, <1>6, <1>7 DEF Tell

LEMMA Win32WriteStep ==
  ASSUME IInv, NEW t \in Threads, win32_file_write(t)
  PROVE  IInv'
<1> DEFINE h == me[t].h
<1>0. At(t, "w_seek") /\ build = "win32" /\ ~ At(t, "idle")
  BY DEF win32_file_write, At
<1>1. HandleInv /\ TypeOK
  BY DEF IInv, HandleInv
<1>2. /\ h \in Handles /\ CallOK(t) /\ me[t].req \in Nat /\ me[t].written = 0
      /\ me[t].off \in Nat
      /\ me[t].req <= MaxSize /\ MaxSize \in Nat /\ MaxLen \in Nat /\ MaxSize <= MaxLen
      /\ h \notin shared => Counts(h, me[t].written)
  BY <1>0, <1>1, InCall DEF CallOK, At
<1>3. CASE Fail(t)
  BY <1>0, <1>3, FailStep
<1>4. CASE ~ Fail(t)
  <2>1. PICK n \in Nat :
          /\ Writes(t, me[t].off, n)
          /\ pos' = [pos EXCEPT ![me[t].h] = me[t].off + n]
          /\ \/ /\ n = me[t].req /\ Return(t, n)
                /\ told' = [told EXCEPT ![me[t].h] = @ + n]
                /\ offset' = [offset EXCEPT ![me[t].h] = @ + n]
             \/ Return(t, -1) /\ told' = told /\ offset' = offset
          /\ UNCHANGED <<build, mode, calls, sent, torn, shared, stray>>
    BY <1>4, Win32WriteFacts
  <2>2. /\ content' \in Seq(Bytes) /\ Len(content') <= MaxLen /\ Len(content) <= Len(content')
        /\ me[t].off + n <= MaxLen
    BY <2>1, WritesFacts
  <2>3. pos' \in [Handles -> 0..MaxLen] /\ \A g \in Handles \ {h} : pos'[g] = pos[g]
    <3>1. me[t].off + n \in Nat
      BY <1>2
    <3> QED
      BY <1>1, <1>2, <2>1, <2>2, <3>1, PosMoves
  <2>4. offset \in [Handles -> Nat] /\ told \in [Handles -> Nat] /\ torn \subseteq Handles
        /\ stray \in BOOLEAN
    BY <1>1 DEF TypeOK
  <2>5. PICK m \in {0, n} :
          /\ told' = [told EXCEPT ![h] = @ + m] /\ offset' = [offset EXCEPT ![h] = @ + m]
          /\ \E r \in -1..MaxLen : Return(t, r)
    <3>1. CASE /\ n = me[t].req /\ Return(t, n)
               /\ told' = [told EXCEPT ![h] = @ + n] /\ offset' = [offset EXCEPT ![h] = @ + n]
      <4>1. n \in -1..MaxLen
        BY <1>2, <3>1
      <4> QED
        BY <3>1, <4>1
    <3>2. CASE Return(t, -1) /\ told' = told /\ offset' = offset
      <4>1. -1 \in -1..MaxLen
        BY <1>2
      <4>2. told' = [told EXCEPT ![h] = @ + 0] /\ offset' = [offset EXCEPT ![h] = @ + 0]
        BY <1>2, <2>4, <3>2, AddNothing
      <4> QED
        BY <3>2, <4>1, <4>2
    <3> QED
      BY <2>1, <3>1, <3>2
  <2>6. m \in Nat
    BY <2>5
  <2>7. PICK r \in -1..MaxLen : Return(t, r)
    BY <2>5
  <2>8. /\ me' \in [Threads -> Frame] /\ me'[t].h = h /\ me'[t].written = 0 /\ me'[t].pc = "idle"
        /\ \A u \in Threads \ {t} : me'[u] = me[u]
        /\ CallOK(t)' /\ PosOK(t)'
    BY <1>0, <1>1, <2>7, ReturnFacts
  <2>9. /\ told' \in [Handles -> Nat] /\ told'[h] = told[h] + m
        /\ offset' \in [Handles -> Nat] /\ offset'[h] = offset[h] + m
        /\ \A g \in Handles \ {h} : told'[g] = told[g] /\ offset'[g] = offset[g]
    BY <1>2, <2>4, <2>5, <2>6
  <2>10. TypeOK'
    BY <1>1, <2>1, <2>2, <2>3, <2>4, <2>8, <2>9, TypeKept
  <2>11. Acts(t)
    BY <1>0, <2>1, <2>2, <2>3, <2>8, <2>9 DEF Acts
  <2>12. ASSUME h \notin shared PROVE Counts(me[t].h, me[t].written)'
    <3>1. Counts(h, 0)
      BY <1>2, <2>12
    <3>2. offset[h] \in Nat /\ told[h] \in Nat
      BY <1>2, <2>4
    <3>3. IF h \in torn THEN build = "posix" /\ offset'[h] > told'[h] + 0 ELSE offset'[h] = told'[h] + 0
      BY <2>6, <2>9, <3>1, <3>2 DEF Counts
    <3> QED
      BY <2>1, <2>8, <3>3 DEF Counts
  <2>13. HandleInv'
    BY <1>1, <2>8, <2>10, <2>11, <2>12, ActsKeep
  <2>14. ByteInv'
    BY <2>1, <2>8, <2>10, <2>11, WritesKeep
  <2> QED
    BY <2>13, <2>14 DEF IInv
<1> QED
  BY <1>3, <1>4


-----------------------------------------------------------------------------
(* Calls begin.                                                            *)

LEMMA StartStep ==
  ASSUME IInv, NEW t \in Threads, NEW h \in Handles, NEW pc \in {"w_seek", "r_seek", "s_cur"},
         NEW off \in 0..MaxLen, NEW req \in 0..MaxSize, Start(t, h, pc, off, req)
  PROVE  IInv'
<1>1. HandleInv /\ TypeOK /\ MaxLen \in Nat /\ MaxSize \in Nat /\ req \in Nat
  BY FileAssumption DEF IInv, HandleInv, FileAssumption
<1>2. /\ build' = build /\ content' = content /\ mode' = mode /\ pos' = pos /\ offset' = offset
      /\ told' = told /\ torn' = torn /\ stray' = stray
      /\ sent' = (IF pc = "w_seek" /\ mode[h] = "append" THEN [sent EXCEPT ![h] = @ + req] ELSE sent)
      /\ shared' = (IF Busy(h) THEN shared \cup {h} ELSE shared)
      /\ calls' = [calls EXCEPT ![t] = @ - 1] /\ At(t, "idle") /\ calls[t] > 0 /\ Open(h)
  BY DEF Start, kernel
<1>3. PICK f : f = [Idle(h, 0) EXCEPT !.pc = pc, !.off = off, !.req = req,
                                      !.was = pos[h], !.len = Len(content)]
  OBVIOUS
<1>4. pos[h] \in 0..MaxLen /\ Len(content) \in 0..MaxLen /\ Len(content) \in Nat /\ 0 \in 0..MaxSize
      /\ sent[h] \in Nat
  BY <1>1 DEF TypeOK
<1>5. /\ f \in Frame /\ f.h = h /\ f.pc = pc /\ f.off = off /\ f.req = req
      /\ f.written = 0 /\ f.was = pos[h] /\ f.len = Len(content)
  <2>1. f = [pc |-> pc, h |-> h, off |-> off, req |-> req, written |-> 0,
             was |-> pos[h], len |-> Len(content), ret |-> 0]
    BY <1>3 DEF Idle
  <2>2. 0 \in -1..MaxLen
    BY <1>1
  <2> QED
    BY <1>4, <2>1, <2>2 DEF Frame
<1>6. /\ me' \in [Threads -> Frame] /\ me'[t] = f
      /\ \A u \in Threads : u # t => me'[u] = me[u]
  <2>1. me \in [Threads -> Frame] /\ me' = [me EXCEPT ![t] = f]
    BY <1>1, <1>3 DEF TypeOK, Start, Set
  <2> QED
    BY <1>5, <2>1
<1>7. /\ sent' \in [Handles -> Nat] /\ \A g \in Handles : sent[g] <= sent'[g] /\ sent[g] \in Nat
      /\ \A g \in Handles \ {h} : sent'[g] = sent[g]
      /\ pc = "w_seek" /\ mode[h] = "append" => sent'[h] = sent[h] + req
  <2>1. sent \in [Handles -> Nat]
    BY <1>1 DEF TypeOK
  <2>2. CASE pc = "w_seek" /\ mode[h] = "append"
    <3>1. sent' = [sent EXCEPT ![h] = @ + req]
      BY <1>2, <2>2
    <3>2. sent'[h] = sent[h] + req /\ \A g \in Handles \ {h} : sent'[g] = sent[g]
      BY <2>1, <3>1
    <3> QED
      BY <1>1, <2>1, <3>1, <3>2
  <2>3. CASE ~ (pc = "w_seek" /\ mode[h] = "append")
    BY <1>2, <2>1, <2>3
  <2> QED
    BY <2>2, <2>3
<1>8. shared \subseteq shared' /\ shared' \subseteq Handles /\ (h \notin shared' => ~ Busy(h))
  BY <1>1, <1>2 DEF TypeOK
<1>9. TypeOK'
  <2>1. calls' \in [Threads -> 0..MaxCalls]
    <3>1. MaxCalls \in Nat
      BY FileAssumption DEF FileAssumption
    <3>2. calls[t] \in 0..MaxCalls /\ calls[t] - 1 \in 0..MaxCalls
      BY <1>1, <1>2, <3>1 DEF TypeOK
    <3> QED
      BY <1>1, <1>2, <3>2 DEF TypeOK
  <2> QED
    BY <1>1, <1>2, <1>6, <1>7, <1>8, <2>1 DEF TypeOK
<1>10. ModeInv'
  BY <1>1, <1>2 DEF HandleInv, ModeInv
<1>11. CallInv'
  <2> SUFFICES ASSUME NEW u \in Threads PROVE CallOK(u)'
    BY DEF CallInv
  <2>1. CASE u = t
    <3>1. Appending(t)' => req <= sent'[h]
      <4>1. Appending(t)' => pc = "w_seek" /\ mode[h] = "append"
        BY <1>2, <1>5, <1>6 DEF Appending, Writing
      <4> QED
        BY <1>1, <1>4, <1>7, <4>1
    <3>2. 0 <= req /\ Len(content') <= Len(content')
      BY <1>1, <1>2, <1>4
    <3> QED
      BY <1>2, <1>5, <1>6, <2>1, <3>1, <3>2 DEF CallOK, At, Open
  <2>2. CASE u # t
    <3>1. CallOK(u) /\ me'[u] = me[u] /\ me[u].h \in Handles /\ me[u].req \in Nat
      <4>1. CallOK(u) /\ me[u] \in Frame
        BY <1>1 DEF HandleInv, CallInv, TypeOK
      <4> QED
        BY <1>6, <2>2, <4>1, FrameTypes
    <3>2. Appending(u)' <=> Appending(u)
      BY <1>2, <3>1 DEF Appending, Writing
    <3>3. ~ At(u, "idle") /\ Appending(u) => me[u].req <= sent'[me[u].h]
      <4>1. ~ At(u, "idle") /\ Appending(u) => me[u].req <= sent[me[u].h]
        BY <3>1 DEF CallOK
      <4>2. /\ sent[me[u].h] \in Nat /\ sent'[me[u].h] \in Nat
            /\ sent[me[u].h] <= sent'[me[u].h]
        BY <1>7, <3>1
      <4> QED
        BY <3>1, <4>1, <4>2
    <3> QED
      BY <1>2, <3>1, <3>2, <3>3 DEF CallOK, At, Open
  <2> QED
    BY <2>1, <2>2
<1>12. ASSUME NEW u \in Threads, u # t, me[u].h = h, ~ At(u, "idle") PROVE h \in shared'
  BY <1>8, <1>12 DEF Busy
<1>13. AloneInv'
  BY <1>1, <1>5, <1>6, <1>8, <1>12 DEF HandleInv, AloneInv, At
<1>14. PosInv'
  <2> SUFFICES ASSUME NEW u \in Threads, me'[u].h \notin shared' PROVE PosOK(u)'
    BY DEF PosInv, PosOK
  <2>1. CASE u = t
    BY <1>2, <1>5, <1>6, <2>1 DEF PosOK, At
  <2>2. CASE u # t
    <3>1. me'[u] = me[u] /\ me[u].h \notin shared /\ PosOK(u)
      BY <1>1, <1>6, <1>8, <2>2 DEF HandleInv, PosInv
    <3> QED
      BY <1>2, <3>1 DEF PosOK, At
  <2> QED
    BY <2>1, <2>2
<1>15. CountInv'
  <2>1. ASSUME NEW g \in Handles, g \notin shared', Open(g), ~ Busy(g) PROVE Counts(g, 0)
    <3>1. offset[g] \in Nat /\ told[g] \in Nat
      BY <1>1 DEF TypeOK
    <3>2. OffsetCounts
      BY <1>1 DEF HandleInv, CountInv
    <3> QED
      BY <1>8, <2>1, <3>1, <3>2 DEF OffsetCounts, Counts
  <2>2. OffsetCounts'
    <3> SUFFICES ASSUME NEW g \in Handles, (Open(g) /\ ~ Busy(g) /\ g \notin shared)'
                 PROVE  IF g \in torn THEN build = "posix" /\ offset[g] > told[g]
                        ELSE offset[g] = told[g]
      BY <1>2 DEF OffsetCounts
    <3>1. ~ Busy(g)
      <4> SUFFICES ASSUME NEW u \in Threads, me[u].h = g, ~ At(u, "idle") PROVE FALSE
        BY DEF Busy
      <4>1. u # t /\ me'[u] = me[u]
        BY <1>2, <1>6
      <4> QED
        BY <4>1 DEF Busy, At
    <3>2. Counts(g, 0)
      BY <1>2, <2>1, <3>1 DEF Open
    <3>3. offset[g] \in Nat /\ told[g] \in Nat
      BY <1>1 DEF TypeOK
    <3> QED
      BY <3>2, <3>3 DEF Counts
  <2>3. ASSUME NEW u \in Threads, ~ At(u, "idle")', me'[u].h \notin shared'
        PROVE  Counts(me[u].h, me[u].written)'
    <3>1. CASE u = t
      <4>1. Counts(h, 0)
        BY <1>2, <1>5, <1>6, <1>8, <2>1, <2>3, <3>1
      <4> QED
        BY <1>2, <1>5, <1>6, <3>1, <4>1 DEF Counts
    <3>2. CASE u # t
      <4>1. me'[u] = me[u] /\ me[u].h \notin shared /\ ~ At(u, "idle")
        BY <1>6, <1>8, <2>3, <3>2 DEF At
      <4>2. Counts(me[u].h, me[u].written)
        BY <1>1, <4>1 DEF HandleInv, CountInv
      <4> QED
        BY <1>2, <4>1, <4>2 DEF Counts
    <3> QED
      BY <3>1, <3>2
  <2> QED
    BY <2>2, <2>3 DEF CountInv
<1>16. ASSUME shared' = {} PROVE (AtInv /\ OrderInv /\ SentInv /\ TakenInv /\ DoneInv)'
  <2>1. /\ AtInv /\ OrderInv /\ SentInv /\ TakenInv /\ DoneInv
        /\ \A u \in Threads : me[u].h = h => At(u, "idle")
    BY <1>8, <1>16 DEF IInv, ByteInv, Busy
  <2>2. AtInv' /\ OrderInv'
    BY <1>2, <2>1 DEF AtInv, OrderInv
  <2>3. \A k \in DOMAIN content : content[k][2] \in Nat
    BY <1>1 DEF TypeOK
  <2>4. SentInv'
    <3> SUFFICES ASSUME NEW k \in DOMAIN content, content[k][1] \in Handles
                 PROVE  content[k][2] <= sent'[content[k][1]]
      BY <1>2 DEF SentInv
    <3>1. content[k][2] <= sent[content[k][1]] /\ sent[content[k][1]] <= sent'[content[k][1]]
      BY <1>7, <2>1 DEF SentInv
    <3>2. content[k][2] \in Nat /\ sent[content[k][1]] \in Nat /\ sent'[content[k][1]] \in Nat
      BY <1>7, <2>3
    <3> QED
      BY <3>1, <3>2
  <2>5. TakenInv'
    <3> SUFFICES ASSUME NEW u \in Threads, NEW k \in DOMAIN content,
                        Appending(u)', content[k][1] = me'[u].h
                 PROVE  content[k][2] <= sent'[me'[u].h] - me'[u].req + me'[u].written
      BY <1>2 DEF TakenInv
    <3>1. CASE u = t
      <4>1. pc = "w_seek" /\ mode[h] = "append" /\ content[k][1] = h
        BY <1>2, <1>5, <1>6, <3>1 DEF Appending, Writing
      <4>2. content[k][2] <= sent[h] /\ sent'[h] = sent[h] + req
        BY <1>7, <2>1, <4>1 DEF SentInv
      <4>3. content[k][2] <= sent'[h] - req + 0
        BY <1>1, <1>4, <2>3, <4>2
      <4> QED
        BY <1>5, <1>6, <3>1, <4>3
    <3>2. CASE u # t
      <4>1. me'[u] = me[u] /\ Appending(u) /\ me[u].h \in Handles
        <5>1. me'[u] = me[u] /\ me[u] \in Frame
          BY <1>1, <1>6, <3>2 DEF TypeOK
        <5> QED
          BY <1>2, <5>1, FrameTypes DEF Appending, Writing
      <4>2. me[u].h # h
        BY <2>1, <4>1 DEF Appending, Writing, At
      <4>3. sent'[me[u].h] = sent[me[u].h]
        BY <1>7, <4>1, <4>2
      <4> QED
        BY <2>1, <4>1, <4>3 DEF TakenInv
    <3> QED
      BY <3>1, <3>2
  <2>6. DoneInv'
    <3> SUFFICES ASSUME NEW u \in Threads PROVE DoneOK(u)'
      BY DEF DoneInv
    <3>1. CASE u = t
      BY <1>5, <1>6, <3>1 DEF DoneOK, At
    <3>2. CASE u # t
      <4>1. me'[u] = me[u] /\ DoneOK(u)
        BY <1>6, <2>1, <3>2 DEF DoneInv
      <4> QED
        BY <1>2, <4>1 DEF DoneOK, At
    <3> QED
      BY <3>1, <3>2
  <2> QED
    BY <2>2, <2>4, <2>5, <2>6
<1> QED
  BY <1>9, <1>10, <1>11, <1>13, <1>14, <1>15, <1>16 DEF IInv, HandleInv, ByteInv

LEMMA StartAnyStep ==
  ASSUME IInv, NEW t \in Threads, StartAny(t)
  PROVE  IInv'
<1>1. Offsets \subseteq 0..MaxLen /\ 1..MaxSize \subseteq 0..MaxSize /\ 0 \in 0..MaxLen /\ 0 \in 0..MaxSize
  BY FileAssumption DEF Offsets, FileAssumption
<1>2. PICK h \in Handles :
        \/ \E off \in Offsets, req \in 0..MaxSize : Start(t, h, "w_seek", off, req)
        \/ \E off \in Offsets, req \in 1..MaxSize : Start(t, h, "r_seek", off, req)
        \/ Start(t, h, "s_cur", 0, 0)
  BY DEF StartAny
<1>3. CASE \E off \in Offsets, req \in 0..MaxSize : Start(t, h, "w_seek", off, req)
  BY <1>1, <1>3, StartStep
<1>4. CASE \E off \in Offsets, req \in 1..MaxSize : Start(t, h, "r_seek", off, req)
  BY <1>1, <1>4, StartStep
<1>5. CASE Start(t, h, "s_cur", 0, 0)
  BY <1>1, <1>5, StartStep
<1> QED
  BY <1>2, <1>3, <1>4, <1>5


-----------------------------------------------------------------------------
(* Steps on a handle that no call is using.                                *)

HandleStep(h) ==
  /\ h \in Handles /\ \A u \in Threads : me[u].h = h => At(u, "idle")
  /\ \A g \in Handles \ {h} :
       /\ mode'[g] = mode[g] /\ pos'[g] = pos[g]
       /\ offset'[g] = offset[g] /\ told'[g] = told[g]
       /\ g \in torn' <=> g \in torn
  /\ UNCHANGED <<build, me, sent, shared>>

LEMMA HandleKeep ==
  ASSUME IInv, NEW h, HandleStep(h), TypeOK', ModeInv',
         (Open(h) /\ h \notin shared)' => Counts(h, 0)',
         \/ AtBytes /\ Len(content) <= Len(content')
         \/ content' = <<>> /\ \A u \in Threads : At(u, "idle")
  PROVE  IInv'
<1>1. HandleInv /\ TypeOK
  BY DEF IInv, HandleInv
<1>2. /\ h \in Handles /\ me' = me /\ build' = build /\ sent' = sent /\ shared' = shared
  BY DEF HandleStep
<1>3. ASSUME NEW u \in Threads, ~ At(u, "idle")
      PROVE  /\ me[u] \in Frame /\ me[u].h \in Handles /\ me[u].h # h
             /\ mode'[me[u].h] = mode[me[u].h] /\ pos'[me[u].h] = pos[me[u].h]
             /\ me[u].len \in Nat /\ me[u].ret \in Int /\ me[u].written \in Nat
             /\ Len(content) \in Nat /\ Len(content') \in Nat /\ Len(content) <= Len(content')
  <2>1. me[u] \in Frame /\ me[u].h \in Handles /\ me[u].len \in Nat /\ me[u].ret \in Int
        /\ me[u].written \in Nat
    BY <1>1, <1>3, InCall
  <2>2. me[u].h # h
    BY <1>3 DEF HandleStep
  <2>3. Len(content) \in Nat /\ Len(content') \in Nat /\ Len(content) <= Len(content')
    BY <1>1, <1>3 DEF TypeOK
  <2> QED
    BY <2>1, <2>2, <2>3 DEF HandleStep
<1>4. CallInv'
  <2> SUFFICES ASSUME NEW u \in Threads PROVE CallOK(u)'
    BY DEF CallInv
  <2>1. CallOK(u)
    BY <1>1 DEF HandleInv, CallInv
  <2>2. CASE At(u, "idle")
    BY <1>2, <2>1, <2>2 DEF CallOK, At
  <2>3. CASE ~ At(u, "idle")
    <3>1. Appending(u)' <=> Appending(u)
      BY <1>2, <1>3, <2>3 DEF Appending, Writing
    <3>2. /\ me[u].len <= Len(content')
          /\ At(u, "s_set") => me[u].len <= me[u].ret /\ me[u].ret <= Len(content')
      <4>1. /\ me[u].len <= Len(content)
            /\ At(u, "s_set") => me[u].len <= me[u].ret /\ me[u].ret <= Len(content)
        BY <2>1, <2>3 DEF CallOK
      <4> QED
        BY <1>3, <2>3, <4>1
    <3> QED
      BY <1>2, <1>3, <2>1, <2>3, <3>1, <3>2 DEF CallOK, At, Open
  <2> QED
    BY <2>2, <2>3
<1>5. AloneInv'
  BY <1>1, <1>2 DEF HandleInv, AloneInv, At
<1>6. PosInv'
  <2> SUFFICES ASSUME NEW u \in Threads, ~ At(u, "idle") PROVE PosOK(u)'
    BY <1>2 DEF PosInv, PosOK, At
  <2>1. PosOK(u)
    BY <1>1 DEF HandleInv, PosInv
  <2> QED
    BY <1>2, <1>3, <2>1 DEF PosOK, At
<1>7. CountInv'
  <2>1. ASSUME NEW g \in Handles, g # h, NEW w \in Nat PROVE Counts(g, w)' <=> Counts(g, w)
    BY <1>2, <2>1 DEF Counts, HandleStep
  <2>2. OffsetCounts'
    <3> SUFFICES ASSUME NEW g \in Handles, (Open(g) /\ ~ Busy(g) /\ g \notin shared)'
                 PROVE  Counts(g, 0)'
      <4>1. \A g \in Handles : offset'[g] \in Nat /\ told'[g] \in Nat
        BY DEF TypeOK
      <4> QED
        BY <4>1 DEF OffsetCounts, Counts
    <3>1. CASE g = h
      BY <3>1
    <3>2. CASE g # h
      <4>1. Open(g) /\ ~ Busy(g) /\ g \notin shared
        BY <1>2, <3>2 DEF Open, Busy, At, HandleStep
      <4>2. offset[g] \in Nat /\ told[g] \in Nat
        BY <1>1 DEF TypeOK
      <4>3. OffsetCounts
        BY <1>1 DEF HandleInv, CountInv
      <4>4. Counts(g, 0)
        BY <4>1, <4>2, <4>3 DEF OffsetCounts, Counts
      <4> QED
        BY <2>1, <3>2, <4>4
    <3> QED
      BY <3>1, <3>2
  <2>3. ASSUME NEW u \in Threads, ~ At(u, "idle"), me[u].h \notin shared
        PROVE  Counts(me[u].h, me[u].written)'
    <3>1. Counts(me[u].h, me[u].written)
      BY <1>1, <2>3 DEF HandleInv, CountInv
    <3> QED
      BY <1>2, <1>3, <2>3, <3>1 DEF Counts, HandleStep
  <2> QED
    BY <1>2, <2>2, <2>3 DEF CountInv, At
<1>8. ASSUME shared = {} PROVE (AtInv /\ OrderInv /\ SentInv /\ TakenInv /\ DoneInv)'
  <2>1. AtInv /\ OrderInv /\ SentInv /\ TakenInv /\ DoneInv
    BY <1>8 DEF IInv, ByteInv
  <2>2. CASE AtBytes /\ Len(content) <= Len(content')
    <3>1. /\ \A k \in DOMAIN content' : content'[k][1] \in Handles =>
               k \in DOMAIN content /\ content'[k] = content[k]
          /\ AtInv' /\ OrderInv'
      BY <1>1, <2>1, <2>2, AtBytesOld
    <3>2. SentInv'
      BY <1>2, <2>1, <3>1 DEF SentInv
    <3>3. TakenInv'
      <4> SUFFICES ASSUME NEW u \in Threads, NEW k \in DOMAIN content',
                          Appending(u)', content'[k][1] = me[u].h
                   PROVE  content'[k][2] <= sent[me[u].h] - me[u].req + me[u].written
        BY <1>2 DEF TakenInv
      <4>1. ~ At(u, "idle")
        BY <1>2 DEF Appending, Writing, At
      <4>2. Appending(u) /\ me[u].h \in Handles
        BY <1>2, <1>3, <4>1 DEF Appending, Writing
      <4> QED
        BY <2>1, <3>1, <4>2 DEF TakenInv
    <3>4. DoneInv'
      <4> SUFFICES ASSUME NEW u \in Threads, (At(u, "w_write") /\ mode[me[u].h] # "append")',
                          NEW i \in 1..me[u].written
                   PROVE  /\ me[u].off + i \in DOMAIN content'
                          /\ content'[me[u].off + i] = <<"at", me[u].off + i>>
        BY <1>2 DEF DoneInv, DoneOK
      <4>1. ~ At(u, "idle") /\ At(u, "w_write")
        BY <1>2 DEF At
      <4>2. mode[me[u].h] # "append"
        BY <1>2, <1>3, <4>1
      <4>3. PICK k : k = me[u].off + i
        OBVIOUS
      <4>4. k \in DOMAIN content /\ content[k] = <<"at", k>>
        BY <2>1, <4>1, <4>2, <4>3 DEF DoneInv, DoneOK
      <4>5. k \in DOMAIN content' /\ content'[k] = <<"at", k>>
        BY <1>1, <2>2, <4>4, AtBytesDone
      <4> QED
        BY <4>3, <4>5
    <3> QED
      BY <3>1, <3>2, <3>3, <3>4
  <2>3. CASE content' = <<>> /\ \A u \in Threads : At(u, "idle")
    <3>1. DOMAIN content' = {}
      BY <2>3
    <3>2. AtInv' /\ OrderInv' /\ SentInv' /\ TakenInv'
      BY <3>1 DEF AtInv, OrderInv, SentInv, TakenInv
    <3>3. DoneInv'
      BY <1>2, <2>3 DEF DoneInv, DoneOK, At
    <3> QED
      BY <3>2, <3>3
  <2> QED
    BY <2>2, <2>3
<1> QED
  BY <1>2, <1>4, <1>5, <1>6, <1>7, <1>8 DEF IInv, HandleInv, ByteInv

LEMMA SameBytes ==
  ASSUME TypeOK, content' = content
  PROVE  AtBytes /\ Len(content) <= Len(content')
BY DEF TypeOK, AtBytes

LEMMA OpenStep ==
  ASSUME IInv, NEW h \in Handles, NEW m \in Modes, NEW as, Opens(h, m, as),
         as \in Modes \cup {"open", "other"}, build = "win32" => as # "append"
  PROVE  IInv'
<1>1. HandleInv /\ TypeOK
  BY DEF IInv, HandleInv
<1>2. /\ mode' = [mode EXCEPT ![h] = as]
      /\ pos' = [pos EXCEPT ![h] = 0] /\ offset' = [offset EXCEPT ![h] = 0]
      /\ told' = [told EXCEPT ![h] = 0] /\ torn' = torn \ {h}
      /\ content' = (IF m = "truncate" THEN <<>> ELSE content)
      /\ build' = build /\ me' = me /\ calls' = calls /\ sent' = sent
      /\ shared' = shared /\ stray' = stray
      /\ ~ Open(h) /\ (m = "truncate" => \A t \in Threads : At(t, "idle"))
  BY DEF Opens
<1>3. TypeOK'
  <2>1. content' \in Seq(Bytes) /\ Len(content') <= MaxLen
    <3>1. content \in Seq(Bytes) /\ Len(content) <= MaxLen /\ MaxLen \in Nat
      BY <1>1, FileAssumption DEF TypeOK, Bytes, FileAssumption
    <3>2. <<>> \in Seq(Bytes) /\ Len(<<>>) = 0
      OBVIOUS
    <3> QED
      BY <1>2, <3>1, <3>2
  <2>2. mode' \in [Handles -> Modes \cup {"open", "other", "closed"}]
    BY <1>1, <1>2 DEF TypeOK
  <2>3. /\ pos' \in [Handles -> 0..MaxLen] /\ offset' \in [Handles -> Nat]
        /\ told' \in [Handles -> Nat] /\ sent' \in [Handles -> Nat]
    <3>1. 0 \in 0..MaxLen
      BY FileAssumption DEF FileAssumption
    <3> QED
      BY <1>1, <1>2, <3>1 DEF TypeOK
  <2> QED
    BY <1>1, <1>2, <2>1, <2>2, <2>3 DEF TypeOK, Bytes
<1>4. ModeInv'
  BY <1>1, <1>2 DEF HandleInv, ModeInv, TypeOK
<1>5. HandleStep(h)
  <2>1. \A u \in Threads : me[u].h = h => At(u, "idle")
    BY <1>1, <1>2 DEF HandleInv, CallInv, CallOK
  <2> QED
    BY <1>1, <1>2, <2>1 DEF HandleStep, TypeOK
<1>6. Counts(h, 0)'
  <2>1. offset'[h] = 0 /\ told'[h] = 0 /\ h \notin torn'
    BY <1>1, <1>2 DEF TypeOK
  <2> QED
    BY <2>1 DEF Counts
<1>7. CASE m = "truncate"
  BY <1>2, <1>3, <1>4, <1>5, <1>6, <1>7, HandleKeep
<1>8. CASE m # "truncate"
  <2>1. AtBytes /\ Len(content) <= Len(content')
    BY <1>1, <1>2, <1>8, SameBytes
  <2> QED
    BY <1>3, <1>4, <1>5, <1>6, <2>1, HandleKeep
<1> QED
  BY <1>7, <1>8

LEMMA CloseStep ==
  ASSUME IInv, NEW h \in Handles, spr_file_close(h)
  PROVE  IInv'
<1>1. HandleInv /\ TypeOK
  BY DEF IInv, HandleInv
<1>2. /\ mode' = [mode EXCEPT ![h] = "closed"]
      /\ offset' = [offset EXCEPT ![h] = 0] /\ told' = [told EXCEPT ![h] = 0]
      /\ build' = build /\ content' = content /\ pos' = pos /\ me' = me /\ calls' = calls
      /\ sent' = sent /\ torn' = torn /\ shared' = shared /\ stray' = stray /\ ~ Busy(h)
  BY DEF spr_file_close
<1>3. TypeOK'
  <2>1. mode' \in [Handles -> Modes \cup {"open", "other", "closed"}]
    BY <1>1, <1>2 DEF TypeOK
  <2>2. offset' \in [Handles -> Nat] /\ told' \in [Handles -> Nat] /\ sent' \in [Handles -> Nat]
    BY <1>1, <1>2 DEF TypeOK
  <2> QED
    BY <1>1, <1>2, <2>1, <2>2 DEF TypeOK
<1>4. ModeInv'
  BY <1>1, <1>2 DEF HandleInv, ModeInv, TypeOK
<1>5. HandleStep(h)
  BY <1>1, <1>2 DEF HandleStep, TypeOK, Busy
<1>6. ~ Open(h)'
  BY <1>1, <1>2 DEF Open, TypeOK
<1>7. AtBytes /\ Len(content) <= Len(content')
  BY <1>1, <1>2, SameBytes
<1> QED
  BY <1>3, <1>4, <1>5, <1>6, <1>7, HandleKeep

LEMMA FdType ==
  ASSUME TypeOK, NEW t \in Threads, calls[t] > 0, calls' = [calls EXCEPT ![t] = @ - 1],
         content' \in Seq(Bytes), Len(content') <= MaxLen, pos' \in [Handles -> 0..MaxLen],
         UNCHANGED <<build, mode, offset, me, ghosts>>
  PROVE  TypeOK'
<1>1. calls' \in [Threads -> 0..MaxCalls]
  <2>1. MaxCalls \in Nat
    BY FileAssumption DEF FileAssumption
  <2>2. calls[t] \in 0..MaxCalls /\ calls[t] - 1 \in 0..MaxCalls
    BY <2>1 DEF TypeOK
  <2> QED
    BY <2>2 DEF TypeOK
<1> QED
  BY <1>1 DEF TypeOK, ghosts, Bytes

(* The position of an idle handle moves, and at most bytes at their offset *)
(* are written.                                                            *)
LEMMA FdKeep ==
  ASSUME IInv, TypeOK', NEW h \in Handles, ~ Busy(h), \A g \in Handles \ {h} : pos'[g] = pos[g],
         UNCHANGED <<build, mode, offset, me, ghosts>>,
         AtBytes, Len(content) <= Len(content')
  PROVE  IInv'
<1>1. HandleInv /\ TypeOK
  BY DEF IInv, HandleInv
<1>2. /\ build' = build /\ mode' = mode /\ offset' = offset /\ me' = me /\ sent' = sent
      /\ told' = told /\ torn' = torn /\ shared' = shared
  BY DEF ghosts
<1>3. ModeInv'
  BY <1>1, <1>2 DEF HandleInv, ModeInv
<1>4. HandleStep(h)
  BY <1>2 DEF HandleStep, Busy
<1>5. ASSUME (Open(h) /\ h \notin shared)' PROVE Counts(h, 0)'
  <2>1. offset[h] \in Nat /\ told[h] \in Nat
    BY <1>1 DEF TypeOK
  <2>2. OffsetCounts
    BY <1>1 DEF HandleInv, CountInv
  <2>3. Counts(h, 0)
    BY <1>2, <1>5, <2>1, <2>2 DEF OffsetCounts, Counts, Open
  <2> QED
    BY <1>2, <2>3 DEF Counts
<1> QED
  BY <1>3, <1>4, <1>5, HandleKeep

LEMMA ReadFdStep ==
  ASSUME IInv, NEW t \in Threads, NEW h \in Handles, spr_read_fd(t, h)
  PROVE  IInv'
<1>1. TypeOK /\ ~ Busy(h) /\ calls[t] > 0 /\ calls' = [calls EXCEPT ![t] = @ - 1]
      /\ content' = content /\ pos[h] < Len(content)
      /\ UNCHANGED <<build, mode, offset, me, ghosts>>
  BY DEF IInv, HandleInv, spr_read_fd
<1>2. PICK n \in 1..Min({MaxSize, Len(content) - pos[h]}) : pos' = [pos EXCEPT ![h] = @ + n]
  BY DEF spr_read_fd
<1>3. /\ MaxSize \in Nat /\ pos[h] \in Nat /\ Len(content) \in Nat /\ Len(content) <= MaxLen
      /\ content \in Seq(Bytes)
  BY <1>1, FileAssumption DEF TypeOK, FileAssumption, Bytes
<1>4. PICK m : m = Len(content) - pos[h]
  OBVIOUS
<1>5. m \in Int /\ Min({MaxSize, m}) = IF MaxSize <= m THEN MaxSize ELSE m
  BY <1>3, <1>4, MinOfTwo
<1>6. n \in 1..Min({MaxSize, m}) /\ MaxLen \in Nat
  BY <1>2, <1>4, FileAssumption DEF FileAssumption
<1>7. n \in Nat /\ pos[h] + n \in Nat /\ pos[h] + n <= MaxLen
  BY <1>3, <1>4, <1>5, <1>6
<1>8. pos' \in [Handles -> 0..MaxLen] /\ \A g \in Handles \ {h} : pos'[g] = pos[g]
  <2>1. pos' = [pos EXCEPT ![h] = pos[h] + n]
    BY <1>2
  <2> QED
    BY <1>1, <1>7, <2>1, PosMoves
<1>9. TypeOK'
  BY <1>1, <1>3, <1>8, FdType
<1>10. AtBytes /\ Len(content) <= Len(content')
  BY <1>1, SameBytes
<1> QED
  BY <1>1, <1>8, <1>9, <1>10, FdKeep

LEMMA WriteFdStep ==
  ASSUME IInv, NEW t \in Threads, NEW h \in Handles, spr_write_fd(t, h)
  PROVE  IInv'
<1>1. TypeOK /\ ~ Busy(h) /\ calls[t] > 0 /\ calls' = [calls EXCEPT ![t] = @ - 1]
      /\ Room(pos[h]) > 0 /\ UNCHANGED <<build, mode, offset, me, ghosts>>
  BY DEF IInv, HandleInv, spr_write_fd
<1>2. PICK n \in 1..Min({MaxSize, Room(pos[h])}) :
        /\ content' = Overwritten(pos[h], [i \in 1..n |-> <<"at", pos[h] + i>>])
        /\ pos' = [pos EXCEPT ![h] = @ + n]
  BY DEF spr_write_fd
<1>3. MaxSize \in Nat /\ MaxLen \in Nat /\ pos[h] \in Nat /\ pos[h] \in 0..MaxLen
      /\ Len(content) \in Nat
  BY <1>1, FileAssumption DEF TypeOK, FileAssumption
<1>4. PICK room : room = Room(pos[h])
  OBVIOUS
<1>5. room \in Nat /\ \A k \in Nat : k <= room /\ k > 0 => pos[h] + k <= MaxLen
  BY <1>3, <1>4, RoomBounds, FileAssumption
<1>6. n \in 1..Min({MaxSize, room})
  BY <1>2, <1>4
<1>7. Min({MaxSize, room}) = IF MaxSize <= room THEN MaxSize ELSE room
  BY <1>3, <1>5, MinOfTwo
<1>8. n \in Nat /\ n > 0 /\ n <= room
  BY <1>3, <1>5, <1>6, <1>7
<1>9. pos' \in [Handles -> 0..MaxLen] /\ \A g \in Handles \ {h} : pos'[g] = pos[g]
  <2>1. pos' = [pos EXCEPT ![h] = pos[h] + n] /\ pos[h] + n \in Nat /\ pos[h] + n <= MaxLen
    BY <1>2, <1>3, <1>5, <1>8
  <2> QED
    BY <1>1, <2>1, PosMoves
<1>10. PICK s : s = [i \in 1..n |-> <<"at", pos[h] + i>>]
  OBVIOUS
<1>11. s \in [1..n -> Bytes]
  <2>1. \A i \in 1..n : <<"at", pos[h] + i>> \in Bytes
    BY <1>3, <1>8 DEF Bytes
  <2> QED
    BY <1>10, <2>1
<1>12. PICK new : new = content'
  OBVIOUS
<1>13. /\ new \in Seq(Bytes) /\ Len(new) <= MaxLen /\ Len(content) <= Len(new)
       /\ \A k \in 1..Len(new) :
            \/ k \in (pos[h] + 1)..(pos[h] + n) /\ new[k] = s[k - pos[h]]
            \/ k \notin (pos[h] + 1)..(pos[h] + n) /\ k \in 1..Len(content) /\ new[k] = content[k]
            \/ k \notin (pos[h] + 1)..(pos[h] + n) /\ k > Len(content) /\ new[k] = Hole
  <2>1. PICK p : p = pos[h]
    OBVIOUS
  <2>2. p \in 0..MaxLen /\ n <= Room(p) /\ new = Overwritten(p, s)
    BY <1>2, <1>3, <1>4, <1>8, <1>10, <1>12, <2>1
  <2>3. /\ new \in Seq(Bytes) /\ Len(new) <= MaxLen /\ Len(content) <= Len(new)
        /\ n > 0 => p + n <= Len(new)
        /\ Len(new) <= Len(content) \/ (n > 0 /\ Len(new) = p + n)
        /\ \A k \in 1..Len(new) :
             \/ k \in (p + 1)..(p + n) /\ new[k] = s[k - p]
             \/ k \notin (p + 1)..(p + n) /\ k \in 1..Len(content) /\ new[k] = content[k]
             \/ k \notin (p + 1)..(p + n) /\ k > Len(content) /\ new[k] = Hole
    <3>1. TypeOK /\ n \in Nat
      BY <1>1, <1>8
    <3>2. WrittenAt(p, n, s, new)
      BY ONLY <1>11, <2>2, <3>1, OverwrittenWritten, FileAssumption
    <3> QED
      BY ONLY <3>2 DEF WrittenAt
  <2> QED
    BY <2>1, <2>3
<1>14. AtBytes
  <2> SUFFICES ASSUME NEW k \in 1..Len(new)
               PROVE  \/ new[k] = <<"at", k>>
                      \/ k \in 1..Len(content) /\ new[k] = content[k]
                      \/ k \notin 1..Len(content) /\ new[k] = Hole
    BY <1>12 DEF AtBytes
  <2>1. CASE k \in (pos[h] + 1)..(pos[h] + n)
    <3>1. k - pos[h] \in 1..n /\ pos[h] + (k - pos[h]) = k
      BY <1>3, <1>8, <2>1
    <3>2. s[k - pos[h]] = <<"at", pos[h] + (k - pos[h])>>
      BY <1>10, <3>1
    <3> QED
      BY <1>13, <2>1, <3>1, <3>2
  <2>2. CASE k \notin (pos[h] + 1)..(pos[h] + n)
    BY <1>3, <1>13, <2>2
  <2> QED
    BY <2>1, <2>2
<1>15. TypeOK'
  BY <1>1, <1>9, <1>12, <1>13, FdType
<1> QED
  BY <1>1, <1>9, <1>12, <1>13, <1>14, <1>15, FdKeep


-----------------------------------------------------------------------------
(* The invariant.                                                          *)

LEMMA InitIInv == Init => IInv
<1> SUFFICES ASSUME Init PROVE IInv
  OBVIOUS
<1>1. MaxLen \in Nat /\ MaxSize \in Nat /\ MaxCalls \in Nat /\ 0 \in 0..MaxLen
  BY FileAssumption DEF FileAssumption
<1>2. PICK c : c = CHOOSE h \in Handles : TRUE
  OBVIOUS
<1>3. c \in Handles /\ 0 \in -1..MaxLen
  BY <1>1, <1>2, FileAssumption DEF FileAssumption
<1>4. /\ me \in [Threads -> Frame]
      /\ \A t \in Threads : me[t].pc = "idle" /\ me[t].written = 0
  <2>1. Idle(c, 0) \in Frame /\ Idle(c, 0).pc = "idle" /\ Idle(c, 0).written = 0
    BY <1>3, IdleFrame
  <2> QED
    BY <1>2, <2>1 DEF Init
<1>5. /\ mode = [h \in Handles |-> "closed"] /\ content = <<>> /\ shared = {}
      /\ DOMAIN content = {} /\ Len(content) = 0 /\ content \in Seq(Bytes)
  BY DEF Init
<1>6. TypeOK
  <2>1. /\ pos \in [Handles -> 0..MaxLen] /\ offset \in [Handles -> Nat]
        /\ sent \in [Handles -> Nat] /\ told \in [Handles -> Nat]
    BY <1>1 DEF Init
  <2>2. mode \in [Handles -> Modes \cup {"open", "other", "closed"}] /\ calls \in [Threads -> 0..MaxCalls]
    BY <1>1, <1>5 DEF Init
  <2>3. build \in Builds /\ torn \subseteq Handles /\ stray \in BOOLEAN /\ shared \subseteq Handles
    BY DEF Init
  <2>4. Len(content) <= MaxLen
    BY <1>1, <1>5
  <2>5. content \in Seq(({"at", "hole"} \cup Handles) \X Nat)
    BY <1>5 DEF Bytes
  <2> QED
    BY <1>4, <2>1, <2>2, <2>3, <2>4, <2>5 DEF TypeOK
<1>7. ModeInv /\ CountInv
  BY <1>4, <1>5 DEF ModeInv, CountInv, OffsetCounts, Open, At
<1>8. CallInv /\ AloneInv /\ PosInv
  BY <1>4 DEF CallInv, CallOK, AloneInv, PosInv, PosOK, At
<1>9. ByteInv
  BY <1>4, <1>5 DEF ByteInv, AtInv, OrderInv, SentInv, TakenInv, DoneInv, DoneOK, At
<1> QED
  BY <1>6, <1>7, <1>8, <1>9 DEF IInv, HandleInv

LEMMA ThreadStep ==
  ASSUME IInv, NEW t \in Threads, Step(t)
  PROVE  IInv'
<1>1. CASE Seek(t, "w_seek", "w_write")
  BY <1>1, SeekStep
<1>2. CASE write_round(t)
  BY <1>2, WriteRoundStep
<1>3. CASE Seek(t, "r_seek", "r_read")
  BY <1>3, SeekStep
<1>4. CASE read_bytes(t)
  BY <1>4, ReadStep
<1>5. CASE size_cur(t)
  BY <1>5, SizeCurStep
<1>6. CASE size_end(t)
  BY <1>6, SizeEndStep
<1>7. CASE size_set(t)
  BY <1>7, SizeSetStep
<1>8. CASE win32_file_write(t)
  BY <1>8, Win32WriteStep
<1>9. CASE win32_write_strays(t)
  BY <1>9, Win32StrayStep
<1>10. CASE win32_file_read(t)
  BY <1>10, Win32ReadStep
<1>11. CASE win32_file_size(t)
  BY <1>11, Win32SizeStep
<1>12. CASE win32_elsewhere(t)
  BY <1>12, ElsewhereStep
<1> QED
  BY <1>1, <1>2, <1>3, <1>4, <1>5, <1>6, <1>7, <1>8, <1>9, <1>10, <1>11, <1>12 DEF Step

LEMMA NextIInv == IInv /\ [Next]_vars => IInv'
<1> SUFFICES ASSUME IInv, [Next]_vars PROVE IInv'
  OBVIOUS
<1>1. ASSUME NEW h \in Handles, NEW m \in Modes, spr_file_open(h, m) \/ win32_file_open(h, m)
      PROVE  IInv'
  <2>1. PICK as \in Modes \cup {"open", "other"} :
          Opens(h, m, as) /\ (build = "win32" => as # "append")
    BY <1>1 DEF spr_file_open, win32_file_open
  <2> QED
    BY <2>1, OpenStep
<1>2. CASE \E h \in Handles : spr_file_close(h)
  BY <1>2, CloseStep
<1>3. ASSUME NEW t \in Threads, StartAny(t) PROVE IInv'
  BY <1>3, StartAnyStep
<1>4. ASSUME NEW t \in Threads, Step(t) PROVE IInv'
  BY <1>4, ThreadStep
<1>5. ASSUME NEW t \in Threads, write_fails(t) PROVE IInv'
  BY <1>5, FailStep DEF write_fails, At
<1>6. ASSUME NEW t \in Threads, NEW h \in Handles, spr_read_fd(t, h) PROVE IInv'
  BY <1>6, ReadFdStep
<1>7. ASSUME NEW t \in Threads, NEW h \in Handles, spr_write_fd(t, h) PROVE IInv'
  BY <1>7, WriteFdStep
<1>8. CASE UNCHANGED vars
  <2>1. /\ build' = build /\ content' = content /\ mode' = mode /\ pos' = pos /\ offset' = offset
        /\ me' = me /\ calls' = calls /\ sent' = sent /\ told' = told /\ torn' = torn
        /\ shared' = shared /\ stray' = stray
    BY <1>8 DEF vars, kernel, ghosts
  <2>2. TypeOK' /\ ModeInv' /\ AloneInv'
    BY <2>1 DEF IInv, HandleInv, TypeOK, ModeInv, AloneInv, At
  <2>3. CallInv' /\ PosInv'
    BY <2>1 DEF IInv, HandleInv, CallInv, CallOK, PosInv, PosOK, Appending, Writing, Open, At
  <2>4. CountInv'
    BY <2>1 DEF IInv, HandleInv, CountInv, OffsetCounts, Counts, Open, Busy, At
  <2>5. ByteInv'
    BY <2>1 DEF IInv, ByteInv, AtInv, OrderInv, SentInv, TakenInv, DoneInv, DoneOK, Appending, Writing, At
  <2> QED
    BY <2>2, <2>3, <2>4, <2>5 DEF IInv, HandleInv
<1> QED
  BY <1>1, <1>2, <1>3, <1>4, <1>5, <1>6, <1>7, <1>8 DEF Next

LEMMA Inductive == Spec => []IInv
<1> QED
  BY InitIInv, NextIInv, PTL DEF Spec

(***************************************************************************)
(* As long as calls do not overlap on a handle, every byte of the file is  *)
(* where spr_file_write was told to put it or in the order it was appended *)
(* in, and the offset field counts what the calls have reported, whatever  *)
(* the sizes of the transfers, the failures and the interleaving.          *)
(***************************************************************************)
THEOREM BytesInPlace == Spec => []FileInv
<1>1. IInv => FileInv
  <2> SUFFICES ASSUME IInv PROVE FileInv
    OBVIOUS
  <2>1. TypeOK /\ OffsetCounts
    BY DEF IInv, HandleInv, CountInv
  <2>2. PlacedRight
    BY DEF IInv, ByteInv, AtInv, OrderInv, PlacedRight
  <2> QED
    BY <2>1, <2>2 DEF FileInv
<1> QED
  BY Inductive, <1>1, PTL

-----------------------------------------------------------------------------
(* What calls return.                                                      *)

(* A step of one thread leaves the calls of the others alone.              *)
LEMMA OthersWait ==
  ASSUME IInv, NEW u \in Threads, NEW t \in Threads, t # u,
         Step(u) \/ write_fails(u) \/ StartAny(u)
  PROVE  me'[t] = me[t]
<1>1. ASSUME NEW f, Set(u, f) PROVE me'[t] = me[t]
  <2>1. me \in [Threads -> Frame] /\ me' = [me EXCEPT ![u] = f]
    BY <1>1 DEF IInv, HandleInv, TypeOK, Set
  <2> QED
    BY <2>1
<1>2. ASSUME NEW r, Return(u, r) PROVE me'[t] = me[t]
  BY <1>1, <1>2 DEF Return
<1>3. ASSUME Fail(u) PROVE me'[t] = me[t]
  BY <1>2, <1>3 DEF Fail
<1>4. CASE write_fails(u) \/ StartAny(u)
  BY <1>1, <1>3, <1>4 DEF write_fails, StartAny, Start
<1>5. CASE write_round(u)
  BY <1>1, <1>2, <1>5 DEF write_round, WriteSome
<1>6. CASE Seek(u, "w_seek", "w_write") \/ Seek(u, "r_seek", "r_read")
  BY <1>1, <1>3, <1>6 DEF Seek
<1>7. CASE read_bytes(u)
  BY <1>2, <1>3, <1>7 DEF read_bytes
<1>8. CASE size_cur(u) \/ size_end(u) \/ size_set(u)
  BY <1>1, <1>2, <1>3, <1>8 DEF size_cur, size_end, size_set
<1>9. CASE win32_file_write(u)
  BY <1>2, <1>3, <1>9 DEF win32_file_write
<1>10. CASE win32_write_strays(u) \/ win32_file_size(u)
  BY <1>2, <1>3, <1>10 DEF win32_write_strays, win32_file_size
<1>11. CASE win32_file_read(u)
  BY <1>2, <1>3, <1>11 DEF win32_file_read
<1>12. CASE win32_elsewhere(u)
  BY <1>2, <1>3, <1>12 DEF win32_elsewhere
<1> QED
  BY <1>4, <1>5, <1>6, <1>7, <1>8, <1>9, <1>10, <1>11, <1>12 DEF Step

(* A call returns in a step of its own thread that has not failed.         *)
LEMMA WhoReturns ==
  ASSUME IInv, [Next]_vars, NEW t \in Threads, Returns(t)
  PROVE  Step(t) /\ ~ Fail(t) /\ ~ At(t, "idle")
<1>1. ~ At(t, "idle") /\ me'[t].pc = "idle" /\ me'[t].ret >= 0 /\ me'[t] # me[t]
  BY DEF Returns, At
<1>2. ~ Fail(t)
  <2> SUFFICES ASSUME Fail(t) PROVE FALSE
    OBVIOUS
  <2>1. Return(t, -1) /\ -1 \in -1..MaxLen /\ HandleInv
    BY FileAssumption DEF Fail, FileAssumption, IInv
  <2>2. me'[t].ret = -1
    BY <1>1, <2>1, ReturnFacts
  <2> QED
    BY <1>1, <2>2
<1>3. me' # me
  BY <1>1
<1>4. ~ \E h \in Handles, m \in Modes : spr_file_open(h, m) \/ win32_file_open(h, m)
  BY <1>3 DEF spr_file_open, win32_file_open, Opens
<1>5. /\ ~ \E h \in Handles : spr_file_close(h)
      /\ \A u \in Threads, h \in Handles : ~ spr_read_fd(u, h) /\ ~ spr_write_fd(u, h)
  BY <1>3 DEF spr_file_close, spr_read_fd, spr_write_fd
<1>6. ~ UNCHANGED vars
  BY <1>3 DEF vars
<1>7. PICK u \in Threads : Step(u) \/ write_fails(u) \/ StartAny(u)
  BY <1>4, <1>5, <1>6 DEF Next
<1>8. u = t
  BY <1>1, <1>7, OthersWait
<1>9. ~ write_fails(t) /\ ~ StartAny(t)
  BY <1>1, <1>2 DEF write_fails, StartAny, Start
<1> QED
  BY <1>1, <1>2, <1>7, <1>8, <1>9


(* The forms of a step in which spr_file_write, spr_file_read and          *)
(* spr_file_size return.                                                   *)
LEMMA WriteReturns ==
  ASSUME IInv, [Next]_vars, NEW t \in Threads, Returns(t), Writing(t), ~ stray',
         ~ Elsewhere(t)
  PROVE  \E p, n : /\ Writes(t, p, n) /\ me[t].written + n = me[t].req
                   /\ me'[t].ret = me[t].req /\ pos'[me[t].h] = p + n
<1>1. Step(t) /\ ~ Fail(t) /\ ~ At(t, "idle") /\ me'[t].pc = "idle"
  BY WhoReturns DEF Returns
<1>2. HandleInv /\ pos \in [Handles -> 0..MaxLen]
  BY DEF IInv, HandleInv, TypeOK
<1>3. /\ me[t] \in Frame /\ me[t].h \in Handles /\ CallOK(t) /\ me[t].req \in Nat
      /\ me[t].written \in Nat /\ me[t].req <= MaxSize /\ MaxSize \in Nat
      /\ MaxLen \in Nat /\ MaxSize <= MaxLen
  BY <1>1, <1>2, InCall
<1>4. me[t].req \in -1..MaxLen
  BY <1>3
<1>5. \/ write_round(t) \/ win32_file_write(t) \/ Seek(t, "w_seek", "w_write")
  BY <1>1 DEF Step, Writing, At, Seek, read_bytes, size_cur, size_end, size_set,
              win32_write_strays, win32_file_read, win32_file_size, win32_elsewhere
<1>6. ASSUME NEW f, Set(t, f) PROVE me'[t] = f
  <2>1. me \in [Threads -> Frame] /\ me' = [me EXCEPT ![t] = f]
    BY <1>2, <1>6 DEF HandleInv, TypeOK, Set
  <2> QED
    BY <2>1
<1>7. ~ Seek(t, "w_seek", "w_write")
  <2> SUFFICES ASSUME Seek(t, "w_seek", "w_write") PROVE FALSE
    OBVIOUS
  <2>1. me'[t] = [me[t] EXCEPT !.pc = "w_write"]
    BY <1>1, <1>6 DEF Seek
  <2> QED
    BY <1>1, <1>3, <2>1 DEF Frame
<1>8. CASE write_round(t)
  <2>1. PICK n \in Nat :
          /\ Writes(t, Place(me[t].h), n)
          /\ pos' = [pos EXCEPT ![me[t].h] = Place(me[t].h) + n]
          /\ \/ n = Rest(t) /\ Return(t, me[t].written + n)
             \/ Set(t, [me[t] EXCEPT !.written = @ + n])
    BY <1>8, RoundFacts
  <2>2. ~ Set(t, [me[t] EXCEPT !.written = @ + n])
    <3> SUFFICES ASSUME Set(t, [me[t] EXCEPT !.written = @ + n]) PROVE FALSE
      OBVIOUS
    <3>1. me'[t] = [me[t] EXCEPT !.written = @ + n]
      BY <1>6
    <3>2. me'[t].pc = me[t].pc
      BY <1>3, <3>1 DEF Frame
    <3> QED
      BY <1>1, <3>2 DEF At
  <2>3. n = Rest(t) /\ me[t].written + n = me[t].req /\ Return(t, me[t].req)
    BY <1>3, <2>1, <2>2 DEF Rest
  <2>4. me'[t].ret = me[t].req
    BY <1>1, <1>2, <1>4, <2>3, ReturnFacts
  <2>5. pos'[me[t].h] = Place(me[t].h) + n
    BY <1>2, <1>3, <2>1
  <2> QED
    BY <2>1, <2>3, <2>4, <2>5
<1>9. CASE win32_file_write(t)
  <2>1. PICK n \in Nat :
          /\ Writes(t, me[t].off, n)
          /\ pos' = [pos EXCEPT ![me[t].h] = me[t].off + n]
          /\ (n = me[t].req /\ Return(t, n)) \/ Return(t, -1)
    BY <1>1, <1>9, Win32WriteFacts
  <2>2. ~ Return(t, -1)
    <3> SUFFICES ASSUME Return(t, -1) PROVE FALSE
      OBVIOUS
    <3>1. -1 \in -1..MaxLen
      BY <1>3
    <3>2. me'[t].ret = -1
      BY <1>1, <1>2, <3>1, ReturnFacts
    <3> QED
      BY <3>2 DEF Returns
  <2>3. n = me[t].req /\ Return(t, me[t].req)
    BY <2>1, <2>2
  <2>4. me'[t].ret = me[t].req
    BY <1>1, <1>2, <1>4, <2>3, ReturnFacts
  <2>5. me[t].written = 0
    BY <1>9, <1>3 DEF win32_file_write, CallOK, At
  <2>6. pos'[me[t].h] = me[t].off + n /\ me[t].written + n = me[t].req
    BY <1>2, <1>3, <2>1, <2>3, <2>5
  <2> QED
    BY <2>1, <2>4, <2>6
<1> QED
  BY <1>5, <1>7, <1>8, <1>9

LEMMA ReadReturns ==
  ASSUME IInv, [Next]_vars, NEW t \in Threads, Returns(t),
         me[t].pc \in {"r_seek", "r_read"}, me[t].h \notin shared, ~ Elsewhere(t)
  PROVE  pos'[me[t].h] = me[t].off + me'[t].ret
<1>1. Step(t) /\ ~ Fail(t) /\ ~ At(t, "idle") /\ me'[t].pc = "idle"
  BY WhoReturns DEF Returns
<1>2. HandleInv /\ pos \in [Handles -> 0..MaxLen] /\ me \in [Threads -> Frame]
  BY DEF IInv, HandleInv, TypeOK
<1>3. me[t].h \in Handles /\ me[t] \in Frame /\ PosOK(t)
  BY <1>1, <1>2, InCall
<1>4. ASSUME NEW f, Set(t, f) PROVE me'[t] = f
  <2>1. me' = [me EXCEPT ![t] = f]
    BY <1>4 DEF Set
  <2> QED
    BY <1>2, <2>1
<1>5. ASSUME NEW n, Return(t, n) PROVE me'[t].ret = n
  <2>1. me'[t] = Idle(me[t].h, n)
    BY <1>4, <1>5 DEF Return
  <2> QED
    BY <2>1 DEF Idle
<1>6. CASE At(t, "r_read")
  <2>1. read_bytes(t)
    BY <1>1, <1>6 DEF Step, At, Seek, write_round, WriteSome, size_cur, size_end, size_set,
                      win32_file_write, win32_write_strays, win32_file_read, win32_file_size,
                      win32_elsewhere
  <2>2. \E n : pos' = [pos EXCEPT ![me[t].h] = @ + n] /\ Return(t, n)
    BY <1>1, <2>1 DEF read_bytes
  <2>3. PICK n : pos' = [pos EXCEPT ![me[t].h] = @ + n] /\ Return(t, n)
    BY <2>2
  <2>4. pos'[me[t].h] = pos[me[t].h] + n
    BY <1>2, <1>3, <2>3
  <2>5. pos[me[t].h] = me[t].off
    BY <1>3, <1>6 DEF PosOK
  <2> QED
    BY <1>5, <2>3, <2>4, <2>5
<1>7. CASE At(t, "r_seek")
  <2>1. win32_file_read(t) \/ Seek(t, "r_seek", "r_read")
    BY <1>1, <1>7 DEF Step, At, Seek, read_bytes, write_round, WriteSome, size_cur, size_end, size_set,
                      win32_file_write, win32_write_strays, win32_file_size, win32_elsewhere
  <2>2. ~ Seek(t, "r_seek", "r_read")
    <3> SUFFICES ASSUME Seek(t, "r_seek", "r_read") PROVE FALSE
      OBVIOUS
    <3>1. me'[t] = [me[t] EXCEPT !.pc = "r_read"]
      BY <1>1, <1>4 DEF Seek
    <3> QED
      BY <1>1, <1>3, <3>1 DEF Frame
  <2>3. PICK n : pos' = [pos EXCEPT ![me[t].h] = me[t].off + n] /\ Return(t, n)
    BY <1>1, <2>1, <2>2 DEF win32_file_read
  <2>4. pos'[me[t].h] = me[t].off + n
    BY <1>2, <1>3, <2>3
  <2> QED
    BY <1>5, <2>3, <2>4
<1> QED
  BY <1>6, <1>7 DEF At

LEMMA SizeReturns ==
  ASSUME IInv, [Next]_vars, NEW t \in Threads, Returns(t), me[t].pc \in {"s_cur", "s_set"},
         ~ Elsewhere(t)
  PROVE  /\ me[t].len <= me'[t].ret /\ me'[t].ret <= Len(content')
         /\ me[t].h \notin shared => pos'[me[t].h] = me[t].was
<1>1. Step(t) /\ ~ Fail(t) /\ ~ At(t, "idle") /\ me'[t].pc = "idle"
  BY WhoReturns DEF Returns
<1>2. HandleInv /\ pos \in [Handles -> 0..MaxLen] /\ me \in [Threads -> Frame] /\ Len(content) \in Nat
  BY DEF IInv, HandleInv, TypeOK
<1>3. me[t].h \in Handles /\ me[t] \in Frame /\ PosOK(t) /\ CallOK(t)
  BY <1>1, <1>2, InCall
<1>4. ASSUME NEW f, Set(t, f) PROVE me'[t] = f
  <2>1. me' = [me EXCEPT ![t] = f]
    BY <1>4 DEF Set
  <2> QED
    BY <1>2, <2>1
<1>5. ASSUME NEW n, Return(t, n) PROVE me'[t].ret = n
  <2>1. me'[t] = Idle(me[t].h, n)
    BY <1>4, <1>5 DEF Return
  <2> QED
    BY <2>1 DEF Idle
<1>6. CASE At(t, "s_set")
  <2>1. size_set(t)
    BY <1>1, <1>6 DEF Step, At, Seek, read_bytes, write_round, WriteSome, size_cur, size_end,
                      win32_file_write, win32_write_strays, win32_file_read, win32_file_size,
                      win32_elsewhere
  <2>2. /\ pos' = [pos EXCEPT ![me[t].h] = me[t].off] /\ Return(t, me[t].ret)
        /\ content' = content
    BY <1>1, <2>1 DEF size_set
  <2>3. pos'[me[t].h] = me[t].off /\ me'[t].ret = me[t].ret
    BY <1>2, <1>3, <1>5, <2>2
  <2>4. me[t].len <= me[t].ret /\ me[t].ret <= Len(content)
    BY <1>1, <1>3, <1>6 DEF CallOK
  <2>5. me[t].h \notin shared => me[t].off = me[t].was
    BY <1>3, <1>6 DEF PosOK, At
  <2> QED
    BY <2>2, <2>3, <2>4, <2>5
<1>7. CASE At(t, "s_cur")
  <2>1. win32_file_size(t) \/ size_cur(t)
    BY <1>1, <1>7 DEF Step, At, Seek, read_bytes, write_round, WriteSome, size_end, size_set,
                      win32_file_write, win32_write_strays, win32_file_read, win32_elsewhere
  <2>2. ~ size_cur(t)
    <3> SUFFICES ASSUME size_cur(t) PROVE FALSE
      OBVIOUS
    <3>1. me'[t] = [me[t] EXCEPT !.pc = "s_end", !.off = pos[me[t].h]]
      BY <1>1, <1>4 DEF size_cur
    <3> QED
      BY <1>1, <1>3, <3>1 DEF Frame
  <2>3. Return(t, Len(content)) /\ content' = content /\ pos' = pos
    BY <1>1, <2>1, <2>2 DEF win32_file_size, kernel
  <2>4. me[t].len <= Len(content) /\ (me[t].h \notin shared => pos[me[t].h] = me[t].was)
    BY <1>1, <1>3, <1>7 DEF CallOK, PosOK
  <2> QED
    BY <1>2, <1>5, <2>3, <2>4
<1> QED
  BY <1>6, <1>7 DEF At

(***************************************************************************)
(* A size that spr_file_write returns is the size it was asked to write,   *)
(* with every byte in the file; a read or a write that returns leaves the  *)
(* descriptor right behind its bytes.  As in the property, handles whose   *)
(* Win32 path was not converted are an exception.                          *)
(***************************************************************************)
THEOREM TransfersAreRight == Spec => TransfersRight
<1>1. IInv /\ [Next]_vars =>
        [\A t \in Threads :
           me[t].pc \in {"w_seek", "w_write"} /\ Returns(t) /\ Alone(t) =>
             /\ me'[t].ret = me[t].req
             /\ mode[me[t].h] # "append" /\ shared = {} =>
                  \A i \in 1..me[t].req :
                    /\ me[t].off + i \in DOMAIN content'
                    /\ content'[me[t].off + i] = <<"at", me[t].off + i>>]_vars
  <2> SUFFICES ASSUME IInv, [Next]_vars, NEW t \in Threads,
                      me[t].pc \in {"w_seek", "w_write"}, Returns(t), Alone(t)
               PROVE  /\ me'[t].ret = me[t].req
                      /\ mode[me[t].h] # "append" /\ shared = {} =>
                           \A i \in 1..me[t].req :
                             /\ me[t].off + i \in DOMAIN content'
                             /\ content'[me[t].off + i] = <<"at", me[t].off + i>>
    OBVIOUS
  <2>1. PICK p, n : /\ Writes(t, p, n) /\ me[t].written + n = me[t].req
                    /\ me'[t].ret = me[t].req
    BY WriteReturns DEF Alone, Writing
  <2>2. TypeOK'
    BY NextIInv DEF IInv, HandleInv
  <2>3. mode[me[t].h] # "append" /\ shared = {} =>
          \A i \in 1..(me[t].written + n) :
            /\ me[t].off + i \in DOMAIN content'
            /\ content'[me[t].off + i] = <<"at", me[t].off + i>>
    BY <2>1, <2>2, AllThere
  <2> QED
    BY <2>1, <2>3
<1>2. IInv /\ [Next]_vars =>
        [\A t \in Threads :
           /\ me[t].pc \in {"w_seek", "w_write", "r_seek", "r_read"}
           /\ Returns(t) /\ Alone(t) /\ mode[me[t].h] # "append"
           => pos'[me[t].h] = me[t].off + me'[t].ret]_vars
  <2> SUFFICES ASSUME IInv, [Next]_vars, NEW t \in Threads,
                      me[t].pc \in {"w_seek", "w_write", "r_seek", "r_read"},
                      Returns(t), Alone(t), mode[me[t].h] # "append"
               PROVE  pos'[me[t].h] = me[t].off + me'[t].ret
    OBVIOUS
  <2>1. CASE Writing(t)
    <3>1. PICK p, n : /\ Writes(t, p, n) /\ me[t].written + n = me[t].req
                      /\ me'[t].ret = me[t].req /\ pos'[me[t].h] = p + n
      BY <2>1, WriteReturns DEF Alone
    <3>2. p = me[t].off + me[t].written /\ n \in Nat
      BY <3>1 DEF Writes, Alone
    <3>3. ~ At(t, "idle") /\ HandleInv
      BY DEF Returns, IInv
    <3>4. me[t].off \in Nat /\ me[t].written \in Nat
      BY <3>3, InCall
    <3> QED
      BY <3>1, <3>2, <3>4
  <2>2. CASE me[t].pc \in {"r_seek", "r_read"}
    BY <2>2, ReadReturns DEF Alone
  <2> QED
    BY <2>1, <2>2 DEF Writing
<1> QED
  BY Inductive, <1>1, <1>2, PTL DEF Spec, TransfersRight, WriteComplete, EndsBehindOffset

(***************************************************************************)
(* spr_file_size returns a length that the file had during the call, and   *)
(* puts the descriptor back if nobody else uses the handle; a handle whose *)
(* Win32 path was not converted tells the length of another file.          *)
(***************************************************************************)
THEOREM SizeIsTrue == Spec => SizeTrue
<1>1. IInv /\ [Next]_vars =>
        [\A t \in Threads :
           me[t].pc \in {"s_cur", "s_set"} /\ Returns(t) /\ ~ Elsewhere(t) =>
             /\ me[t].len <= me'[t].ret /\ me'[t].ret <= Len(content')
             /\ Alone(t) => pos'[me[t].h] = me[t].was]_vars
  BY SizeReturns DEF Alone
<1> QED
  BY Inductive, <1>1, PTL DEF Spec, SizeTrue

-----------------------------------------------------------------------------
(* Directory and glob streams.                                             *)

(* A stream as a record.                                                   *)
Rets == {"none", "OK", "DONE", "FAILED", "ABS_PATH", "LONG_PATH", "E2BIG", "overflow",
         "noent", "io"}

(* What is told of a file.                                                 *)
Infos == [ret: {"none", "OK", "noent", "io", "overflow"}, conv: BOOLEAN, right: BOOLEAN, sys: BOOLEAN]

Stream ==
  [open: BOOLEAN, all: Seq(Names), left: Seq(Names), told: Seq(Names),
   cur: Names \cup {None}, type: Types, ret: Rets, next: Names \cup {None},
   done: BOOLEAN, sys: BOOLEAN]

(* What errno says of the past, and the types.                             *)
ErrnoInv ==
  /\ errno \in {"ok"} \cup Errors /\ failed \in BOOLEAN
  /\ errno = "nomore" => system = "win32"
  /\ errno \in {"noent", "io"} => failed

KindsInv ==
  /\ ErrnoInv
  /\ system \in Systems /\ present \in SUBSET Names
  /\ opens \in 0..MaxOpens
  /\ dir \in Stream /\ glob \in Stream
  /\ info \in Infos

(* What is left of a stream are the last of its names.                     *)
Suffix(all, left) ==
  /\ Len(left) <= Len(all)
  /\ \A k \in 1..Len(left) : left[k] = all[Len(all) - Len(left) + k]

Given(all, left) == Len(all) - Len(left)

(* The names told are among the first n, in the same order; those of the   *)
(* first n that are there and were not told are missed.                    *)
Ordered(all, n, seen) ==
  /\ \A i \in 1..Len(seen) : \E k \in 1..n : all[k] = seen[i]
  /\ \A i, j \in 1..Len(seen) : i < j =>
       \E k, l \in 1..n : k < l /\ all[k] = seen[i] /\ all[l] = seen[j]

Missed(all, n, seen, there) ==
  {k \in 1..n : all[k] \in there /\ all[k] \notin Range(seen)}

DirInv ==
  /\ Suffix(dir.all, dir.left) /\ Ordered(dir.all, Given(dir.all, dir.left), dir.told)
  /\ \A k \in Missed(dir.all, Given(dir.all, dir.left), dir.told, present) : system = "win32" /\ k = 1
  /\ dir.ret = "DONE" => dir.left = <<>>
  /\ EndExplained /\ TypeTrue /\ InfoTrue

(* A glob on POSIX has told what was given.  On Win32 one name more is     *)
(* given, the next one, until it is done.                                  *)
GlobPosix ==
  system # "win32" =>
    /\ Len(glob.told) = Given(glob.all, glob.left)
    /\ \A i \in 1..Len(glob.told) : glob.told[i] = glob.all[i]
    /\ glob.ret = "DONE" => glob.left = <<>>

GlobWin32 ==
  system = "win32" =>
    /\ glob.ret = "DONE" => glob.done
    /\ glob.open /\ ~ glob.done => glob.next \in Names
    /\ failed \/ \A k \in Missed(glob.all, Given(glob.all, glob.left), glob.told, present) :
                   ~ glob.done /\ glob.all[k] = glob.next
    /\ failed \/ ~ glob.done \/ AtEnd(glob.left)

GlobInv == Suffix(glob.all, glob.left) /\ GlobPosix /\ GlobWin32

StreamInv == KindsInv /\ DirInv /\ GlobInv

-----------------------------------------------------------------------------

LEMMA ClosedStream ==
  ASSUME NEW ret \in Rets
  PROVE  /\ Closed(ret) \in Stream /\ Suffix(<<>>, <<>>) /\ ~ Closed(ret).open
         /\ Closed(ret).all = <<>> /\ Closed(ret).told = <<>> /\ Closed(ret).left = <<>>
         /\ Closed(ret).cur = None /\ Closed(ret).ret = ret /\ ~ Closed(ret).done
BY DEF Closed, Fresh, Stream, Suffix, Types

LEMMA OpenedStream ==
  ASSUME NEW s \in Seq(Names), NEW left \in Seq(Names)
  PROVE  /\ Opened(s, left) \in Stream /\ Opened(s, left).open /\ Opened(s, left).all = s
         /\ Opened(s, left).left = left /\ Opened(s, left).told = <<>>
         /\ Opened(s, left).cur = None /\ Opened(s, left).ret = "OK"
         /\ ~ Opened(s, left).done
BY DEF Opened, Fresh, Stream, Types, Rets

LEMMA ExistingNames ==
  ASSUME present \in SUBSET Names
  PROVE  Existing \in Seq(Names)
<1>1. Listing[present] \in SetToSeqs(present)
  BY DirAssumption
<1>2. IsFiniteSet(present)
  BY DirAssumption, FS_Subset
<1>3. Cardinality(present) \in Nat
  BY <1>2, FS_CardinalityType
<1>4. Listing[present] \in [1..Cardinality(present) -> Names]
  BY <1>1, <1>3 DEF SetToSeqs
<1> QED BY <1>3, <1>4 DEF Existing

LEMMA KnownTypes ==
  ASSUME NEW n \in Names
  PROVE  spr_stat_get_file_type(n) \in Types /\ kind[n] \in Types
BY DirAssumption DEF spr_stat_get_file_type, Types

LEMMA AnyTypes == AnyType \subseteq Types
BY DirAssumption DEF AnyType, Types

(* A stream goes on behind its k-th name: rest is left, and g were given   *)
(* before.                                                                 *)
GoesOn(all, left, k, rest, g) ==
  /\ g \in Nat /\ Given(all, left) = g /\ Given(all, rest) = g + k
  /\ left[k] = all[g + k]
  /\ \A j \in 1..(g + k) : j \in 1..g \/ \E i \in 1..k : j = g + i /\ all[j] = left[i]

LEMMA SuffixOn ==
  ASSUME NEW all \in Seq(Names), NEW left \in Seq(Names), Suffix(all, left),
         NEW k \in 1..Len(left), NEW rest, rest = SubSeq(left, k + 1, Len(left))
  PROVE  /\ rest \in Seq(Names) /\ Suffix(all, rest)
         /\ \E g : GoesOn(all, left, k, rest, g)
<1>1. /\ rest \in Seq(Names) /\ Len(rest) = Len(left) - k
      /\ \A j \in 1..Len(rest) : rest[j] = left[k + j]
  OBVIOUS
<1>2. Len(all) \in Nat /\ Len(left) \in Nat /\ Len(rest) \in Nat
  BY <1>1
<1>3. /\ Len(left) <= Len(all)
      /\ \A i \in 1..Len(left) : left[i] = all[Len(all) - Len(left) + i]
  BY DEF Suffix
<1> DEFINE g == Len(all) - Len(left)
<1>4. g \in Nat /\ g = Len(all) - Len(left) /\ g = Given(all, left)
  BY ONLY <1>2, <1>3 DEF Given
<1>5. \A i \in 1..Len(left) : left[i] = all[g + i]
  BY <1>3
<1> HIDE DEF g
<1>6. Given(all, rest) = g + k /\ Len(all) - Len(rest) = g + k
  BY ONLY <1>1, <1>2, <1>4, k \in 1..Len(left) DEF Given
<1>7. ASSUME NEW j \in 1..Len(rest) PROVE rest[j] = all[Len(all) - Len(rest) + j]
  <2>1. k + j \in 1..Len(left) /\ g + k + j = g + (k + j)
    BY ONLY <1>1, <1>2, <1>4, k \in 1..Len(left), j \in 1..Len(rest)
  <2> QED BY ONLY <1>1, <1>5, <1>6, <2>1, j \in 1..Len(rest)
<1>8. ASSUME NEW j \in 1..(g + k), j \notin 1..g
      PROVE  \E i \in 1..k : j = g + i /\ all[j] = left[i]
  <2>1. j - g \in 1..k /\ j = g + (j - g) /\ j - g \in 1..Len(left)
    BY ONLY <1>2, <1>4, <1>8, j \in 1..(g + k), k \in 1..Len(left)
  <2> QED BY <1>5, <2>1
<1>9. Suffix(all, rest)
  <2>1. Len(rest) <= Len(all)
    BY ONLY <1>1, <1>2, <1>3, k \in 1..Len(left)
  <2> QED BY ONLY <1>7, <2>1 DEF Suffix
<1>10. GoesOn(all, left, k, rest, g)
  <2>1. left[k] = all[g + k]
    BY <1>5
  <2> QED BY ONLY <1>4, <1>6, <1>8, <2>1 DEF GoesOn
<1> QED BY <1>1, <1>9, <1>10

LEMMA OrderedOn ==
  ASSUME NEW all, NEW left \in Seq(Names), NEW seen \in Seq(Names),
         Ordered(all, Given(all, left), seen),
         NEW k \in 1..Len(left), NEW rest, NEW g, GoesOn(all, left, k, rest, g),
         NEW more, more = Append(seen, left[k])
  PROVE  Ordered(all, Given(all, rest), more)
<1>1. /\ g \in Nat /\ Given(all, left) = g /\ Given(all, rest) = g + k
      /\ left[k] = all[g + k]
  BY DEF GoesOn
<1>2. k \in Nat \ {0} /\ left[k] \in Names
  OBVIOUS
<1>3. /\ Len(more) = Len(seen) + 1 /\ Len(seen) \in Nat
      /\ more[Len(seen) + 1] = left[k]
      /\ \A i \in 1..Len(seen) : more[i] = seen[i]
  BY <1>2
<1>4. \A i \in 1..Len(more) : i \in 1..Len(seen) \/ i = Len(seen) + 1
  BY ONLY <1>3
<1>5. g + k \in 1..(g + k) /\ \A m \in 1..g : m \in 1..(g + k) /\ m < g + k
  BY ONLY <1>1, <1>2
<1>6. /\ \A i \in 1..Len(seen) : \E m \in 1..g : all[m] = seen[i]
      /\ \A i, j \in 1..Len(seen) : i < j =>
           \E m, l \in 1..g : m < l /\ all[m] = seen[i] /\ all[l] = seen[j]
  <2>1. Ordered(all, g, seen)
    BY <1>1
  <2> QED BY ONLY <2>1 DEF Ordered
<1>7. ASSUME NEW i \in 1..Len(more) PROVE \E m \in 1..(g + k) : all[m] = more[i]
  <2>1. CASE i \in 1..Len(seen)
    <3>1. PICK m \in 1..g : all[m] = seen[i]
      BY ONLY <1>6, <2>1
    <3>2. m \in 1..(g + k) /\ all[m] = more[i]
      BY ONLY <1>3, <1>5, <2>1, <3>1
    <3> QED BY ONLY <3>2
  <2>2. CASE i = Len(seen) + 1
    <3>1. g + k \in 1..(g + k) /\ all[g + k] = more[i]
      BY ONLY <1>1, <1>3, <1>5, <2>2
    <3> QED BY ONLY <3>1
  <2> QED BY ONLY <1>4, <2>1, <2>2, i \in 1..Len(more)
<1>8. ASSUME NEW i \in 1..Len(more), NEW j \in 1..Len(more), i < j
      PROVE  \E m, l \in 1..(g + k) : m < l /\ all[m] = more[i] /\ all[l] = more[j]
  <2>1. i \in 1..Len(seen)
    BY ONLY <1>3, <1>8, i \in 1..Len(more), j \in 1..Len(more)
  <2>2. CASE j \in 1..Len(seen)
    <3>1. PICK m \in 1..g, l \in 1..g : m < l /\ all[m] = seen[i] /\ all[l] = seen[j]
      BY ONLY <1>6, <1>8, <2>1, <2>2
    <3> QED BY ONLY <1>3, <1>5, <2>1, <2>2, <3>1
  <2>3. CASE j = Len(seen) + 1
    <3>1. PICK m \in 1..g : all[m] = seen[i]
      BY ONLY <1>6, <2>1
    <3> QED BY ONLY <1>1, <1>3, <1>5, <2>1, <2>3, <3>1
  <2> QED BY ONLY <1>4, <2>2, <2>3, j \in 1..Len(more)
<1>9. Ordered(all, g + k, more)
  BY ONLY <1>7, <1>8 DEF Ordered
<1> QED BY ONLY <1>1, <1>9

LEMMA MissedOn ==
  ASSUME NEW all, NEW left, NEW seen, NEW there,
         NEW k \in Nat, NEW rest, NEW g, GoesOn(all, left, k, rest, g),
         \A j \in 1..(k - 1) : left[j] \notin there
  PROVE  \A m \in Missed(all, Given(all, rest), seen, there) :
           m \in Missed(all, Given(all, left), seen, there) \/ all[m] = left[k]
<1>1. /\ g \in Nat /\ Given(all, left) = g /\ Given(all, rest) = g + k
      /\ \A j \in 1..(g + k) :
           j \in 1..g \/ \E i \in 1..k : j = g + i /\ all[j] = left[i]
  BY DEF GoesOn
<1>2. ASSUME NEW m \in 1..(g + k), all[m] \in there, all[m] # left[k] PROVE m \in 1..g
  <2>1. ASSUME NEW i \in 1..k, all[m] = left[i] PROVE FALSE
    <3>1. i \in 1..(k - 1)
      BY <1>2, <2>1
    <3> QED BY <1>2, <2>1, <3>1
  <2> QED BY <1>1, <1>2, <2>1
<1>3. \A m \in Missed(all, g + k, seen, there) :
        m \in Missed(all, g, seen, there) \/ all[m] = left[k]
  BY ONLY <1>2 DEF Missed
<1> QED BY ONLY <1>1, <1>3

LEMMA MissedTold ==
  ASSUME NEW all, NEW n, NEW seen \in Seq(Names), NEW there, NEW x \in Names
  PROVE  \A m \in Missed(all, n, Append(seen, x), there) :
           m \in Missed(all, n, seen, there) /\ all[m] # x
<1> DEFINE more == Append(seen, x)
<1>1. /\ Len(more) = Len(seen) + 1 /\ Len(seen) \in Nat /\ more \in Seq(Names)
      /\ more[Len(seen) + 1] = x /\ \A i \in 1..Len(seen) : more[i] = seen[i]
  OBVIOUS
<1>2. DOMAIN more = 1..(Len(seen) + 1) /\ DOMAIN seen = 1..Len(seen)
  BY <1>1
<1>3. x \in Range(more)
  <2>1. Len(seen) + 1 \in 1..(Len(seen) + 1)
    BY <1>1
  <2> QED BY ONLY <1>1, <1>2, <2>1 DEF Range
<1>4. Range(seen) \subseteq Range(more)
  <2>1. \A i \in 1..Len(seen) : i \in 1..(Len(seen) + 1)
    BY <1>1
  <2> QED BY ONLY <1>1, <1>2, <2>1 DEF Range
<1> HIDE DEF more
<1> QED BY <1>3, <1>4 DEF Missed, more

(* A stream at its end: what is left is not there any more.                *)
LEMMA EndOn ==
  ASSUME NEW all \in Seq(Names), NEW left \in Seq(Names), Suffix(all, left),
         NEW seen, AtEnd(left), Ordered(all, Given(all, left), seen)
  PROVE  /\ Suffix(all, <<>>) /\ Ordered(all, Given(all, <<>>), seen)
         /\ Missed(all, Given(all, <<>>), seen, present)
              \subseteq Missed(all, Given(all, left), seen, present)
<1>1. Len(all) \in Nat /\ Len(left) \in Nat /\ Len(<<>>) = 0
  OBVIOUS
<1>2. /\ Len(left) <= Len(all)
      /\ \A i \in 1..Len(left) : left[i] = all[Len(all) - Len(left) + i]
  BY DEF Suffix
<1> DEFINE g == Len(all) - Len(left)
<1>3. g \in Nat /\ g = Len(all) - Len(left) /\ g = Given(all, left)
  BY ONLY <1>1, <1>2 DEF Given
<1>4. Given(all, <<>>) = Len(all)
  BY ONLY <1>1 DEF Given
<1>5. \A i \in 1..Len(left) : left[i] = all[g + i]
  BY <1>2
<1> HIDE DEF g
<1>6. ASSUME NEW j \in 1..Len(all), j \notin 1..g PROVE all[j] \notin present
  <2>1. j - g \in 1..Len(left) /\ j = g + (j - g)
    BY ONLY <1>1, <1>2, <1>3, <1>6, j \in 1..Len(all)
  <2>2. \A i \in 1..Len(left) : left[i] \notin present
    BY DEF AtEnd
  <2> QED BY ONLY <1>5, <2>1, <2>2
<1>7. Suffix(all, <<>>)
  BY <1>1 DEF Suffix
<1>8. \A j \in 1..g : j \in 1..Len(all)
  BY ONLY <1>1, <1>2, <1>3
<1>9. Ordered(all, Len(all), seen)
  <2>1. Ordered(all, g, seen)
    BY <1>3
  <2>2. ASSUME NEW i \in 1..Len(seen), NEW j \in 1..Len(seen), i < j
        PROVE  \E k, l \in 1..Len(all) : k < l /\ all[k] = seen[i] /\ all[l] = seen[j]
    <3>1. PICK k \in 1..g, l \in 1..g : k < l /\ all[k] = seen[i] /\ all[l] = seen[j]
      BY <2>1, <2>2 DEF Ordered
    <3> QED BY <1>8, <3>1
  <2>3. ASSUME NEW i \in 1..Len(seen) PROVE \E k \in 1..Len(all) : all[k] = seen[i]
    BY <1>8, <2>1 DEF Ordered
  <2> QED BY ONLY <2>2, <2>3 DEF Ordered
<1>10. Missed(all, Len(all), seen, present) \subseteq Missed(all, g, seen, present)
  BY ONLY <1>6 DEF Missed
<1> QED BY <1>3, <1>4, <1>7, <1>9, <1>10

LEMMA MissedLess ==
  ASSUME NEW all, NEW n, NEW seen, NEW there, NEW now, now \subseteq there
  PROVE  Missed(all, n, seen, now) \subseteq Missed(all, n, seen, there)
BY DEF Missed

(* What a stream keeps when its file system loses files.                   *)
LEMMA GlobFrame ==
  ASSUME GlobInv, glob' = glob, system' = system, present' \subseteq present, failed => failed'
  PROVE  GlobInv'
<1>1. GlobPosix'
  BY DEF GlobInv, GlobPosix
<1>2. GlobWin32'
  <2>1. Missed(glob.all, Given(glob.all, glob.left), glob.told, present')
          \subseteq Missed(glob.all, Given(glob.all, glob.left), glob.told, present)
    BY MissedLess
  <2>2. AtEnd(glob.left) => AtEnd(glob.left)'
    BY DEF AtEnd
  <2> QED BY <2>1, <2>2 DEF GlobInv, GlobWin32
<1> QED BY <1>1, <1>2 DEF GlobInv

LEMMA DirFrame ==
  ASSUME DirInv, dir' = dir, system' = system, present' \subseteq present, failed => failed',
         InfoTrue'
  PROVE  DirInv'
<1>1. Missed(dir.all, Given(dir.all, dir.left), dir.told, present')
        \subseteq Missed(dir.all, Given(dir.all, dir.left), dir.told, present)
  BY MissedLess
<1>2. EndExplained'
  BY DEF DirInv, EndExplained
<1>3. TypeTrue'
  BY DEF DirInv, TypeTrue, spr_stat_get_file_type, Converted
<1> QED BY <1>1, <1>2, <1>3 DEF DirInv

LEMMA NoInfoTrue == ASSUME info' = NoInfo PROVE InfoTrue'
BY DEF InfoTrue, NoInfo

LEMMA NoInfoType == NoInfo \in Infos
BY DEF NoInfo, Infos

LEMMA ErrnoKept ==
  ASSUME ErrnoInv, system' = system, Succeeds \/ Fails("noent") \/ Fails("io")
  PROVE  ErrnoInv' /\ (failed => failed')
<1>1. CASE Succeeds
  BY <1>1 DEF ErrnoInv, Succeeds
<1>2. CASE Fails("noent") \/ Fails("io")
  BY <1>2 DEF ErrnoInv, Fails, Errors
<1> QED BY <1>1, <1>2

-----------------------------------------------------------------------------

(* The fields of dir after each part of spr_dir_read.                      *)
LEMMA ReportsFields ==
  ASSUME dir \in Stream, NEW k \in 1..Len(dir.left), NEW t \in Types, NEW sys \in BOOLEAN,
         DirReports(k, t, sys)
  PROVE  /\ dir' \in Stream /\ dir'.open = dir.open /\ dir'.all = dir.all
         /\ dir'.left = SubSeq(dir.left, k + 1, Len(dir.left))
         /\ dir'.told = Append(dir.told, dir.left[k])
         /\ dir'.cur = dir.left[k] /\ dir.left[k] \in Names /\ dir'.type = t
         /\ dir'.ret = "OK" /\ dir'.sys = sys
<1>1. dir.left \in Seq(Names) /\ dir.told \in Seq(Names) /\ dir.left[k] \in Names
  BY DEF Stream
<1>2. SubSeq(dir.left, k + 1, Len(dir.left)) \in Seq(Names)
  BY <1>1
<1>3. Append(dir.told, dir.left[k]) \in Seq(Names)
  BY <1>1
<1> QED BY <1>1, <1>2, <1>3 DEF DirReports, Stream, Rets

LEMMA EndFields ==
  ASSUME KindsInv, dir_end
  PROVE  /\ dir' \in Stream /\ dir'.open = dir.open /\ dir'.all = dir.all
         /\ dir'.left = <<>> /\ dir'.told = dir.told /\ dir'.cur = None
         /\ dir'.ret = IF errno' \in {"ok", "nomore"} THEN "DONE" ELSE errno'
         /\ errno' \in {"ok"} \cup Errors
         /\ errno' = IF system = "win32" THEN "nomore" ELSE errno
<1>1. dir \in Stream /\ errno \in {"ok"} \cup Errors
  BY DEF KindsInv, ErrnoInv
<1>2. errno' = IF system = "win32" THEN "nomore" ELSE errno
  BY DEF dir_end
<1>3. errno' \in {"ok"} \cup Errors
  BY <1>1, <1>2 DEF Errors
<1> DEFINE r == IF errno' \in {"ok", "nomore"} THEN "DONE" ELSE errno'
<1>4. r \in Rets
  BY <1>3 DEF Errors, Rets
<1>5. dir' = [dir EXCEPT !.left = <<>>, !.cur = None, !.sys = TRUE, !.ret = r]
  BY DEF dir_end
<1> HIDE DEF r
<1>a. <<>> \in Seq(Names)
  OBVIOUS
<1>6. /\ dir' \in Stream /\ dir'.open = dir.open /\ dir'.all = dir.all
      /\ dir'.left = <<>> /\ dir'.told = dir.told /\ dir'.cur = None /\ dir'.ret = r
  BY <1>1, <1>4, <1>5, <1>a DEF Stream
<1> QED BY <1>2, <1>3, <1>6 DEF r

LEMMA FailsFields ==
  ASSUME dir \in Stream, dir_fails
  PROVE  /\ dir' \in Stream /\ dir'.open = dir.open /\ dir'.all = dir.all
         /\ dir'.left = dir.left /\ dir'.told = dir.told /\ dir'.cur = None
         /\ dir'.ret = "io" /\ dir'.sys = FALSE
BY DEF dir_fails, Stream, Rets

(* spr_dir_read: an entry with its type, or none.                          *)
Reports(k, t, sys) ==
  /\ DirReports(k, t, sys) /\ k \in 1..Len(dir.left)
  /\ Succeeds \/ (Fails("noent") /\ ~ sys)
  /\ IF system = "dtype" THEN t \in {kind[dir.left[k]], "UNKFILE"}
     ELSE ~ sys \/ ~ Converted(dir.left[k]) \/ t = spr_stat_get_file_type(dir.left[k])

LEMMA StatCases ==
  ASSUME KindsInv, system # "dtype", NEW k \in 1..Len(dir.left), Stat(k)
  PROVE  \E t \in Types, sys \in BOOLEAN : Reports(k, t, sys)
<1>1. dir.left[k] \in Names
  BY DEF KindsInv, Stream
<1>2. CASE Succeeds /\ DirReports(k, spr_stat_get_file_type(dir.left[k]), TRUE)
  BY <1>1, <1>2, KnownTypes DEF Reports
<1>3. CASE ~ Converted(dir.left[k]) /\ Succeeds /\ \E t \in AnyType : DirReports(k, t, TRUE)
  BY <1>3, AnyTypes DEF Reports
<1>4. CASE Fails("noent") /\ \E t \in AnyType : DirReports(k, t, FALSE)
  BY <1>4, AnyTypes DEF Reports
<1> QED BY <1>2, <1>3, <1>4 DEF Stat

Overflows == dir' = [dir EXCEPT !.ret = "overflow"] /\ Succeeds

LEMMA ReadCases ==
  ASSUME KindsInv, spr_dir_read
  PROVE  \/ \E k \in Upcoming(dir.left), t \in Types, sys \in BOOLEAN : Reports(k, t, sys)
         \/ Overflows
         \/ dir_end
         \/ dir_fails
<1>1. dir.left \in Seq(Names)
  BY DEF KindsInv, Stream
<1>2. ASSUME NEW k \in Upcoming(dir.left), dir_entry(k)
      PROVE  Overflows \/ \E t \in Types, sys \in BOOLEAN : Reports(k, t, sys)
  <2>1. k \in 1..Len(dir.left)
    BY <1>1 DEF Upcoming
  <2>2. dir.left[k] \in Names
    BY <1>1, <2>1
  <2>3. CASE system = "dtype"
    <3>1. PICK t \in {kind[dir.left[k]], "UNKFILE"} : DirReports(k, t, TRUE)
      BY <1>2, <2>3 DEF dir_entry
    <3>2. t \in Types
      BY <2>2, KnownTypes DEF Types
    <3> QED BY <1>2, <2>1, <2>3, <3>1, <3>2 DEF dir_entry, Reports
  <2>4. CASE system # "dtype"
    BY <1>2, <2>1, <2>4, StatCases DEF dir_entry, stat_entry, Overflows
  <2> QED BY <2>3, <2>4
<1> QED BY <1>2 DEF spr_dir_read

LEMMA DirReadKeeps ==
  ASSUME StreamInv, spr_dir_read
  PROVE  StreamInv'
<1>0. KindsInv /\ DirInv /\ GlobInv /\ dir \in Stream /\ ErrnoInv
  BY DEF StreamInv, KindsInv
<1>1. /\ info' = NoInfo /\ system' = system /\ present' = present /\ glob' = glob
      /\ opens' = opens /\ dir.open
  BY DEF spr_dir_read
<1>2. /\ dir.all \in Seq(Names) /\ dir.left \in Seq(Names) /\ dir.told \in Seq(Names)
      /\ Suffix(dir.all, dir.left) /\ Ordered(dir.all, Given(dir.all, dir.left), dir.told)
      /\ \A k \in Missed(dir.all, Given(dir.all, dir.left), dir.told, present) : system = "win32" /\ k = 1
  BY <1>0 DEF Stream, DirInv
<1>3. ASSUME ErrnoInv', failed => failed', dir' \in Stream
      PROVE  KindsInv' /\ GlobInv'
  <2>1. KindsInv'
    BY <1>0, <1>1, <1>3, NoInfoType DEF KindsInv
  <2> QED BY <2>1, <1>0, <1>1, <1>3, GlobFrame
<1>4. InfoTrue'
  BY <1>1, NoInfoTrue
<1>5. ASSUME NEW k \in Upcoming(dir.left), NEW t \in Types, NEW sys \in BOOLEAN,
             Reports(k, t, sys)
      PROVE  StreamInv'
  <2>0. /\ DirReports(k, t, sys) /\ k \in 1..Len(dir.left)
        /\ Succeeds \/ (Fails("noent") /\ ~ sys)
        /\ IF system = "dtype" THEN t \in {kind[dir.left[k]], "UNKFILE"}
           ELSE ~ sys \/ ~ Converted(dir.left[k]) \/ t = spr_stat_get_file_type(dir.left[k])
    BY <1>5 DEF Reports
  <2>1. /\ dir' \in Stream /\ dir'.open = dir.open /\ dir'.all = dir.all
        /\ dir'.left = SubSeq(dir.left, k + 1, Len(dir.left))
        /\ dir'.told = Append(dir.told, dir.left[k])
        /\ dir'.cur = dir.left[k] /\ dir.left[k] \in Names /\ dir'.type = t
        /\ dir'.ret = "OK" /\ dir'.sys = sys
    BY <1>0, <2>0, ReportsFields
  <2>2. KindsInv' /\ GlobInv'
    <3>1. ErrnoInv' /\ (failed => failed')
      BY <1>0, <1>1, <2>0, ErrnoKept
    <3> QED BY <1>3, <2>1, <3>1
  <2>3. k \in Nat /\ \A j \in 1..(k - 1) : dir.left[j] \notin present
    BY <1>5, <2>0 DEF Upcoming
  <2>4. Suffix(dir'.all, dir'.left) /\ \E g : GoesOn(dir.all, dir.left, k, dir'.left, g)
    BY <1>2, <2>0, <2>1, SuffixOn
  <2>g. PICK g : GoesOn(dir.all, dir.left, k, dir'.left, g)
    BY <2>4
  <2>5. Ordered(dir'.all, Given(dir'.all, dir'.left), dir'.told)
    BY <1>2, <2>0, <2>1, <2>g, OrderedOn
  <2>6. ASSUME NEW m \in Missed(dir'.all, Given(dir'.all, dir'.left), dir'.told, present')
        PROVE  system' = "win32" /\ m = 1
    <3>1. /\ m \in Missed(dir.all, Given(dir.all, dir'.left), dir.told, present)
          /\ dir.all[m] # dir.left[k]
      BY <1>1, <1>2, <2>1, <2>6, MissedTold
    <3>2. m \in Missed(dir.all, Given(dir.all, dir.left), dir.told, present) \/ dir.all[m] = dir.left[k]
      BY <2>3, <2>g, <3>1, MissedOn
    <3> QED BY <1>1, <1>2, <3>1, <3>2
  <2>7. EndExplained'
    BY <2>1 DEF EndExplained, Errors
  <2>8. TypeTrue'
    BY <1>1, <2>0, <2>1 DEF TypeTrue, spr_stat_get_file_type, Converted
  <2> QED BY <1>4, <2>1, <2>2, <2>4, <2>5, <2>6, <2>7, <2>8 DEF DirInv, StreamInv
<1>6. CASE dir_end
  <2>1. /\ dir' \in Stream /\ dir'.open = dir.open /\ dir'.all = dir.all
        /\ dir'.left = <<>> /\ dir'.told = dir.told /\ dir'.cur = None
        /\ dir'.ret = IF errno' \in {"ok", "nomore"} THEN "DONE" ELSE errno'
        /\ errno' \in {"ok"} \cup Errors
        /\ errno' = IF system = "win32" THEN "nomore" ELSE errno
    BY <1>0, <1>6, EndFields
  <2>2. failed' = failed /\ AtEnd(dir.left)
    BY <1>6 DEF dir_end
  <2>3. KindsInv' /\ GlobInv'
    <3>1. ErrnoInv'
      BY <1>0, <1>1, <2>1, <2>2 DEF ErrnoInv
    <3> QED BY <1>3, <2>1, <2>2, <3>1
  <2>4. Suffix(dir'.all, dir'.left)
    BY <1>2, <2>1, <2>2, EndOn
  <2>5. Ordered(dir'.all, Given(dir'.all, dir'.left), dir'.told)
    BY <1>2, <2>1, <2>2, EndOn
  <2>6. Missed(dir'.all, Given(dir'.all, dir'.left), dir'.told, present')
          \subseteq Missed(dir.all, Given(dir.all, dir.left), dir.told, present)
    BY <1>1, <1>2, <2>1, <2>2, EndOn
  <2>7. EndExplained'
    BY <1>0, <1>1, <2>1, <2>2 DEF EndExplained, Errors, ErrnoInv
  <2>8. TypeTrue'
    BY <2>1 DEF TypeTrue
  <2> QED BY <1>1, <1>2, <1>4, <2>1, <2>3, <2>4, <2>5, <2>6, <2>7, <2>8 DEF DirInv, StreamInv
<1>7. CASE dir_fails
  <2>1. /\ dir' \in Stream /\ dir'.open = dir.open /\ dir'.all = dir.all
        /\ dir'.left = dir.left /\ dir'.told = dir.told /\ dir'.cur = None
        /\ dir'.ret = "io" /\ dir'.sys = FALSE
    BY <1>0, <1>7, FailsFields
  <2>2. errno' = "io" /\ failed' = TRUE
    BY <1>7 DEF dir_fails, Fails
  <2>3. KindsInv' /\ GlobInv'
    <3>1. ErrnoInv' /\ (failed => failed')
      BY <1>0, <1>1, <1>7, ErrnoKept DEF dir_fails
    <3> QED BY <1>3, <2>1, <3>1
  <2>4. EndExplained' /\ TypeTrue'
    BY <2>1, <2>2 DEF EndExplained, TypeTrue
  <2> QED BY <1>1, <1>2, <1>4, <2>1, <2>3, <2>4 DEF DirInv, StreamInv
<1>8. CASE Overflows
  <2>1. /\ dir' \in Stream /\ dir'.all = dir.all /\ dir'.left = dir.left
        /\ dir'.told = dir.told /\ dir'.cur = dir.cur /\ dir'.type = dir.type
        /\ dir'.ret = "overflow" /\ dir'.sys = dir.sys
    BY <1>0, <1>8 DEF Overflows, Stream, Rets
  <2>2. ErrnoInv' /\ (failed => failed')
    BY <1>0, <1>1, <1>8, ErrnoKept DEF Overflows
  <2>3. KindsInv' /\ GlobInv'
    BY <1>3, <2>1, <2>2
  <2>4. EndExplained'
    BY <2>1 DEF EndExplained, Errors
  <2>5. TypeTrue'
    BY <1>0, <1>1, <2>1 DEF DirInv, TypeTrue, spr_stat_get_file_type, Converted
  <2> QED BY <1>1, <1>2, <1>4, <2>1, <2>3, <2>4, <2>5 DEF DirInv, StreamInv
<1> QED BY <1>0, <1>5, <1>6, <1>7, <1>8, ReadCases

-----------------------------------------------------------------------------

(* A stream that was just opened or closed has told nothing.               *)
LEMMA FreshDir ==
  ASSUME NEW s \in Seq(Names), NEW left \in Seq(Names), system' = system,
         dir'.all = s, dir'.left = left, dir'.told = <<>>, dir'.cur = None,
         dir'.ret # "DONE", ~ dir'.open \/ dir'.ret = "OK", InfoTrue',
         \/ left = s
         \/ system = "win32" /\ s # <<>> /\ left = Tail(s)
  PROVE  DirInv'
<1>1. Suffix(s, left) /\ \A k \in 1..Given(s, left) : system = "win32" /\ k = 1
  <2>1. CASE left = s
    <3>1. Len(s) \in Nat /\ Len(s) - Len(s) = 0
      OBVIOUS
    <3> QED BY <2>1, <3>1 DEF Suffix, Given
  <2>2. CASE system = "win32" /\ s # <<>> /\ left = Tail(s)
    <3>1. /\ Len(s) \in Nat /\ Len(left) = Len(s) - 1
          /\ \A k \in 1..Len(left) : left[k] = s[k + 1]
      BY <2>2
    <3>2. Len(s) - Len(left) = 1 /\ Len(left) <= Len(s)
      BY ONLY <3>1
    <3>3. \A k \in 1..Len(left) : left[k] = s[1 + k]
      BY ONLY <3>1
    <3> QED BY ONLY <2>2, <3>2, <3>3 DEF Suffix, Given
  <2> QED BY <2>1, <2>2
<1>2. Ordered(s, Given(s, left), <<>>)
  <2>1. Len(<<>>) = 0
    OBVIOUS
  <2> QED BY ONLY <2>1 DEF Ordered
<1>3. Missed(s, Given(s, left), <<>>, present') \subseteq 1..Given(s, left)
  BY DEF Missed
<1>4. EndExplained' /\ TypeTrue'
  BY DEF EndExplained, TypeTrue, Errors
<1> QED BY <1>1, <1>2, <1>3, <1>4 DEF DirInv

LEMMA DirOpenKeeps ==
  ASSUME StreamInv, spr_dir_open \/ spr_dir_close
  PROVE  StreamInv'
<1>0. KindsInv /\ GlobInv /\ ErrnoInv
  BY DEF StreamInv, KindsInv
<1>1. info' = NoInfo /\ system' = system /\ present' = present /\ glob' = glob
  BY DEF spr_dir_open, spr_dir_close
<1>2. opens' \in 0..MaxOpens
  BY <1>0, DirAssumption DEF spr_dir_open, spr_dir_close, KindsInv
<1>3. ErrnoInv' /\ (failed => failed')
  BY <1>0, <1>1, ErrnoKept DEF spr_dir_open, spr_dir_close, dir_opens, Succeeds
<1>4. Existing \in Seq(Names)
  BY <1>0, ExistingNames DEF KindsInv
<1>5. dir' \in Stream /\ DirInv'
  <2>1. InfoTrue'
    BY <1>1, NoInfoTrue
  <2>2. ASSUME NEW ret \in {"none", "noent", "E2BIG", "overflow"}, dir' = Closed(ret)
        PROVE  dir' \in Stream /\ DirInv'
    <3>1. ret \in Rets /\ ret # "DONE"
      BY DEF Rets
    <3>2. <<>> \in Seq(Names)
      OBVIOUS
    <3> QED BY <1>1, <2>1, <2>2, <3>1, <3>2, ClosedStream, FreshDir
  <2>3. ASSUME NEW left \in Seq(Names), dir' = Opened(Existing, left),
               \/ left = Existing
               \/ system = "win32" /\ Existing # <<>> /\ left = Tail(Existing)
        PROVE  dir' \in Stream /\ DirInv'
    BY <1>1, <1>4, <2>1, <2>3, OpenedStream, FreshDir
  <2>4. system = "win32" /\ Existing # <<>> => Tail(Existing) \in Seq(Names)
    BY <1>4
  <2> QED BY <1>4, <2>2, <2>3, <2>4 DEF spr_dir_open, spr_dir_close, dir_opens
<1>6. KindsInv'
  BY <1>0, <1>1, <1>2, <1>3, <1>5, NoInfoType DEF KindsInv
<1>7. GlobInv'
  BY <1>0, <1>1, <1>3, GlobFrame
<1> QED BY <1>5, <1>6, <1>7 DEF StreamInv

(* A glob that was just opened or closed.                                  *)
LEMMA FreshGlob ==
  ASSUME NEW s \in Seq(Names), NEW left \in Seq(Names), system' = system,
         glob'.all = s, glob'.left = left, glob'.told = <<>>, glob'.ret # "DONE",
         ~ glob'.done,
         \/ left = s /\ (system # "win32" \/ (s = <<>> /\ ~ glob'.open))
         \/ system = "win32" /\ s # <<>> /\ left = Tail(s) /\ glob'.next = Head(s)
  PROVE  GlobInv'
<1>1. CASE left = s /\ (system # "win32" \/ (s = <<>> /\ ~ glob'.open))
  <2>1. Len(s) \in Nat /\ Len(s) - Len(s) = 0 /\ Len(<<>>) = 0
    OBVIOUS
  <2>2. Suffix(s, left) /\ Given(s, left) = 0
    BY <1>1, <2>1 DEF Suffix, Given
  <2>3. GlobPosix'
    BY <2>1, <2>2 DEF GlobPosix
  <2>4. Missed(s, Given(s, left), <<>>, present') = {}
    BY <2>2 DEF Missed
  <2>5. GlobWin32'
    BY <1>1, <2>4 DEF GlobWin32
  <2> QED BY <2>2, <2>3, <2>5 DEF GlobInv
<1>2. CASE system = "win32" /\ s # <<>> /\ left = Tail(s) /\ glob'.next = Head(s)
  <2>1. /\ Len(s) \in Nat /\ Len(left) = Len(s) - 1 /\ Head(s) = s[1] /\ Head(s) \in Names
        /\ \A k \in 1..Len(left) : left[k] = s[k + 1]
    BY <1>2
  <2>2. Len(s) - Len(left) = 1 /\ Len(left) <= Len(s)
    BY ONLY <2>1
  <2>3. \A k \in 1..Len(left) : left[k] = s[1 + k]
    BY ONLY <2>1
  <2>4. Suffix(s, left) /\ Given(s, left) = 1
    BY ONLY <2>2, <2>3 DEF Suffix, Given
  <2>5. \A k \in Missed(s, 1, <<>>, present') : k = 1
    BY ONLY DEF Missed
  <2>6. GlobWin32'
    BY <1>2, <2>1, <2>4, <2>5 DEF GlobWin32
  <2>7. GlobPosix'
    BY <1>2 DEF GlobPosix
  <2> QED BY <2>4, <2>6, <2>7 DEF GlobInv
<1> QED BY <1>1, <1>2

LEMMA GlobOpenKeeps ==
  ASSUME StreamInv, spr_glob_open \/ spr_glob_close
  PROVE  StreamInv'
<1>0. KindsInv /\ DirInv /\ ErrnoInv
  BY DEF StreamInv, KindsInv
<1>1. info' = NoInfo /\ system' = system /\ present' = present /\ dir' = dir
  BY DEF spr_glob_open, spr_glob_close
<1>2. opens' \in 0..MaxOpens
  BY <1>0, DirAssumption DEF spr_glob_open, spr_glob_close, KindsInv
<1>3. ErrnoInv' /\ (failed => failed')
  BY <1>0, <1>1, ErrnoKept
     DEF spr_glob_open, spr_glob_close, glob_collect, glob_find_first, Succeeds
<1>4. Existing \in Seq(Names) /\ <<>> \in Seq(Names)
  BY <1>0, ExistingNames DEF KindsInv
<1>5. glob' \in Stream /\ GlobInv'
  <2>1. ASSUME NEW ret \in Rets \ {"DONE"}, glob' = Closed(ret)
        PROVE  glob' \in Stream /\ GlobInv'
    BY <1>1, <1>4, <2>1, ClosedStream, FreshGlob
  <2>2. ASSUME system # "win32", NEW s \in Seq(Names), glob' = Opened(s, s)
        PROVE  glob' \in Stream /\ GlobInv'
    BY <1>1, <2>2, OpenedStream, FreshGlob
  <2>3. ASSUME system = "win32", Existing # <<>>,
               glob' = [Opened(Existing, Tail(Existing)) EXCEPT !.next = Head(Existing)]
        PROVE  glob' \in Stream /\ GlobInv'
    <3>1. Tail(Existing) \in Seq(Names) /\ Head(Existing) \in Names
      BY <1>4, <2>3
    <3> DEFINE o == Opened(Existing, Tail(Existing))
    <3>2. /\ o \in Stream /\ o.open /\ o.all = Existing /\ o.left = Tail(Existing)
          /\ o.told = <<>> /\ o.ret = "OK" /\ ~ o.done
      BY <1>4, <3>1, OpenedStream
    <3>3. glob' = [o EXCEPT !.next = Head(Existing)]
      BY <2>3
    <3> HIDE DEF o
    <3>4. /\ glob' \in Stream /\ glob'.all = Existing /\ glob'.left = Tail(Existing)
          /\ glob'.told = <<>> /\ glob'.ret = "OK" /\ ~ glob'.done
          /\ glob'.next = Head(Existing)
      BY <3>1, <3>2, <3>3 DEF Stream
    <3> QED BY <1>1, <1>4, <2>3, <3>1, <3>4, FreshGlob
  <2>4. {"none", "io", "noent", "ABS_PATH", "FAILED"} \subseteq Rets \ {"DONE"}
    BY DEF Rets
  <2>5. CASE spr_glob_close
    BY <2>1, <2>4, <2>5 DEF spr_glob_close
  <2>6. CASE glob_collect
    <3>1. system # "win32"
      BY <2>6 DEF glob_collect
    <3>2. errno = "ok" \/ errno \in {"noent", "io"}
      BY <1>0, <3>1 DEF ErrnoInv, Errors
    <3> QED BY <1>4, <2>1, <2>2, <2>4, <2>6, <3>1, <3>2 DEF glob_collect
  <2>7. CASE glob_find_first
    BY <2>1, <2>3, <2>4, <2>7 DEF glob_find_first
  <2> QED BY <2>5, <2>6, <2>7 DEF spr_glob_open
<1>6. KindsInv'
  BY <1>0, <1>1, <1>2, <1>3, <1>5, NoInfoType DEF KindsInv
<1>7. DirInv'
  BY <1>0, <1>1, <1>3, NoInfoTrue, DirFrame
<1> QED BY <1>5, <1>6, <1>7 DEF StreamInv

(* spr_glob_read on POSIX: one more of the names collected.                *)
LEMMA GlobNextKeeps ==
  ASSUME glob \in Stream, GlobInv, glob_next, system' = system
  PROVE  glob' \in Stream /\ GlobInv'
<1>1. /\ glob.all \in Seq(Names) /\ glob.left \in Seq(Names) /\ glob.told \in Seq(Names)
      /\ Suffix(glob.all, glob.left) /\ system # "win32"
  BY DEF Stream, GlobInv, glob_next
<1>2. /\ Len(glob.told) = Given(glob.all, glob.left)
      /\ \A i \in 1..Len(glob.told) : glob.told[i] = glob.all[i]
  BY <1>1 DEF GlobInv, GlobPosix
<1>3. GlobWin32'
  BY <1>1 DEF GlobWin32
<1>4. CASE glob.left = <<>>
  <2>1. glob' = [glob EXCEPT !.ret = "DONE"]
    BY <1>4 DEF glob_next
  <2>2. /\ glob' \in Stream /\ glob'.all = glob.all /\ glob'.left = glob.left
        /\ glob'.told = glob.told
    BY <2>1 DEF Stream, Rets
  <2>3. GlobPosix'
    BY <1>2, <1>4, <2>2 DEF GlobPosix
  <2> QED BY <1>1, <1>3, <2>2, <2>3 DEF GlobInv
<1>5. CASE glob.left # <<>>
  <2>1. glob' = [glob EXCEPT !.told = Append(@, Head(glob.left)), !.left = Tail(@), !.ret = "OK"]
    BY <1>5 DEF glob_next
  <2>2. /\ Head(glob.left) \in Names /\ Head(glob.left) = glob.left[1]
        /\ Tail(glob.left) \in Seq(Names) /\ 1 \in 1..Len(glob.left)
        /\ Tail(glob.left) = SubSeq(glob.left, 1 + 1, Len(glob.left))
    BY <1>1, <1>5
  <2>3. Append(glob.told, Head(glob.left)) \in Seq(Names)
    BY <1>1, <2>2
  <2>4. /\ glob' \in Stream /\ glob'.all = glob.all /\ glob'.left = Tail(glob.left)
        /\ glob'.told = Append(glob.told, Head(glob.left)) /\ glob'.ret = "OK"
    BY <2>1, <2>2, <2>3 DEF Stream, Rets
  <2>5. /\ Suffix(glob.all, glob'.left)
        /\ \E g : GoesOn(glob.all, glob.left, 1, glob'.left, g)
    BY <1>1, <2>2, <2>4, SuffixOn
  <2>6. PICK g : GoesOn(glob.all, glob.left, 1, glob'.left, g)
    BY <2>5
  <2>7. /\ g \in Nat /\ Given(glob.all, glob.left) = g /\ Given(glob.all, glob'.left) = g + 1
        /\ glob.left[1] = glob.all[g + 1]
    BY <2>6 DEF GoesOn
  <2>8. /\ Len(glob'.told) = g + 1 /\ glob'.told[g + 1] = glob.all[g + 1]
        /\ \A i \in 1..g : glob'.told[i] = glob.told[i]
    BY <1>1, <1>2, <2>2, <2>4, <2>7
  <2>9. \A i \in 1..(g + 1) : i \in 1..g \/ i = g + 1
    BY <2>7
  <2>10. \A i \in 1..(g + 1) : glob'.told[i] = glob.all[i]
    BY <1>2, <2>7, <2>8, <2>9
  <2>11. GlobPosix'
    BY <2>4, <2>7, <2>8, <2>10 DEF GlobPosix
  <2> QED BY <1>3, <2>4, <2>5, <2>11 DEF GlobInv
<1> QED BY <1>4, <1>5

(* On Win32: the name found before, and a look for the next one.           *)
LEMMA GlobFindKeeps ==
  ASSUME glob \in Stream, GlobInv, ErrnoInv, glob_find_next, glob.open, system' = system,
         present' = present
  PROVE  glob' \in Stream /\ GlobInv'
<1>1. /\ glob.all \in Seq(Names) /\ glob.left \in Seq(Names) /\ glob.told \in Seq(Names)
      /\ Suffix(glob.all, glob.left) /\ system = "win32" /\ ~ glob.done
  BY DEF Stream, GlobInv, glob_find_next
<1>2. /\ glob.next \in Names
      /\ failed \/ \A k \in Missed(glob.all, Given(glob.all, glob.left), glob.told, present) :
                     glob.all[k] = glob.next
  BY <1>1 DEF GlobInv, GlobWin32
<1>3. GlobPosix'
  BY <1>1 DEF GlobPosix
<1>4. Append(glob.told, glob.next) \in Seq(Names)
  BY <1>1, <1>2
<1>5. ASSUME NEW n
      PROVE  \A m \in Missed(glob.all, n, Append(glob.told, glob.next), present) :
               m \in Missed(glob.all, n, glob.told, present) /\ glob.all[m] # glob.next
  BY <1>1, <1>2, MissedTold
<1>6. ASSUME NEW k \in Upcoming(glob.left), errno \in {"ok", "nomore"}, Succeeds,
             glob' = [glob EXCEPT !.told = Append(@, glob.next), !.ret = "OK",
                                  !.next = glob.left[k], !.left = SubSeq(@, k + 1, Len(@))]
      PROVE  glob' \in Stream /\ GlobInv'
  <2>1. /\ k \in 1..Len(glob.left) /\ k \in Nat /\ glob.left[k] \in Names
        /\ \A j \in 1..(k - 1) : glob.left[j] \notin present
    BY <1>1 DEF Upcoming
  <2> DEFINE rest == SubSeq(glob.left, k + 1, Len(glob.left))
  <2>2. /\ rest \in Seq(Names) /\ Suffix(glob.all, rest)
        /\ \E g : GoesOn(glob.all, glob.left, k, rest, g)
    BY <1>1, <2>1, SuffixOn
  <2>3. glob' = [glob EXCEPT !.told = Append(glob.told, glob.next), !.ret = "OK",
                             !.next = glob.left[k], !.left = rest]
    BY <1>6
  <2> HIDE DEF rest
  <2>4. /\ glob' \in Stream /\ glob'.all = glob.all /\ glob'.left = rest
        /\ glob'.told = Append(glob.told, glob.next) /\ glob'.next = glob.left[k]
        /\ glob'.ret = "OK" /\ glob'.done = glob.done
    BY <1>4, <2>1, <2>2, <2>3 DEF Stream, Rets
  <2>5. PICK g : GoesOn(glob.all, glob.left, k, rest, g)
    BY <2>2
  <2>6. failed' = failed
    BY <1>6 DEF Succeeds
  <2>7. ASSUME ~ failed,
               NEW m \in Missed(glob.all, Given(glob.all, rest), glob'.told, present)
        PROVE  glob.all[m] = glob.left[k]
    <3>1. /\ m \in Missed(glob.all, Given(glob.all, rest), glob.told, present)
          /\ glob.all[m] # glob.next
      BY <1>5, <2>4, <2>7
    <3>2. \/ m \in Missed(glob.all, Given(glob.all, glob.left), glob.told, present)
          \/ glob.all[m] = glob.left[k]
      BY <2>1, <2>5, <3>1, MissedOn
    <3> QED BY <1>2, <2>7, <3>1, <3>2
  <2>8. GlobWin32'
    BY <1>1, <2>1, <2>4, <2>6, <2>7 DEF GlobWin32
  <2> QED BY <1>3, <2>2, <2>4, <2>8 DEF GlobInv
<1>7. ASSUME errno \notin {"ok", "nomore"}, Succeeds,
             glob' = [glob EXCEPT !.done = TRUE, !.ret = errno]
      PROVE  glob' \in Stream /\ GlobInv'
  <2>1. errno \in {"noent", "io"} /\ failed
    BY <1>7 DEF ErrnoInv, Errors
  <2>2. failed' = failed
    BY <1>7 DEF Succeeds
  <2>3. errno \in Rets /\ errno # "DONE"
    BY <2>1 DEF Rets
  <2>4. /\ glob' \in Stream /\ glob'.all = glob.all /\ glob'.left = glob.left
        /\ glob'.ret = errno /\ glob'.done = TRUE
    BY <1>7, <2>3 DEF Stream
  <2>5. GlobWin32'
    BY <2>1, <2>2, <2>3, <2>4 DEF GlobWin32
  <2> QED BY <1>1, <1>3, <2>4, <2>5 DEF GlobInv
<1>8. ASSUME AtEnd(glob.left) \/ Fails("io"), failed => failed',
             glob' = [glob EXCEPT !.told = Append(@, glob.next), !.done = TRUE, !.ret = "OK"]
      PROVE  glob' \in Stream /\ GlobInv'
  <2>1. /\ glob' \in Stream /\ glob'.all = glob.all /\ glob'.left = glob.left
        /\ glob'.told = Append(glob.told, glob.next) /\ glob'.ret = "OK" /\ glob'.done = TRUE
    BY <1>4, <1>8 DEF Stream, Rets
  <2>2. failed' \/ AtEnd(glob.left)'
    BY <1>1, <1>8, <2>1 DEF Fails, AtEnd
  <2>3. ASSUME ~ failed,
               NEW m \in Missed(glob.all, Given(glob.all, glob.left), glob'.told, present)
        PROVE  FALSE
    BY <1>2, <1>5, <2>1, <2>3
  <2>4. GlobWin32'
    BY <1>8, <2>1, <2>2, <2>3 DEF GlobWin32
  <2> QED BY <1>1, <1>3, <2>1, <2>4 DEF GlobInv
<1>9. ASSUME (AtEnd(glob.left) /\ errno' = "nomore" /\ UNCHANGED failed) \/ Fails("io")
      PROVE  (AtEnd(glob.left) \/ Fails("io")) /\ (failed => failed')
  BY <1>9 DEF Fails
<1> QED BY <1>6, <1>7, <1>8, <1>9 DEF glob_find_next

LEMMA GlobStopsKeeps ==
  ASSUME glob \in Stream, GlobInv, glob_find_stops, system' = system, present' = present
  PROVE  glob' \in Stream /\ GlobInv'
<1>1. PICK ret \in {"DONE", "LONG_PATH"} :
        glob' = [glob EXCEPT !.ret = ret] /\ (ret = "DONE" => glob.done)
  BY DEF glob_find_stops
<1>2. /\ glob' \in Stream /\ glob'.all = glob.all /\ glob'.left = glob.left
      /\ glob'.told = glob.told /\ glob'.ret = ret /\ glob'.done = glob.done
      /\ glob'.next = glob.next /\ glob'.open = glob.open
  BY <1>1 DEF Stream, Rets
<1>3. system = "win32" /\ failed' = failed
  BY DEF glob_find_stops, Succeeds
<1>4. GlobPosix'
  BY <1>3 DEF GlobPosix
<1>5. GlobWin32'
  BY <1>1, <1>2, <1>3 DEF GlobInv, GlobWin32, AtEnd
<1> QED BY <1>2, <1>4, <1>5 DEF GlobInv

LEMMA GlobReadKeeps ==
  ASSUME StreamInv, spr_glob_read
  PROVE  StreamInv'
<1>0. KindsInv /\ DirInv /\ GlobInv /\ ErrnoInv /\ glob \in Stream
  BY DEF StreamInv, KindsInv
<1>1. /\ info' = NoInfo /\ system' = system /\ present' = present /\ dir' = dir
      /\ opens' = opens /\ glob.open
  BY DEF spr_glob_read
<1>2. ErrnoInv' /\ (failed => failed')
  <2>1. CASE Succeeds \/ Fails("io")
    BY <1>0, <1>1, <2>1, ErrnoKept
  <2>2. CASE system = "win32" /\ errno' = "nomore" /\ failed' = failed
    BY <1>0, <1>1, <2>2 DEF ErrnoInv, Errors
  <2> QED BY <2>1, <2>2 DEF spr_glob_read, glob_next, glob_find_next, glob_find_stops
<1>3. glob' \in Stream /\ GlobInv'
  BY <1>0, <1>1, GlobNextKeeps, GlobFindKeeps, GlobStopsKeeps DEF spr_glob_read
<1>4. KindsInv'
  BY <1>0, <1>1, <1>2, <1>3, NoInfoType DEF KindsInv
<1>5. DirInv'
  BY <1>0, <1>1, <1>2, NoInfoTrue, DirFrame
<1> QED BY <1>3, <1>4, <1>5 DEF StreamInv

(* What is told of a file, with the exceptions.                            *)
Tells ==
  \E ret \in {"OK", "noent", "io", "overflow"}, conv, right, sys \in BOOLEAN :
    /\ info' = [ret |-> ret, conv |-> conv, right |-> right, sys |-> sys]
    /\ ret = "OK" => right \/ (system = "win32" /\ ~ (sys /\ conv))

(* The other calls leave the streams alone.                                *)
LEMMA InfoKeeps ==
  ASSUME StreamInv, NEW n \in Names, spr_file_info_by_path(n) \/ spr_file_info(n)
  PROVE  StreamInv'
<1>0. KindsInv /\ DirInv /\ GlobInv /\ ErrnoInv
  BY DEF StreamInv, KindsInv
<1>1. /\ system' = system /\ present' = present /\ dir' = dir /\ glob' = glob
      /\ opens' = opens
  BY DEF spr_file_info_by_path, spr_file_info
<1>2. ErrnoInv' /\ (failed => failed')
  BY <1>0, <1>1, ErrnoKept DEF spr_file_info_by_path, spr_file_info
<1>3. Tells
  <2>1. ASSUME NEW t, NEW ret \in {"OK", "noent", "io", "overflow"},
               NEW conv \in BOOLEAN, NEW sys \in BOOLEAN, Informs(n, conv, ret, t, sys),
               ret = "OK" => t = spr_stat_get_file_type(n) \/ (system = "win32" /\ ~ (sys /\ conv))
        PROVE  Tells
    BY <2>1 DEF Informs, Tells
  <2>2. CASE info' = [NoInfo EXCEPT !.ret = "overflow"]
    <3>1. info' = [ret |-> "overflow", conv |-> TRUE, right |-> TRUE, sys |-> TRUE]
      BY <2>2 DEF NoInfo
    <3> QED BY <3>1 DEF Tells
  <2>3. CASE spr_file_info(n)
    BY <2>1, <2>3 DEF spr_file_info
  <2>4. CASE spr_file_info_by_path(n)
    BY <2>1, <2>2, <2>4 DEF spr_file_info_by_path, Converted
  <2> QED BY <2>3, <2>4
<1>4. PICK ret \in {"OK", "noent", "io", "overflow"}, conv \in BOOLEAN, right \in BOOLEAN, sys \in BOOLEAN :
        /\ info' = [ret |-> ret, conv |-> conv, right |-> right, sys |-> sys]
        /\ ret = "OK" => right \/ (system = "win32" /\ ~ (sys /\ conv))
  BY <1>3 DEF Tells
<1>6. InfoTrue'
  BY <1>1, <1>4 DEF InfoTrue
<1>7. info' \in Infos
  BY <1>4 DEF Infos
<1>8. KindsInv'
  BY <1>0, <1>1, <1>2, <1>7 DEF KindsInv
<1>9. DirInv' /\ GlobInv'
  BY <1>0, <1>1, <1>2, <1>6, DirFrame, GlobFrame
<1> QED BY <1>8, <1>9 DEF StreamInv

LEMMA RemovedKeeps ==
  ASSUME StreamInv, NEW n \in Names, Removed(n)
  PROVE  StreamInv'
<1>0. KindsInv /\ DirInv /\ GlobInv /\ ErrnoInv
  BY DEF StreamInv, KindsInv
<1>1. /\ system' = system /\ present' = present \ {n} /\ dir' = dir /\ glob' = glob
      /\ opens' = opens /\ errno' = errno /\ failed' = failed /\ info' = NoInfo
  BY DEF Removed
<1>2. ErrnoInv'
  BY <1>0, <1>1 DEF ErrnoInv
<1>3. KindsInv'
  BY <1>0, <1>1, <1>2, NoInfoType DEF KindsInv
<1>4. DirInv' /\ GlobInv'
  BY <1>0, <1>1, NoInfoTrue, DirFrame, GlobFrame
<1> QED BY <1>3, <1>4 DEF StreamInv

(* The first states.                                                       *)
LEMMA StreamsAtFirst == ASSUME DirInit PROVE StreamInv
<1>1. /\ dir = Closed("none") /\ glob = Closed("none") /\ errno = "ok" /\ failed = FALSE
      /\ opens = 0 /\ info = NoInfo /\ system \in Systems /\ present \in SUBSET Names
  BY DEF DirInit
<1>2. /\ Closed("none") \in Stream /\ Suffix(<<>>, <<>>) /\ ~ Closed("none").open
      /\ Closed("none").all = <<>> /\ Closed("none").told = <<>> /\ Closed("none").left = <<>>
      /\ Closed("none").cur = None /\ Closed("none").ret = "none" /\ ~ Closed("none").done
  BY ClosedStream DEF Rets
<1>3. KindsInv
  <2>1. ErrnoInv
    BY <1>1 DEF ErrnoInv
  <2>2. opens \in 0..MaxOpens
    BY <1>1, DirAssumption
  <2> QED BY <1>1, <1>2, <2>1, <2>2, NoInfoType DEF KindsInv
<1>4. Len(<<>>) = 0 /\ Given(<<>>, <<>>) = 0
  BY DEF Given
<1>5. Ordered(<<>>, 0, <<>>) /\ \A there : Missed(<<>>, 0, <<>>, there) = {}
  BY <1>4 DEF Ordered, Missed
<1>6. EndExplained /\ TypeTrue /\ InfoTrue
  BY <1>1, <1>2 DEF EndExplained, TypeTrue, InfoTrue, NoInfo
<1>7. DirInv
  BY <1>1, <1>2, <1>4, <1>5, <1>6 DEF DirInv
<1>8. GlobInv
  BY <1>1, <1>2, <1>4, <1>5 DEF GlobInv, GlobPosix, GlobWin32
<1> QED BY <1>3, <1>7, <1>8 DEF StreamInv

LEMMA StreamsStep == StreamInv /\ [DirNext]_dirVars => StreamInv'
<1>1. SUFFICES ASSUME StreamInv, [DirNext]_dirVars PROVE StreamInv'
  OBVIOUS
<1>2. CASE DirNext
  BY <1>1, <1>2, DirReadKeeps, DirOpenKeeps, GlobOpenKeeps, GlobReadKeeps, InfoKeeps,
     RemovedKeeps DEF DirNext
<1>3. CASE UNCHANGED dirVars
  <2>1. /\ system' = system /\ present' = present /\ dir' = dir /\ glob' = glob
        /\ opens' = opens /\ errno' = errno /\ failed' = failed /\ info' = info
    BY <1>3 DEF dirVars
  <2>2. KindsInv' /\ InfoTrue'
    BY <1>1, <2>1 DEF StreamInv, KindsInv, ErrnoInv, DirInv, InfoTrue
  <2> QED BY <1>1, <2>1, <2>2, DirFrame, GlobFrame DEF StreamInv
<1> QED BY <1>1, <1>2, <1>3

LEMMA StreamsAlways == DirSpec => []StreamInv
BY StreamsAtFirst, StreamsStep, PTL DEF DirSpec

-----------------------------------------------------------------------------

LEMMA StreamTypes == StreamInv => DirTypeOK
<1>1. SUFFICES ASSUME StreamInv PROVE DirTypeOK
  OBVIOUS
<1>2. KindsInv /\ ErrnoInv /\ dir \in Stream /\ glob \in Stream
  BY <1>1 DEF StreamInv, KindsInv
<1>3. ASSUME NEW s \in Stream
      PROVE  /\ {s.open, s.done, s.sys} \subseteq BOOLEAN /\ s.type \in Types
             /\ {s.cur, s.next} \subseteq Names \cup {None}
             /\ {s.all, s.left, s.told} \subseteq Seq(Names) /\ s.ret \in Rets
  BY DEF Stream
<1>4. \A s \in {dir, glob} :
        /\ {s.open, s.done, s.sys} \subseteq BOOLEAN /\ s.type \in Types
        /\ {s.cur, s.next} \subseteq Names \cup {None}
        /\ {s.all, s.left, s.told} \subseteq Seq(Names) /\ s.ret \in Rets
  BY <1>2, <1>3
<1>5. /\ {info.right, info.conv, info.sys} \subseteq BOOLEAN
      /\ info.ret \in {"none", "OK", "noent", "io", "overflow"}
  BY <1>2 DEF KindsInv, Infos
<1> QED BY <1>2, <1>4, <1>5 DEF DirTypeOK, KindsInv, ErrnoInv, Rets

LEMMA GivenAll ==
  ASSUME NEW all \in Seq(Names), NEW left \in Seq(Names), Suffix(all, left)
  PROVE  /\ Given(all, left) \in Nat /\ Given(all, left) <= Len(all)
         /\ \A k \in 1..Given(all, left) : k \in 1..Len(all)
         /\ left = <<>> => Given(all, left) = Len(all)
         /\ \A k \in 1..Len(all) :
              k \in 1..Given(all, left) \/ \E j \in 1..Len(left) : left[j] = all[k]
<1>1. PICK a \in Nat, l \in Nat : a = Len(all) /\ l = Len(left) /\ l <= a
  BY DEF Suffix
<1>2. \A i \in 1..l : left[i] = all[(a - l) + i]
  BY <1>1 DEF Suffix
<1>3. Given(all, left) = a - l
  BY <1>1 DEF Given
<1>4. a - l \in Nat /\ a - l <= a /\ \A k \in 1..(a - l) : k \in 1..a
  BY ONLY <1>1, a \in Nat, l \in Nat
<1>5. left = <<>> => l = 0
  BY <1>1
<1>6. ASSUME NEW k \in 1..a, k \notin 1..(a - l) PROVE \E j \in 1..l : left[j] = all[k]
  <2>1. k - (a - l) \in 1..l /\ k = (a - l) + (k - (a - l))
    BY ONLY <1>1, <1>6, a \in Nat, l \in Nat, k \in 1..a
  <2> QED BY ONLY <1>2, <2>1
<1>7. l = 0 => a - l = a
  BY ONLY a \in Nat
<1> QED BY ONLY <1>1, <1>3, <1>4, <1>5, <1>6, <1>7

LEMMA PrefixOf ==
  ASSUME NEW seen \in Seq(Names), NEW all \in Seq(Names), Len(seen) <= Len(all),
         \A i \in 1..Len(seen) : seen[i] = all[i]
  PROVE  IsPrefix(seen, all) /\ (Len(seen) = Len(all) => seen = all)
<1>1. /\ SubSeq(seen, 1, Len(seen)) \in Seq(Names) /\ SubSeq(all, 1, Len(seen)) \in Seq(Names)
      /\ Len(SubSeq(seen, 1, Len(seen))) = Len(seen) /\ Len(SubSeq(all, 1, Len(seen))) = Len(seen)
      /\ \A i \in 1..Len(seen) : /\ SubSeq(seen, 1, Len(seen))[i] = seen[i]
                                 /\ SubSeq(all, 1, Len(seen))[i] = all[i]
  OBVIOUS
<1>2. SubSeq(seen, 1, Len(seen)) = SubSeq(all, 1, Len(seen))
  BY <1>1, SeqEqual
<1>3. Len(seen) = Len(all) => seen = all
  BY SeqEqual
<1> QED BY <1>2, <1>3 DEF IsPrefix

LEMMA StreamComplete == StreamInv => DirComplete
<1>1. SUFFICES ASSUME StreamInv PROVE DirComplete
  OBVIOUS
<1>2. DirInv /\ dir \in Stream
  BY <1>1 DEF StreamInv, KindsInv
<1>3. /\ dir.all \in Seq(Names) /\ dir.left \in Seq(Names) /\ dir.told \in Seq(Names)
      /\ Suffix(dir.all, dir.left)
  BY <1>2 DEF Stream, DirInv
<1>4. DOMAIN dir.all = 1..Len(dir.all) /\ DOMAIN dir.told = 1..Len(dir.told)
  BY <1>3
<1>5. PICK g : g = Given(dir.all, dir.left)
  OBVIOUS
<1>6. (\A k \in 1..g : k \in 1..Len(dir.all)) /\ (dir.left = <<>> => g = Len(dir.all))
  BY <1>3, <1>5, GivenAll
<1>7. ASSUME NEW i \in 1..Len(dir.told), NEW j \in 1..Len(dir.told), i < j
      PROVE  \E k, l \in 1..Len(dir.all) :
               k < l /\ dir.all[k] = dir.told[i] /\ dir.all[l] = dir.told[j]
  <2>1. PICK k \in 1..g, l \in 1..g :
          k < l /\ dir.all[k] = dir.told[i] /\ dir.all[l] = dir.told[j]
    BY <1>2, <1>5, <1>7 DEF DirInv, Ordered
  <2> QED BY <1>6, <2>1
<1>8. ASSUME dir.ret = "DONE", NEW k \in 1..Len(dir.all), dir.all[k] \in present,
             dir.all[k] \notin Range(dir.told)
      PROVE  system = "win32" /\ k = 1
  <2>1. g = Len(dir.all)
    BY <1>2, <1>6, <1>8 DEF DirInv
  <2>2. k \in Missed(dir.all, g, dir.told, present)
    BY <1>8, <2>1 DEF Missed
  <2> QED BY <1>2, <1>5, <2>2 DEF DirInv
<1>9. \A i, j \in DOMAIN dir.told : i < j => \E k, l \in DOMAIN dir.all :
        k < l /\ dir.all[k] = dir.told[i] /\ dir.all[l] = dir.told[j]
  <2>1. SUFFICES ASSUME NEW i \in DOMAIN dir.told, NEW j \in DOMAIN dir.told, i < j
                 PROVE  \E k, l \in DOMAIN dir.all :
                          k < l /\ dir.all[k] = dir.told[i] /\ dir.all[l] = dir.told[j]
    OBVIOUS
  <2>2. i \in 1..Len(dir.told) /\ j \in 1..Len(dir.told)
    BY <1>4
  <2>3. PICK k \in 1..Len(dir.all), l \in 1..Len(dir.all) :
          k < l /\ dir.all[k] = dir.told[i] /\ dir.all[l] = dir.told[j]
    BY ONLY <1>7, <2>1, <2>2
  <2>4. k \in DOMAIN dir.all /\ l \in DOMAIN dir.all
    BY <1>4
  <2> QED BY ONLY <2>3, <2>4
<1>10. dir.ret = "DONE" =>
         \A k \in DOMAIN dir.all :
           dir.all[k] \in present \cap Range(dir.told) \/ dir.all[k] \notin present
             \/ (system = "win32" /\ k = 1)
  BY ONLY <1>4, <1>8
<1> QED BY ONLY <1>9, <1>10 DEF DirComplete

LEMMA GlobIsComplete == StreamInv => GlobComplete
<1>1. SUFFICES ASSUME StreamInv, glob.open
               PROVE  /\ system # "win32" => IsPrefix(glob.told, glob.all)
                      /\ glob.ret = "DONE" =>
                           IF system # "win32" THEN glob.told = glob.all
                           ELSE failed \/ Range(glob.all) \cap present \subseteq Range(glob.told)
  BY DEF GlobComplete
<1>2. GlobInv /\ glob \in Stream
  BY <1>1 DEF StreamInv, KindsInv
<1>3. /\ glob.all \in Seq(Names) /\ glob.left \in Seq(Names) /\ glob.told \in Seq(Names)
      /\ Suffix(glob.all, glob.left)
  BY <1>2 DEF Stream, GlobInv
<1>4. /\ Given(glob.all, glob.left) <= Len(glob.all)
      /\ glob.left = <<>> => Given(glob.all, glob.left) = Len(glob.all)
      /\ \A k \in 1..Len(glob.all) : \/ k \in 1..Given(glob.all, glob.left)
                                     \/ \E j \in 1..Len(glob.left) : glob.left[j] = glob.all[k]
  BY <1>3, GivenAll
<1>5. CASE system # "win32"
  <2>1. /\ Len(glob.told) = Given(glob.all, glob.left)
        /\ \A i \in 1..Len(glob.told) : glob.told[i] = glob.all[i]
        /\ glob.ret = "DONE" => glob.left = <<>>
    BY <1>2, <1>5 DEF GlobInv, GlobPosix
  <2>2. /\ IsPrefix(glob.told, glob.all)
        /\ Len(glob.told) = Len(glob.all) => glob.told = glob.all
    BY <1>3, <1>4, <2>1, PrefixOf
  <2> QED BY <1>4, <1>5, <2>1, <2>2
<1>6. CASE system = "win32"
  <2>1. ASSUME glob.ret = "DONE", ~ failed, NEW x \in Range(glob.all), x \in present
        PROVE  x \in Range(glob.told)
    <3>1. PICK k \in 1..Len(glob.all) : x = glob.all[k]
      BY <1>3 DEF Range
    <3>2. /\ \A m \in Missed(glob.all, Given(glob.all, glob.left), glob.told, present) : FALSE
          /\ AtEnd(glob.left)
      BY <1>2, <1>6, <2>1 DEF GlobInv, GlobWin32
    <3>3. k \in 1..Given(glob.all, glob.left)
      <4>1. SUFFICES ASSUME k \notin 1..Given(glob.all, glob.left) PROVE FALSE
        OBVIOUS
      <4>2. PICK j \in 1..Len(glob.left) : glob.left[j] = glob.all[k]
        BY <1>4, <4>1
      <4>3. \A i \in 1..Len(glob.left) : glob.left[i] \notin present
        BY <1>3, <3>2 DEF AtEnd
      <4> QED BY <2>1, <3>1, <4>2, <4>3
    <3> QED BY <2>1, <3>1, <3>2, <3>3 DEF Missed
  <2> QED BY <1>6, <2>1
<1> QED BY <1>5, <1>6

(***************************************************************************)
(* spr_dir_read reports the files of a directory in its order, all of them *)
(* before it says DONE, and ends with an error only where a system call    *)
(* has failed, whatever files are removed meanwhile.                       *)
(***************************************************************************)
THEOREM DirectoryRight == DirSpec => []DirRight
<1>1. StreamInv => DirRight
  BY StreamTypes, StreamComplete DEF StreamInv, DirInv, DirRight
<1> QED BY <1>1, StreamsAlways, PTL

(***************************************************************************)
(* The type of a directory entry, and what spr_file_info tells, are those  *)
(* of the file, with the exceptions that TypeTrue and InfoTrue name.       *)
(***************************************************************************)
THEOREM InformationTrue == DirSpec => []FilesTrue
<1>1. StreamInv => FilesTrue
  BY DEF StreamInv, DirInv, FilesTrue
<1> QED BY <1>1, StreamsAlways, PTL

(***************************************************************************)
(* spr_glob_read reports the names that matched in their order, and all of *)
(* those that are there still before it says DONE.                         *)
(***************************************************************************)
THEOREM GlobReportsAll == DirSpec => []GlobComplete
BY GlobIsComplete, StreamsAlways, PTL
=============================================================================
