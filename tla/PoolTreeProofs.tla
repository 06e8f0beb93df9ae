--------------------------- MODULE PoolTreeProofs ---------------------------
(***************************************************************************)
(* Proofs about the tree of pools, for any number of threads and pools:    *)
(* the shared mutex is locked and unlocked in pairs, no child is lost, and *)
(* the recursion of spr_pool_clear and spr_pool_destroy visits the whole   *)
(* of a tree that one thread has created, and nothing that was freed.      *)
(***************************************************************************)
EXTENDS PoolTree, PointersProofs, SequenceTheorems

Used(p)  == state[p] # "unused"
Depth(t) == Len(stack[t])

-----------------------------------------------------------------------------
(* Stacks.                                                                 *)

(* What a step makes of the stack s of its thread: the innermost frame is  *)
(* left, is replaced by f, or calls another one.                           *)
Popped(s, s2) ==
  /\ Len(s2) = Len(s) - 1
  /\ \A k \in 1..Len(s2) : s2[k] = s[k + 1]

Replaced(s, s2, f) ==
  /\ Len(s2) = Len(s) /\ s2[1] = f
  /\ \A k \in 2..Len(s) : s2[k] = s[k]

Grown(s, s2, e, f) ==
  /\ Len(s2) = Len(s) + 1 /\ s2[1] = e /\ s2[2] = f
  /\ \A k \in 2..Len(s) : s2[k + 1] = s[k]

LEMMA StackTop ==
  ASSUME NEW s \in Seq(Frame), s # <<>>
  PROVE  /\ Len(s) \in Nat /\ Len(s) >= 1 /\ 1 \in 1..Len(s)
         /\ Head(s) = s[1] /\ s[1] \in Frame
         /\ Tail(s) \in Seq(Frame) /\ Popped(s, Tail(s))
<1>1. Len(s) \in Nat /\ Len(s) # 0
  BY EmptySeq, LenProperties
<1>2. Head(s) = s[1] /\ Tail(s) \in Seq(Frame) /\ Len(Tail(s)) = Len(s) - 1
      /\ \A i \in 1..Len(Tail(s)) : Tail(s)[i] = s[i + 1]
  BY HeadTailProperties
<1>3. 1 \in 1..Len(s)
  BY <1>1
<1>4. s[1] \in Frame
  BY <1>3, ElementOfSeq
<1> QED BY <1>1, <1>2, <1>3, <1>4 DEF Popped

LEMMA StackReplace ==
  ASSUME NEW s \in Seq(Frame), s # <<>>, NEW f \in Frame
  PROVE  <<f>> \o Tail(s) \in Seq(Frame) /\ Replaced(s, <<f>> \o Tail(s), f)
<1> DEFINE e == <<f>>
           v == Tail(s)
           c == e \o v
<1>1. e \in Seq(Frame) /\ Len(e) = 1 /\ e[1] = f
  OBVIOUS
<1>2. /\ v \in Seq(Frame) /\ Len(v) = Len(s) - 1 /\ Len(s) \in Nat /\ Len(s) >= 1
      /\ \A k \in 1..Len(v) : v[k] = s[k + 1]
  BY StackTop DEF Popped
<1> HIDE DEF e, v
<1>3. /\ c \in Seq(Frame) /\ Len(c) = Len(e) + Len(v)
      /\ \A i \in 1..(Len(e) + Len(v)) : c[i] = IF i <= Len(e) THEN e[i] ELSE v[i - Len(e)]
  <2>1. e \in Seq(Frame) /\ v \in Seq(Frame)
    BY <1>1, <1>2
  <2> QED BY <2>1, ConcatProperties
<1>4. Len(c) = Len(s)
  BY <1>1, <1>2, <1>3
<1>5. c[1] = f
  BY <1>1, <1>2, <1>3
<1>6. ASSUME NEW k \in 2..Len(s) PROVE c[k] = s[k]
  <2>1. k \in 1..(Len(e) + Len(v)) /\ ~ (k <= Len(e)) /\ k - Len(e) = k - 1
        /\ k - 1 \in 1..Len(v) /\ (k - 1) + 1 = k
    BY <1>1, <1>2
  <2>2. c[k] = v[k - 1]
    BY <1>3, <2>1
  <2> QED BY <1>2, <2>1, <2>2
<1> QED BY <1>3, <1>4, <1>5, <1>6 DEF Replaced, e, v

LEMMA StackGrow ==
  ASSUME NEW s \in Seq(Frame), s # <<>>, NEW e \in Frame, NEW f \in Frame
  PROVE  <<e, f>> \o Tail(s) \in Seq(Frame) /\ Grown(s, <<e, f>> \o Tail(s), e, f)
<1> DEFINE a == <<e, f>>
           v == Tail(s)
           c == a \o v
<1>1. a \in Seq(Frame) /\ Len(a) = 2 /\ a[1] = e /\ a[2] = f
  OBVIOUS
<1>2. /\ v \in Seq(Frame) /\ Len(v) = Len(s) - 1 /\ Len(s) \in Nat /\ Len(s) >= 1
      /\ \A k \in 1..Len(v) : v[k] = s[k + 1]
  BY StackTop DEF Popped
<1> HIDE DEF a, v
<1>3. /\ c \in Seq(Frame) /\ Len(c) = Len(a) + Len(v)
      /\ \A i \in 1..(Len(a) + Len(v)) : c[i] = IF i <= Len(a) THEN a[i] ELSE v[i - Len(a)]
  <2>1. a \in Seq(Frame) /\ v \in Seq(Frame)
    BY <1>1, <1>2
  <2> QED BY <2>1, ConcatProperties
<1>4. Len(c) = Len(s) + 1
  BY <1>1, <1>2, <1>3
<1>5. c[1] = e /\ c[2] = f
  BY <1>1, <1>2, <1>3
<1>6. ASSUME NEW k \in 2..Len(s) PROVE c[k + 1] = s[k]
  <2>1. k + 1 \in 1..(Len(a) + Len(v)) /\ ~ (k + 1 <= Len(a)) /\ (k + 1) - Len(a) = k - 1
        /\ k - 1 \in 1..Len(v) /\ (k - 1) + 1 = k
    BY <1>1, <1>2
  <2>2. c[k + 1] = v[k - 1]
    BY <1>3, <2>1
  <2> QED BY <1>2, <2>1, <2>2
<1> QED BY <1>3, <1>4, <1>5, <1>6 DEF Grown, a, v

LEMMA StackOne ==
  ASSUME NEW f \in Frame
  PROVE  <<f>> \in Seq(Frame) /\ Len(<<f>>) = 1 /\ <<f>>[1] = f
OBVIOUS

LEMMA FrameFacts ==
  ASSUME NEW f
  PROVE  f \in Frame <=> /\ f = [op |-> f.op, pc |-> f.pc, pool |-> f.pool, temp |-> f.temp]
                         /\ f.op \in {"create", "clear", "destroy"}
                         /\ f.pc \in {"child", "brother", "enter", "walk"}
                         /\ f.pool \in Pools /\ f.temp \in Pools \cup {NULL}
BY DEF Frame

-----------------------------------------------------------------------------
(* The base of all invariants: how the pools of a tree point to each       *)
(* other, which frames a stack has, and how often the mutexes are locked.  *)

ShapeInv ==
  \A p \in Pools :
    /\ Used(p) => /\ \A q \in 1..p : Used(q)
                  /\ mutex[p] \in Pools /\ Used(mutex[p]) /\ mutex[mutex[p]] = mutex[p]
                  /\ parent[p] = NULL => mutex[p] = p
    /\ ~ Used(p) => parent[p] = NULL
    /\ parent[p] # NULL => Used(parent[p]) /\ parent[p] < p /\ mutex[parent[p]] = mutex[p]
    /\ child[p] # NULL => parent[child[p]] = p
    /\ brother[p] # NULL => parent[p] # NULL /\ parent[brother[p]] = parent[p]
    /\ p \in raced => Used(p)

(* A frame of thread t.                                                    *)
FrameOK(t, f) ==
  /\ Used(f.pool)
  /\ f.op = "create" => /\ f.pc \in {"child", "brother"}
                        /\ parent[f.pool] # NULL /\ owner[f.pool] = t
                        /\ (f.temp # NULL => parent[f.temp] = parent[f.pool])
  /\ f.op # "create" => f.pc \in {"enter", "walk"}
  /\ f.pc = "walk" => Owned(t, f.pool) /\ (f.temp # NULL => parent[f.temp] = f.pool)

(* A stack of thread t: one operation goes down one branch of one tree.    *)
StackOK(t, s) ==
  /\ \A k \in 1..Len(s) : FrameOK(t, s[k])
  /\ \A k \in 2..Len(s) : s[k].pc = "walk" /\ parent[s[k - 1].pool] = s[k].pool
  /\ \A j, k \in 1..Len(s) : /\ s[j].op = s[k].op
                             /\ mutex[s[j].pool] = mutex[s[k].pool]
                             /\ (k < j => s[j].pool < s[k].pool)

StacksInv == \A t \in Threads : StackOK(t, stack[t])

(* The frames of a stack that have locked the mutex of r.                  *)
Locking(f, m, r) == f.op = "clear" /\ f.pc = "walk" /\ m[f.pool] = r
Held(s, m, r)    == {k \in 1..Len(s) : Locking(s[k], m, r)}

MutexInv ==
  \A r \in Pools :
    /\ \A t, u \in holder[r] : t = u
    /\ holder[r] = {} => depth[r] = 0
    /\ \A t \in Threads :
         IF t \in holder[r]
         THEN depth[r] = Cardinality(Held(stack[t], mutex, r)) /\ depth[r] # 0
         ELSE Cardinality(Held(stack[t], mutex, r)) = 0

BaseInv == TypeOK /\ ShapeInv /\ StacksInv /\ MutexInv

LEMMA PoolFacts ==
  /\ MaxPools \in Nat /\ Pools = 1..MaxPools /\ NULL = 0 /\ NULL \notin Pools
  /\ IsFiniteSet(Pools) /\ Cardinality(Pools) = MaxPools
<1>1. MaxPools \in Nat
  BY TreeAssumption
<1>2. IsFiniteSet(1..MaxPools) /\ Cardinality(1..MaxPools) = MaxPools
  BY <1>1, FS_Interval
<1>3. 0 \notin 1..MaxPools
  BY <1>1
<1> QED BY <1>1, <1>2, <1>3 DEF Pools, NULL

(* TypeOK field by field.                                                  *)
LEMMA Types ==
  ASSUME TypeOK
  PROVE  /\ system \in {"posix", "win32"}
         /\ state \in [Pools -> {"unused", "live", "freed"}]
         /\ owner \in [Pools -> Threads]
         /\ mutex \in [Pools -> Pools \cup {NULL}] /\ parent \in [Pools -> Pools \cup {NULL}]
         /\ child \in [Pools -> Pools \cup {NULL}] /\ brother \in [Pools -> Pools \cup {NULL}]
         /\ holder \in [Pools -> SUBSET Threads] /\ depth \in [Pools -> Nat]
         /\ stack \in [Threads -> Seq(Frame)] /\ done \in [Threads -> SUBSET Pools]
         /\ fault \in Pools \cup {NULL} /\ mixed \subseteq Pools /\ raced \subseteq Pools
BY DEF TypeOK

(* The frame a thread is in.                                               *)
LEMMA TopFrame ==
  ASSUME TypeOK, StacksInv, NEW t \in Threads, stack[t] # <<>>
  PROVE  /\ Top(t) = stack[t][1] /\ Top(t) \in Frame /\ Depth(t) \in Nat /\ 1 \in 1..Depth(t)
         /\ FrameOK(t, Top(t)) /\ Top(t).pool \in Pools /\ Top(t).temp \in Pools \cup {NULL}
         /\ Depth(t) >= 1 /\ Top(t).op \in {"create", "clear", "destroy"}
<1>1. stack[t] \in Seq(Frame)
  BY Types
<1>2. Len(stack[t]) \in Nat /\ Len(stack[t]) >= 1 /\ 1 \in 1..Len(stack[t])
      /\ Head(stack[t]) = stack[t][1] /\ stack[t][1] \in Frame
  BY <1>1, StackTop
<1>3. FrameOK(t, stack[t][1])
  BY <1>2 DEF StacksInv, StackOK
<1>4. stack[t][1].pool \in Pools /\ stack[t][1].temp \in Pools \cup {NULL}
      /\ stack[t][1].op \in {"create", "clear", "destroy"}
  BY <1>2 DEF Frame
<1> QED BY <1>2, <1>3, <1>4 DEF Top, Depth

-----------------------------------------------------------------------------
(* Stacks that stay right.                                                 *)

(* What is known of a pool that was created does not change.               *)
Keeps ==
  /\ system' = system
  /\ \A p \in Pools : Used(p) => /\ Used(p)' /\ owner'[p] = owner[p]
                                 /\ parent'[p] = parent[p] /\ mutex'[p] = mutex[p]

LEMMA FrameKept ==
  ASSUME TypeOK, ShapeInv, Keeps, NEW t, NEW f \in Frame, FrameOK(t, f)
  PROVE  FrameOK(t, f)'
<1>1. f.pool \in Pools /\ f.temp \in Pools \cup {NULL} /\ Used(f.pool)
  BY DEF Frame, FrameOK
<1>2. /\ Used(f.pool)' /\ owner'[f.pool] = owner[f.pool] /\ parent'[f.pool] = parent[f.pool]
  BY <1>1 DEF Keeps
<1>3. ASSUME f.temp # NULL, parent[f.temp] # NULL PROVE parent'[f.temp] = parent[f.temp]
  <2>1. f.temp \in Pools
    BY <1>1, <1>3
  <2>2. Used(f.temp)
    BY <1>3, <2>1 DEF ShapeInv
  <2> QED BY <2>1, <2>2 DEF Keeps
<1>4. f.pool # NULL
  BY <1>1, PoolFacts
<1>5. f.op = "create" => /\ f.pc \in {"child", "brother"}
                         /\ parent'[f.pool] # NULL /\ owner'[f.pool] = t
                         /\ (f.temp # NULL => parent'[f.temp] = parent'[f.pool])
  BY <1>2, <1>3 DEF FrameOK
<1>6. f.pc = "walk" => Owned(t, f.pool)' /\ (f.temp # NULL => parent'[f.temp] = f.pool)
  BY <1>2, <1>3, <1>4 DEF FrameOK, Owned, Keeps
<1>7. f.op # "create" => f.pc \in {"enter", "walk"}
  BY DEF FrameOK
<1> QED BY <1>2, <1>5, <1>6, <1>7 DEF FrameOK

LEMMA StackKept ==
  ASSUME TypeOK, ShapeInv, Keeps, NEW t, NEW s \in Seq(Frame), StackOK(t, s)
  PROVE  StackOK(t, s)'
<1>1. \A k \in 1..Len(s) : s[k] \in Frame /\ s[k].pool \in Pools
  <2>1. \A k \in 1..Len(s) : s[k] \in Frame
    BY ElementOfSeq
  <2> QED BY <2>1 DEF Frame
<1>2. \A k \in 1..Len(s) : FrameOK(t, s[k])
  BY DEF StackOK
<1>3. \A k \in 1..Len(s) : FrameOK(t, s[k])'
  BY <1>1, <1>2, FrameKept
<1>4. \A k \in 1..Len(s) : /\ parent'[s[k].pool] = parent[s[k].pool]
                           /\ mutex'[s[k].pool] = mutex[s[k].pool]
  BY <1>1, <1>2 DEF FrameOK, Keeps
<1>5. Len(s) \in Nat
  BY LenProperties
<1>6. \A k \in 2..Len(s) : k - 1 \in 1..Len(s)
  BY <1>5
<1>7. \A k \in 2..Len(s) : s[k].pc = "walk" /\ parent'[s[k - 1].pool] = s[k].pool
  BY <1>4, <1>6 DEF StackOK
<1>8. \A j, k \in 1..Len(s) : /\ s[j].op = s[k].op
                              /\ mutex'[s[j].pool] = mutex'[s[k].pool]
                              /\ (k < j => s[j].pool < s[k].pool)
  BY <1>4 DEF StackOK
<1> QED BY <1>3, <1>7, <1>8 DEF StackOK

LEMMA StackPop ==
  ASSUME NEW t, NEW s \in Seq(Frame), NEW v \in Seq(Frame), StackOK(t, s), Popped(s, v)
  PROVE  StackOK(t, v)
<1>1. Len(s) \in Nat /\ Len(v) \in Nat /\ Len(v) = Len(s) - 1
  BY LenProperties DEF Popped
<1>2. \A k \in 1..Len(v) : k + 1 \in 1..Len(s) /\ v[k] = s[k + 1]
  BY <1>1 DEF Popped
<1>3. \A k \in 1..Len(v) : FrameOK(t, v[k])
  BY <1>2 DEF StackOK
<1>4. ASSUME NEW k \in 2..Len(v) PROVE v[k].pc = "walk" /\ parent[v[k - 1].pool] = v[k].pool
  <2>1. k + 1 \in 2..Len(s) /\ (k + 1) - 1 = k /\ k \in 1..Len(v) /\ k - 1 \in 1..Len(v) /\ (k - 1) + 1 = k
    BY <1>1
  <2>2. v[k] = s[k + 1] /\ v[k - 1] = s[k]
    BY <1>2, <2>1
  <2>3. s[k + 1].pc = "walk" /\ parent[s[(k + 1) - 1].pool] = s[k + 1].pool
    BY <2>1 DEF StackOK
  <2> QED BY <2>1, <2>2, <2>3
<1>5. ASSUME NEW j \in 1..Len(v), NEW k \in 1..Len(v)
      PROVE  /\ v[j].op = v[k].op /\ mutex[v[j].pool] = mutex[v[k].pool]
             /\ (k < j => v[j].pool < v[k].pool)
  <2>1. j + 1 \in 1..Len(s) /\ k + 1 \in 1..Len(s) /\ v[j] = s[j + 1] /\ v[k] = s[k + 1]
    BY <1>2
  <2>2. k < j => k + 1 < j + 1
    BY <1>1
  <2> QED BY <2>1, <2>2 DEF StackOK
<1> QED BY <1>3, <1>4, <1>5 DEF StackOK

LEMMA StackSwap ==
  ASSUME NEW t, NEW s \in Seq(Frame), s # <<>>, NEW v, NEW f, StackOK(t, s),
         Replaced(s, v, f), f.pool = s[1].pool, f.op = s[1].op, FrameOK(t, f)
  PROVE  StackOK(t, v)
<1>1. Len(s) \in Nat /\ Len(v) = Len(s) /\ 1 \in 1..Len(s) /\ v[1] = f
  BY StackTop DEF Replaced
<1>2. \A k \in 1..Len(s) : k = 1 \/ (k \in 2..Len(s) /\ v[k] = s[k])
  BY <1>1 DEF Replaced
<1>3. \A k \in 1..Len(s) : v[k].op = s[k].op /\ v[k].pool = s[k].pool
  BY <1>1, <1>2
<1>4. \A k \in 1..Len(v) : FrameOK(t, v[k])
  BY <1>1, <1>2 DEF StackOK
<1>5. \A k \in 2..Len(v) : v[k] = s[k] /\ k - 1 \in 1..Len(s) /\ k \in 2..Len(s)
  BY <1>1 DEF Replaced
<1>6. \A k \in 2..Len(v) : v[k].pc = "walk" /\ parent[v[k - 1].pool] = v[k].pool
  BY <1>3, <1>5 DEF StackOK
<1>7. \A j, k \in 1..Len(v) : /\ v[j].op = v[k].op
                              /\ mutex[v[j].pool] = mutex[v[k].pool]
                              /\ (k < j => v[j].pool < v[k].pool)
  BY <1>1, <1>3 DEF StackOK
<1> QED BY <1>4, <1>6, <1>7 DEF StackOK

LEMMA StackCall ==
  ASSUME NEW t, NEW s \in Seq(Frame), s # <<>>, NEW v, NEW e, NEW f, StackOK(t, s),
         Grown(s, v, e, f), f.pool = s[1].pool, f.op = s[1].op, e.op = s[1].op,
         f.pc = "walk", FrameOK(t, f), FrameOK(t, e), parent[e.pool] = f.pool,
         mutex[e.pool] = mutex[f.pool], f.pool < e.pool,
         e.pool \in Pools, \A k \in 1..Len(s) : s[k].pool \in Pools
  PROVE  StackOK(t, v)
<1>1. Len(s) \in Nat /\ Len(v) = Len(s) + 1 /\ 1 \in 1..Len(s) /\ v[1] = e /\ v[2] = f
  BY StackTop DEF Grown
<1>2. \A k \in 1..Len(v) : k = 1 \/ k = 2 \/ (k - 1 \in 2..Len(s) /\ v[k] = s[k - 1])
  <2>1. \A k \in 1..Len(v) : k = 1 \/ k = 2 \/ (k - 1 \in 2..Len(s) /\ (k - 1) + 1 = k)
    BY <1>1
  <2>2. \A j \in 2..Len(s) : v[j + 1] = s[j]
    BY DEF Grown
  <2> QED BY <2>1, <2>2
<1>3. \A k \in 1..Len(v) : k # 1 => /\ k - 1 \in 1..Len(s) /\ v[k].op = s[k - 1].op
                                    /\ v[k].pool = s[k - 1].pool
  BY <1>1, <1>2
<1>4. \A k \in 1..Len(v) : FrameOK(t, v[k])
  <2>1. \A j \in 2..Len(s) : j \in 1..Len(s)
    BY <1>1
  <2> QED BY <1>1, <1>2, <2>1 DEF StackOK
<1>5. ASSUME NEW k \in 2..Len(v) PROVE v[k].pc = "walk" /\ parent[v[k - 1].pool] = v[k].pool
  <2>1. CASE k = 2
    BY <1>1, <2>1
  <2>2. CASE k # 2
    <3>1. k \in 1..Len(v) /\ k - 1 \in 1..Len(v) /\ k # 1 /\ k - 1 # 1 /\ k - 1 \in 2..Len(s)
      BY <1>1, <2>2
    <3>2. v[k] = s[k - 1] /\ v[k - 1].pool = s[(k - 1) - 1].pool
      BY <1>2, <1>3, <2>2, <3>1
    <3> QED BY <3>1, <3>2 DEF StackOK
  <2> QED BY <2>1, <2>2
<1>6. ASSUME NEW k \in 1..Len(v)
      PROVE  /\ v[k].op = s[1].op /\ mutex[v[k].pool] = mutex[s[1].pool]
             /\ (k # 1 => v[k].pool < v[1].pool)
  <2>1. CASE k = 1
    BY <1>1, <2>1
  <2>2. CASE k # 1
    <3>1. k - 1 \in 1..Len(s) /\ v[k].op = s[k - 1].op /\ v[k].pool = s[k - 1].pool
      BY <1>3, <2>2
    <3>2. s[k - 1].op = s[1].op /\ mutex[s[k - 1].pool] = mutex[s[1].pool]
          /\ (1 < k - 1 => s[k - 1].pool < s[1].pool)
      BY <1>1, <3>1 DEF StackOK
    <3>3. s[k - 1].pool \in Nat /\ s[1].pool \in Nat /\ e.pool \in Nat
      BY <1>1, <3>1, PoolFacts
    <3>4. k - 1 = 1 \/ 1 < k - 1
      BY <3>1
    <3>5. s[k - 1].pool < e.pool
      BY <3>2, <3>3, <3>4
    <3> QED BY <1>1, <3>1, <3>2, <3>5
  <2> QED BY <2>1, <2>2
<1>7. ASSUME NEW j \in 1..Len(v), NEW k \in 1..Len(v), k < j PROVE v[j].pool < v[k].pool
  <2>1. CASE k = 1
    BY <1>6, <1>7, <2>1
  <2>2. CASE k # 1
    <3>1. j # 1 /\ k - 1 < j - 1
      BY <1>1, <1>7, <2>2
    <3>2. k - 1 \in 1..Len(s) /\ j - 1 \in 1..Len(s) /\ v[j].pool = s[j - 1].pool /\ v[k].pool = s[k - 1].pool
      BY <1>3, <2>2, <3>1
    <3> QED BY <3>1, <3>2 DEF StackOK
  <2> QED BY <2>1, <2>2
<1> QED BY <1>4, <1>5, <1>6, <1>7 DEF StackOK


-----------------------------------------------------------------------------
(* Counting the frames that have locked a mutex.                           *)

Count(s, m, r) == Cardinality(Held(s, m, r))
One(f, m, r)   == IF Locking(f, m, r) THEN 1 ELSE 0

LEMMA HeldFinite ==
  ASSUME NEW s \in Seq(Frame), NEW m, NEW r
  PROVE  IsFiniteSet(Held(s, m, r)) /\ Count(s, m, r) \in Nat
<1>1. Len(s) \in Nat
  BY LenProperties
<1>2. IsFiniteSet(1..Len(s))
  BY <1>1, FS_Interval
<1>3. Held(s, m, r) \in SUBSET (1..Len(s))
  BY DEF Held
<1>4. IsFiniteSet(Held(s, m, r))
  BY <1>2, <1>3, FS_Subset
<1> QED BY <1>4, FS_CardinalityType DEF Count

(* The frames but the innermost one.                                       *)
LEMMA HeldRest ==
  ASSUME NEW s \in Seq(Frame), s # <<>>, NEW m, NEW r
  PROVE  /\ IsFiniteSet(Held(s, m, r) \ {1})
         /\ Cardinality(Held(s, m, r) \ {1}) \in Nat
         /\ Count(s, m, r) = Cardinality(Held(s, m, r) \ {1}) + One(s[1], m, r)
<1>1. IsFiniteSet(Held(s, m, r)) /\ Count(s, m, r) \in Nat
  BY HeldFinite
<1>2. 1 \in Held(s, m, r) <=> Locking(s[1], m, r)
  BY StackTop DEF Held
<1>3. /\ IsFiniteSet(Held(s, m, r) \ {1})
      /\ Cardinality(Held(s, m, r) \ {1}) =
           IF 1 \in Held(s, m, r) THEN Count(s, m, r) - 1 ELSE Count(s, m, r)
  BY <1>1, FS_RemoveElement DEF Count
<1>4. Cardinality(Held(s, m, r) \ {1}) \in Nat
  BY <1>3, FS_CardinalityType
<1> QED BY <1>1, <1>2, <1>3, <1>4 DEF One

LEMMA HeldPop ==
  ASSUME NEW s \in Seq(Frame), s # <<>>, NEW v \in Seq(Frame), Popped(s, v), NEW m, NEW r
  PROVE  Count(s, m, r) = Count(v, m, r) + One(s[1], m, r)
<1> DEFINE S == Held(v, m, r)
           T == Held(s, m, r) \ {1}
           g == [k \in S |-> k + 1]
<1>1. Len(s) \in Nat /\ Len(v) \in Nat /\ Len(v) = Len(s) - 1
  BY LenProperties DEF Popped
<1>2. \A k \in 1..Len(v) : k + 1 \in 1..Len(s) /\ k + 1 # 1 /\ v[k] = s[k + 1]
  BY <1>1 DEF Popped
<1>3. \A k \in S : k \in 1..Len(v) /\ Locking(v[k], m, r)
  BY DEF Held
<1>4. \A k \in S : k + 1 \in T
  BY <1>2, <1>3 DEF Held
<1>5. \A j \in T : \E k \in S : g[k] = j
  <2>1. SUFFICES ASSUME NEW j \in T PROVE \E k \in S : g[k] = j
    OBVIOUS
  <2>2. j \in 1..Len(s) /\ j # 1 /\ Locking(s[j], m, r)
    BY DEF Held
  <2>3. j - 1 \in 1..Len(v) /\ (j - 1) + 1 = j
    BY <1>1, <2>2
  <2>4. v[j - 1] = s[j]
    BY <1>2, <2>3
  <2>5. j - 1 \in S
    BY <2>2, <2>3, <2>4 DEF Held
  <2> QED BY <2>3, <2>5
<1>6. \A a, b \in S : a + 1 = b + 1 => a = b
  BY <1>1, <1>3
<1>7. g \in Bijection(S, T)
  <2> HIDE DEF S, T
  <2>1. g \in [S -> T]
    BY <1>4
  <2>2. g \in Surjection(S, T)
    BY <1>5, <2>1 DEF Surjection
  <2>3. g \in Injection(S, T)
    <3>1. \A a, b \in S : g[a] = g[b] => a = b
      BY <1>6
    <3> HIDE DEF g
    <3> QED BY <2>1, <3>1 DEF Injection, IsInjective
  <2> QED BY <2>2, <2>3 DEF Bijection
<1>8. IsFiniteSet(S) /\ ExistsBijection(S, T)
  BY <1>7, HeldFinite DEF ExistsBijection
<1>9. Cardinality(T) = Cardinality(S)
  <2> HIDE DEF S, T
  <2> QED BY <1>8, FS_Bijection
<1> QED BY <1>9, HeldRest DEF Count

LEMMA HeldSwap ==
  ASSUME NEW s \in Seq(Frame), s # <<>>, NEW v \in Seq(Frame), v # <<>>, NEW f,
         Replaced(s, v, f), NEW m, NEW r
  PROVE  Count(v, m, r) - One(f, m, r) = Count(s, m, r) - One(s[1], m, r)
<1>1. Len(s) \in Nat /\ Len(v) = Len(s) /\ v[1] = f
  BY LenProperties DEF Replaced
<1>2. \A k \in 1..Len(s) : k # 1 => v[k] = s[k]
  BY <1>1 DEF Replaced
<1>3. Held(v, m, r) \ {1} = Held(s, m, r) \ {1}
  BY <1>1, <1>2 DEF Held
<1>4. /\ Count(s, m, r) = Cardinality(Held(s, m, r) \ {1}) + One(s[1], m, r)
      /\ Count(v, m, r) = Cardinality(Held(s, m, r) \ {1}) + One(f, m, r)
      /\ Cardinality(Held(s, m, r) \ {1}) \in Nat
  BY <1>1, <1>3, HeldRest
<1>5. One(f, m, r) \in Nat /\ One(s[1], m, r) \in Nat
  BY DEF One
<1> QED BY <1>4, <1>5

LEMMA HeldCall ==
  ASSUME NEW s \in Seq(Frame), s # <<>>, NEW v \in Seq(Frame), v # <<>>, NEW e, NEW f,
         Grown(s, v, e, f), NEW m, NEW r
  PROVE  Count(v, m, r) = (Count(s, m, r) - One(s[1], m, r)) + One(f, m, r) + One(e, m, r)
<1>1. Len(s) \in Nat /\ Len(s) >= 1 /\ Len(v) = Len(s) + 1 /\ v[1] = e /\ v[2] = f
  BY StackTop DEF Grown
<1>2. PICK w : w = Tail(v)
  OBVIOUS
<1>3. w \in Seq(Frame) /\ Popped(v, w)
  BY <1>2, StackTop
<1>4. Len(w) = Len(s) /\ \A k \in 1..Len(w) : w[k] = v[k + 1]
  BY <1>1, <1>3 DEF Popped
<1>5. w # <<>> /\ w[1] = f
  BY <1>1, <1>4
<1>6. Replaced(s, w, f)
  <2>1. \A k \in 2..Len(s) : k \in 1..Len(w) /\ v[k + 1] = s[k]
    BY <1>1, <1>4 DEF Grown
  <2> QED BY <1>4, <1>5, <2>1 DEF Replaced
<1>7. Count(v, m, r) = Count(w, m, r) + One(e, m, r)
  BY <1>1, <1>3, HeldPop
<1>8. Count(w, m, r) - One(f, m, r) = Count(s, m, r) - One(s[1], m, r)
  BY <1>3, <1>5, <1>6, HeldSwap
<1>9. One(f, m, r) \in Nat /\ One(s[1], m, r) \in Nat /\ One(e, m, r) \in Nat
      /\ Count(s, m, r) \in Nat /\ Count(w, m, r) \in Nat
  BY <1>3, HeldFinite DEF One
<1> QED BY <1>7, <1>8, <1>9

LEMMA HeldNone ==
  ASSUME NEW m, NEW r
  PROVE  Count(<<>>, m, r) = 0
<1>1. Held(<<>>, m, r) = {}
  BY DEF Held
<1> QED BY <1>1, FS_EmptySet DEF Count

LEMMA HeldSingle ==
  ASSUME NEW f \in Frame, NEW m, NEW r, ~ Locking(f, m, r)
  PROVE  Count(<<f>>, m, r) = 0
<1>1. Held(<<f>>, m, r) = {}
  <2>1. Len(<<f>>) = 1 /\ <<f>>[1] = f
    OBVIOUS
  <2> QED BY <2>1 DEF Held
<1> QED BY <1>1, FS_EmptySet DEF Count

(* Pools created later do not count.                                       *)
LEMMA HeldSame ==
  ASSUME NEW s, NEW m, NEW m2, NEW r, \A k \in 1..Len(s) : m2[s[k].pool] = m[s[k].pool]
  PROVE  Held(s, m2, r) = Held(s, m, r)
BY DEF Held, Locking


-----------------------------------------------------------------------------
(* The steps, one by one.                                                  *)

Only(t) == \A u \in Threads : u # t => stack'[u] = stack[u]

(* A freed pool was touched, or nothing has happened.                      *)
Idle == UNCHANGED <<system, state, owner, mutex, parent, child, brother, holder, depth, stack,
                    done, mixed, raced>>
        /\ fault' \in Pools \cup {NULL}

(* A pool p is created: what spr_pool_create1 fills in, for a parent or    *)
(* none.                                                                   *)
Creates(t, par, p) ==
  /\ fault = NULL /\ stack[t] = <<>>
  /\ ~ Used(p) /\ \A q \in 1..(p - 1) : Used(q)
  /\ state' = [state EXCEPT ![p] = "live"]
  /\ owner' = [owner EXCEPT ![p] = t]
  /\ parent' = [parent EXCEPT ![p] = par]
  /\ UNCHANGED <<child, brother, holder, depth, done, mixed, fault>>

CreatesRoot(t, p) ==
  /\ Creates(t, NULL, p)
  /\ mutex' = [mutex EXCEPT ![p] = p]
  /\ UNCHANGED <<stack, raced>>

(* Somebody is about to become a child of par.                             *)
Linking(par) ==
  \E u \in Threads : stack[u] # <<>> /\ Top(u).pc = "child" /\ parent[Top(u).pool] = par

NewFrame(p, c) == [op |-> "create", pc |-> "child", pool |-> p, temp |-> c]

CreatesChild(t, par, p) ==
  /\ Creates(t, par, p) /\ par \in Pools /\ Live(par)
  /\ mutex' = [mutex EXCEPT ![p] = mutex[par]]
  /\ stack'[t] = <<NewFrame(p, child[par])>>
  /\ raced' = IF Linking(par) THEN raced \cup {par} ELSE raced

LinksChild(t, f) ==
  /\ f.pc = "child" /\ f.op = "create" /\ parent[f.pool] \in Pools /\ Live(parent[f.pool])
  /\ child' = [child EXCEPT ![parent[f.pool]] = f.pool]
  /\ Replaced(stack[t], stack'[t], [f EXCEPT !.pc = "brother"])
  /\ UNCHANGED <<state, owner, mutex, parent, brother, holder, depth, done, mixed, raced, fault>>

LinksBrother(t, f) ==
  /\ f.pc = "brother" /\ f.op = "create"
  /\ brother' = [brother EXCEPT ![f.pool] = f.temp]
  /\ Popped(stack[t], stack'[t])
  /\ UNCHANGED <<state, owner, mutex, parent, child, holder, depth, done, mixed, raced, fault>>

Calls(t, op, p) ==
  /\ op \in {"clear", "destroy"} /\ fault = NULL /\ stack[t] = <<>> /\ Live(p)
  /\ stack'[t] = <<Enter(op, p)>>
  /\ done' = [done EXCEPT ![t] = {}]
  /\ mixed' = IF owner[p] # t \/ (op = "destroy" /\ parent[p] # NULL)
              THEN mixed \cup {mutex[p]} ELSE mixed
  /\ UNCHANGED <<state, owner, mutex, parent, child, brother, holder, depth, raced, fault>>

Refused(t, f) ==
  /\ f.pc = "enter" /\ Live(f.pool) /\ ~ Owned(t, f.pool)
  /\ Popped(stack[t], stack'[t])
  /\ UNCHANGED <<state, owner, mutex, parent, child, brother, holder, depth, done, mixed, raced, fault>>

Begins(t, f) ==
  /\ f.pc = "enter" /\ f.op # "create" /\ Live(f.pool) /\ Owned(t, f.pool)
  /\ IF f.op = "clear" THEN Live(mutex[f.pool]) /\ Lock(t, mutex[f.pool])
     ELSE UNCHANGED <<holder, depth>>
  /\ Replaced(stack[t], stack'[t], [f EXCEPT !.pc = "walk", !.temp = child[f.pool]])
  /\ UNCHANGED <<state, owner, mutex, parent, child, brother, done, mixed, raced, fault>>

Visits(t, f) ==
  /\ f.pc = "walk" /\ f.op # "create" /\ f.temp \in Pools /\ Live(f.temp)
  /\ Grown(stack[t], stack'[t], Enter(f.op, f.temp), [f EXCEPT !.temp = brother[f.temp]])
  /\ UNCHANGED <<state, owner, mutex, parent, child, brother, holder, depth, done, mixed, raced, fault>>

Cleared(t, f) ==
  /\ f.pc = "walk" /\ f.temp = NULL /\ f.op = "clear"
  /\ Live(mutex[f.pool]) /\ Unlock(t, mutex[f.pool])
  /\ Popped(stack[t], stack'[t])
  /\ done' = [done EXCEPT ![t] = @ \cup {f.pool}]
  /\ UNCHANGED <<state, owner, mutex, parent, child, brother, mixed, raced, fault>>

Destroyed(t, f) ==
  /\ f.pc = "walk" /\ f.temp = NULL /\ f.op = "destroy"
  /\ state' = [state EXCEPT ![f.pool] = "freed"]
  /\ Popped(stack[t], stack'[t])
  /\ UNCHANGED <<owner, mutex, parent, child, brother, holder, depth, done, mixed, raced, fault>>

(* Thread t goes on from its frame f.                                      *)
Goes(t, f) ==
  \/ LinksChild(t, f) \/ LinksBrother(t, f) \/ Refused(t, f) \/ Begins(t, f)
  \/ Visits(t, f) \/ Cleared(t, f) \/ Destroyed(t, f)

(* Thread t takes a step.                                                  *)
Takes(t) ==
  /\ Only(t) /\ stack' \in [Threads -> Seq(Frame)] /\ system' = system
  /\ \/ \E p \in Pools : CreatesRoot(t, p)
     \/ \E par, p \in Pools : CreatesChild(t, par, p)
     \/ \E op \in {"clear", "destroy"}, p \in Pools : Calls(t, op, p)
     \/ \E f \in Frame : stack[t] # <<>> /\ f = stack[t][1] /\ fault = NULL /\ Goes(t, f)

LEMMA LiveUsed ==
  ASSUME NEW p, Live(p)
  PROVE  Used(p) /\ p # NULL
BY DEF Live, Used

(* The stack after a step.                                                 *)
LEMMA ReturnStack ==
  ASSUME TypeOK, NEW t \in Threads, stack[t] # <<>>, Return(t)
  PROVE  Only(t) /\ Popped(stack[t], stack'[t]) /\ stack' \in [Threads -> Seq(Frame)]
<1>1. stack \in [Threads -> Seq(Frame)] /\ stack[t] \in Seq(Frame)
  BY Types
<1>2. Tail(stack[t]) \in Seq(Frame) /\ Popped(stack[t], Tail(stack[t]))
  BY <1>1, StackTop
<1>3. stack'[t] = Tail(stack[t]) /\ Only(t)
  BY <1>1 DEF Return, Only
<1>4. stack' \in [Threads -> Seq(Frame)]
  BY <1>1, <1>2 DEF Return
<1> QED BY <1>2, <1>3, <1>4

LEMMA GotoStack ==
  ASSUME TypeOK, NEW t \in Threads, stack[t] # <<>>, NEW f \in Frame, Goto(t, f)
  PROVE  Only(t) /\ Replaced(stack[t], stack'[t], f) /\ stack' \in [Threads -> Seq(Frame)]
<1>1. stack \in [Threads -> Seq(Frame)] /\ stack[t] \in Seq(Frame)
  BY Types
<1>2. PICK v : v = <<f>> \o Tail(stack[t])
  OBVIOUS
<1>3. v \in Seq(Frame) /\ Replaced(stack[t], v, f)
  BY <1>1, <1>2, StackReplace
<1>4. stack' = [stack EXCEPT ![t] = v]
  BY <1>2 DEF Goto
<1>5. stack'[t] = v /\ Only(t) /\ stack' \in [Threads -> Seq(Frame)]
  BY <1>1, <1>3, <1>4 DEF Only
<1> QED BY <1>3, <1>5

LEMMA CallStack ==
  ASSUME TypeOK, NEW t \in Threads, stack[t] # <<>>, NEW e \in Frame, NEW f \in Frame,
         stack' = [stack EXCEPT ![t] = <<e, f>> \o Tail(@)]
  PROVE  Only(t) /\ Grown(stack[t], stack'[t], e, f) /\ stack' \in [Threads -> Seq(Frame)]
<1>1. stack \in [Threads -> Seq(Frame)] /\ stack[t] \in Seq(Frame)
  BY Types
<1>2. PICK v : v = <<e, f>> \o Tail(stack[t])
  OBVIOUS
<1>3. v \in Seq(Frame) /\ Grown(stack[t], v, e, f)
  BY <1>1, <1>2, StackGrow
<1>4. stack' = [stack EXCEPT ![t] = v]
  BY <1>2
<1>5. stack'[t] = v /\ Only(t) /\ stack' \in [Threads -> Seq(Frame)]
  BY <1>1, <1>3, <1>4 DEF Only
<1> QED BY <1>3, <1>5

LEMMA StartStack ==
  ASSUME TypeOK, NEW t \in Threads, NEW f \in Frame, stack' = [stack EXCEPT ![t] = <<f>>]
  PROVE  Only(t) /\ stack'[t] = <<f>> /\ stack' \in [Threads -> Seq(Frame)]
<1>1. stack \in [Threads -> Seq(Frame)]
  BY Types
<1>2. <<f>> \in Seq(Frame)
  OBVIOUS
<1> QED BY <1>1, <1>2 DEF Only

LEMMA CreateTakes ==
  ASSUME TypeOK, ShapeInv, StacksInv, NEW t \in Threads, NEW par \in Pools \cup {NULL},
         spr_pool_create1(t, par)
  PROVE  Takes(t)
<1>1. PICK p \in Pools :
        /\ fault = NULL /\ stack[t] = <<>>
        /\ (par = NULL \/ Live(par))
        /\ state[p] = "unused" /\ \A q \in 1..(p - 1) : state[q] # "unused"
        /\ state' = [state EXCEPT ![p] = "live"]
        /\ owner' = [owner EXCEPT ![p] = t]
        /\ mutex' = [mutex EXCEPT ![p] = IF par = NULL THEN p ELSE mutex[par]]
        /\ parent' = [parent EXCEPT ![p] = par]
        /\ stack' = IF par = NULL THEN stack
                    ELSE [stack EXCEPT ![t] = <<NewFrame(p, child[par])>>]
        /\ raced' = IF Linking(par) THEN raced \cup {par} ELSE raced
        /\ UNCHANGED <<system, child, brother, locks, done, mixed, fault>>
  BY DEF spr_pool_create1, NewFrame, Linking
<1>2. Creates(t, par, p)
  BY <1>1 DEF Creates, Used, locks
<1>3. CASE par = NULL
  <2>1. ~ Linking(NULL)
    <3>1. SUFFICES ASSUME NEW u \in Threads, stack[u] # <<>>, Top(u).pc = "child",
                          parent[Top(u).pool] = NULL
                   PROVE  FALSE
      BY DEF Linking
    <3>2. FrameOK(u, Top(u)) /\ Top(u).op \in {"create", "clear", "destroy"}
      BY <3>1, TopFrame
    <3> QED BY <3>1, <3>2 DEF FrameOK
  <2>2. CreatesRoot(t, p)
    BY <1>1, <1>2, <1>3, <2>1 DEF CreatesRoot
  <2>3. Only(t) /\ stack' \in [Threads -> Seq(Frame)] /\ system' = system
    BY <1>1, <1>3, Types DEF Only
  <2> QED BY <2>2, <2>3 DEF Takes
<1>4. CASE par # NULL
  <2>1. par \in Pools /\ Live(par) /\ child[par] \in Pools \cup {NULL}
    BY <1>1, <1>4, Types
  <2>2. NewFrame(p, child[par]) \in Frame
    BY <2>1 DEF NewFrame, Frame
  <2>3. stack' = [stack EXCEPT ![t] = <<NewFrame(p, child[par])>>]
    BY <1>1, <1>4
  <2>4. Only(t) /\ stack'[t] = <<NewFrame(p, child[par])>> /\ stack' \in [Threads -> Seq(Frame)]
    BY <2>2, <2>3, StartStack
  <2>5. CreatesChild(t, par, p)
    BY <1>1, <1>2, <1>4, <2>1, <2>4 DEF CreatesChild
  <2> QED BY <1>1, <2>1, <2>4, <2>5 DEF Takes
<1> QED BY <1>3, <1>4

LEMMA CallTakes ==
  ASSUME TypeOK, NEW t \in Threads, NEW op \in {"clear", "destroy"}, NEW p \in Pools,
         Call(t, op, p)
  PROVE  Takes(t)
<1>1. Enter(op, p) \in Frame
  BY DEF Enter, Frame
<1>2. Only(t) /\ stack'[t] = <<Enter(op, p)>> /\ stack' \in [Threads -> Seq(Frame)]
  BY <1>1, StartStack DEF Call
<1>3. Calls(t, op, p) /\ system' = system
  BY <1>2 DEF Call, Calls, fields, locks, Root
<1> QED BY <1>2, <1>3 DEF Takes

LEMMA StepTakes ==
  ASSUME TypeOK, ShapeInv, StacksInv, NEW t \in Threads, Step(t)
  PROVE  Takes(t) \/ Idle
<1>1. fault = NULL /\ stack[t] # <<>>
  BY DEF Step, add_child, add_brother, enter, walk, clear_finish, destroy_finish, At
<1>2. PICK f : f = stack[t][1]
  OBVIOUS
<1>3. /\ Top(t) = f /\ f \in Frame /\ FrameOK(t, f) /\ f.pool \in Pools
      /\ f.temp \in Pools \cup {NULL} /\ f.op \in {"create", "clear", "destroy"}
  BY <1>1, <1>2, TopFrame
<1>4. mutex[f.pool] \in Pools /\ parent[f.pool] \in Pools \cup {NULL}
      /\ child[f.pool] \in Pools \cup {NULL} /\ NULL \notin Pools
  BY <1>3, Types, PoolFacts DEF ShapeInv, FrameOK
<1>5. ASSUME NEW p \in Pools \cup {NULL}, Touches(p) PROVE Idle
  BY <1>5 DEF Touches, Idle, fields, locks, ghosts
<1>6. ASSUME Only(t) /\ stack' \in [Threads -> Seq(Frame)] /\ Goes(t, f) PROVE Takes(t)
  <2>1. system' = system
    BY DEF Step, add_child, add_brother, enter, walk, clear_finish, destroy_finish, Touches, fields
  <2> QED BY <1>1, <1>2, <1>3, <1>6, <2>1 DEF Takes
<1>7. CASE add_child(t)
  <2>1. f.pc = "child" /\ f.op = "create" /\ parent[f.pool] \in Pools
    BY <1>3, <1>4, <1>7 DEF add_child, At, FrameOK
  <2>2. CASE Live(parent[f.pool])
    <3>1. Goto(t, [f EXCEPT !.pc = "brother"]) /\ child' = [child EXCEPT ![parent[f.pool]] = f.pool]
          /\ UNCHANGED <<system, state, owner, mutex, parent, brother, locks, ghosts, fault>>
      BY <1>3, <1>7, <2>2 DEF add_child
    <3>2. PICK g : g = [f EXCEPT !.pc = "brother"]
      OBVIOUS
    <3>3. g \in Frame
      BY <1>3, <3>2 DEF Frame
    <3>4. Only(t) /\ Replaced(stack[t], stack'[t], g) /\ stack' \in [Threads -> Seq(Frame)]
      BY <1>1, <3>1, <3>2, <3>3, GotoStack
    <3>5. LinksChild(t, f)
      BY <2>1, <2>2, <3>1, <3>2, <3>4 DEF LinksChild, locks, ghosts
    <3> QED BY <1>6, <3>4, <3>5 DEF Goes
  <2>3. CASE ~ Live(parent[f.pool])
    <3>1. Touches(parent[f.pool])
      BY <1>3, <1>7, <2>3 DEF add_child
    <3> QED BY <1>4, <1>5, <3>1
  <2> QED BY <2>2, <2>3
<1>8. CASE add_brother(t)
  <2>1. f.pc = "brother" /\ f.op = "create"
    BY <1>3, <1>8 DEF add_brother, At, FrameOK
  <2>2. Only(t) /\ Popped(stack[t], stack'[t]) /\ stack' \in [Threads -> Seq(Frame)]
    BY <1>1, <1>8, ReturnStack DEF add_brother
  <2>3. LinksBrother(t, f)
    BY <1>3, <1>8, <2>1, <2>2 DEF add_brother, LinksBrother, locks, ghosts
  <2> QED BY <1>6, <2>2, <2>3 DEF Goes
<1>9. CASE enter(t)
  <2>1. f.pc = "enter" /\ f.op # "create"
    BY <1>3, <1>9 DEF enter, At, FrameOK
  <2>2. CASE ~ Live(f.pool) /\ Touches(f.pool)
    BY <1>3, <1>5, <2>2
  <2>3. CASE Touches(mutex[f.pool])
    BY <1>4, <1>5, <2>3
  <2>4. CASE Live(f.pool) /\ ~ Owned(t, f.pool) /\ Return(t) /\ UNCHANGED <<fields, locks, ghosts, fault>>
    <3>1. Only(t) /\ Popped(stack[t], stack'[t]) /\ stack' \in [Threads -> Seq(Frame)]
      BY <1>1, <2>4, ReturnStack
    <3>2. Refused(t, f)
      BY <2>1, <2>4, <3>1 DEF Refused, fields, locks, ghosts
    <3> QED BY <1>6, <3>1, <3>2 DEF Goes
  <2>5. CASE /\ Live(f.pool) /\ Owned(t, f.pool)
             /\ IF f.op = "clear" THEN Live(mutex[f.pool]) /\ Lock(t, mutex[f.pool]) ELSE UNCHANGED locks
             /\ Goto(t, [f EXCEPT !.pc = "walk", !.temp = child[f.pool]])
             /\ UNCHANGED <<fields, ghosts, fault>>
    <3>1. PICK g : g = [f EXCEPT !.pc = "walk", !.temp = child[f.pool]]
      OBVIOUS
    <3>2. g \in Frame
      BY <1>3, <1>4, <3>1 DEF Frame
    <3>3. Only(t) /\ Replaced(stack[t], stack'[t], g) /\ stack' \in [Threads -> Seq(Frame)]
      BY <1>1, <2>5, <3>1, <3>2, GotoStack
    <3>4. IF f.op = "clear" THEN Live(mutex[f.pool]) /\ Lock(t, mutex[f.pool])
          ELSE UNCHANGED <<holder, depth>>
      BY <2>5 DEF locks
    <3>5. UNCHANGED <<state, owner, mutex, parent, child, brother, done, mixed, raced, fault>>
      BY <2>5 DEF fields, ghosts
    <3>6. Begins(t, f)
      BY <2>1, <2>5, <3>1, <3>3, <3>4, <3>5 DEF Begins
    <3> QED BY <1>6, <3>3, <3>6 DEF Goes
  <2> QED BY <1>3, <1>9, <2>2, <2>3, <2>4, <2>5 DEF enter, Root
<1>10. CASE walk(t)
  <2>1. f.pc = "walk" /\ f.op # "create" /\ f.temp \in Pools
    BY <1>3, <1>10 DEF walk, At, FrameOK
  <2>2. CASE Live(f.temp)
    <3>1. /\ stack' = [stack EXCEPT
               ![t] = <<Enter(f.op, f.temp), [f EXCEPT !.temp = brother[f.temp]]>> \o Tail(@)]
          /\ UNCHANGED <<fields, locks, ghosts, fault>>
      BY <1>3, <1>10, <2>2 DEF walk
    <3>2. PICK e, g : e = Enter(f.op, f.temp) /\ g = [f EXCEPT !.temp = brother[f.temp]]
      OBVIOUS
    <3>3. e \in Frame
      BY <1>3, <2>1, <3>2 DEF Frame, Enter
    <3>4. g \in Frame
      <4>1. brother[f.temp] \in Pools \cup {NULL}
        BY <2>1, Types
      <4> QED BY <1>3, <3>2, <4>1 DEF Frame
    <3>5. Only(t) /\ Grown(stack[t], stack'[t], e, g) /\ stack' \in [Threads -> Seq(Frame)]
      BY <1>1, <3>1, <3>2, <3>3, <3>4, CallStack
    <3>6. Visits(t, f)
      BY <2>1, <2>2, <3>1, <3>2, <3>5 DEF Visits, fields, locks, ghosts
    <3> QED BY <1>6, <3>5, <3>6 DEF Goes
  <2>3. CASE ~ Live(f.temp)
    <3>1. Touches(f.temp)
      BY <1>3, <1>10, <2>3 DEF walk
    <3> QED BY <1>3, <1>5, <3>1
  <2> QED BY <2>2, <2>3
<1>11. CASE clear_finish(t)
  <2>1. f.pc = "walk" /\ f.temp = NULL /\ f.op = "clear"
    BY <1>3, <1>11 DEF clear_finish, At
  <2>2. CASE Live(mutex[f.pool])
    <3>1. /\ Unlock(t, mutex[f.pool]) /\ Return(t)
          /\ done' = [done EXCEPT ![t] = @ \cup {f.pool}]
          /\ UNCHANGED <<fields, mixed, raced, fault>>
      BY <1>3, <1>11, <2>2 DEF clear_finish, Root
    <3>2. Only(t) /\ Popped(stack[t], stack'[t]) /\ stack' \in [Threads -> Seq(Frame)]
      BY <1>1, <3>1, ReturnStack
    <3>3. Cleared(t, f)
      BY <2>1, <2>2, <3>1, <3>2 DEF Cleared, fields
    <3> QED BY <1>6, <3>2, <3>3 DEF Goes
  <2>3. CASE ~ Live(mutex[f.pool])
    <3>1. Touches(mutex[f.pool])
      BY <1>3, <1>11, <2>3 DEF clear_finish, Root
    <3> QED BY <1>4, <1>5, <3>1
  <2> QED BY <2>2, <2>3
<1>12. CASE destroy_finish(t)
  <2>1. f.pc = "walk" /\ f.temp = NULL /\ f.op = "destroy"
    BY <1>3, <1>12 DEF destroy_finish, At
  <2>2. Only(t) /\ Popped(stack[t], stack'[t]) /\ stack' \in [Threads -> Seq(Frame)]
    BY <1>1, <1>12, ReturnStack DEF destroy_finish
  <2>3. Destroyed(t, f)
    BY <1>3, <1>12, <2>1, <2>2 DEF destroy_finish, Destroyed, locks, ghosts
  <2> QED BY <1>6, <2>2, <2>3 DEF Goes
<1> QED BY <1>7, <1>8, <1>9, <1>10, <1>11, <1>12 DEF Step

LEMMA NextTakes ==
  ASSUME TypeOK, ShapeInv, StacksInv, [Next]_vars
  PROVE  Idle \/ \E t \in Threads : Takes(t)
<1>1. CASE UNCHANGED vars
  <2>1. fault \in Pools \cup {NULL}
    BY Types
  <2> QED BY <1>1, <2>1 DEF vars, fields, locks, ghosts, Idle
<1>2. CASE Next
  <2>1. PICK t \in Threads :
          \/ \E par \in Pools \cup {NULL} : spr_pool_create1(t, par)
          \/ \E op \in {"clear", "destroy"}, p \in Pools : Call(t, op, p)
          \/ Step(t)
    BY <1>2 DEF Next
  <2> QED BY <2>1, CreateTakes, CallTakes, StepTakes
<1> QED BY <1>1, <1>2


-----------------------------------------------------------------------------
(* Every step keeps the base of the invariants.                            *)

LEMMA TakesKeeps ==
  ASSUME TypeOK, NEW t \in Threads, Takes(t)
  PROVE  Keeps
<1> SUFFICES ASSUME system' = system PROVE Keeps
  BY DEF Takes
<1>1. /\ state \in [Pools -> {"unused", "live", "freed"}] /\ owner \in [Pools -> Threads]
      /\ mutex \in [Pools -> Pools \cup {NULL}] /\ parent \in [Pools -> Pools \cup {NULL}]
  BY Types
<1>2. ASSUME NEW p \in Pools, CreatesRoot(t, p) PROVE Keeps
  BY <1>1, <1>2 DEF CreatesRoot, Creates, Keeps, Used
<1>3. ASSUME NEW par \in Pools, NEW p \in Pools, CreatesChild(t, par, p) PROVE Keeps
  BY <1>1, <1>3 DEF CreatesChild, Creates, Keeps, Used
<1>4. ASSUME NEW op \in {"clear", "destroy"}, NEW p \in Pools, Calls(t, op, p) PROVE Keeps
  BY <1>4 DEF Calls, Keeps, Used
<1>5. ASSUME NEW f \in Frame, Goes(t, f) PROVE Keeps
  <2>1. f.pool \in Pools
    BY DEF Frame
  <2>2. CASE Destroyed(t, f)
    BY <1>1, <2>1, <2>2 DEF Destroyed, Keeps, Used
  <2>3. CASE ~ Destroyed(t, f)
    <3>1. UNCHANGED <<state, owner, mutex, parent>>
      BY <1>5, <2>3 DEF Goes, LinksChild, LinksBrother, Refused, Begins, Visits, Cleared
    <3> QED BY <3>1 DEF Keeps, Used
  <2> QED BY <2>2, <2>3
<1> QED BY <1>2, <1>3, <1>4, <1>5 DEF Takes

(* What a step of the frame f does not assign.                             *)
LEMMA GoesKeeps ==
  ASSUME NEW t, NEW f \in Frame, Goes(t, f)
  PROVE  /\ UNCHANGED <<owner, mutex, parent, mixed, raced, fault>>
         /\ ~ LinksChild(t, f) => UNCHANGED child
         /\ ~ LinksBrother(t, f) => UNCHANGED brother
         /\ ~ Destroyed(t, f) => UNCHANGED state
         /\ ~ Cleared(t, f) => UNCHANGED done
         /\ ~ (f.op = "clear" /\ (Begins(t, f) \/ Cleared(t, f))) => UNCHANGED <<holder, depth>>
<1>1. UNCHANGED <<owner, mutex, parent, mixed, raced, fault>>
  BY DEF Goes, LinksChild, LinksBrother, Refused, Begins, Visits, Cleared, Destroyed
<1>2. ~ LinksChild(t, f) => UNCHANGED child
  BY DEF Goes, LinksBrother, Refused, Begins, Visits, Cleared, Destroyed
<1>3. ~ LinksBrother(t, f) => UNCHANGED brother
  BY DEF Goes, LinksChild, Refused, Begins, Visits, Cleared, Destroyed
<1>4. ~ Destroyed(t, f) => UNCHANGED state
  BY DEF Goes, LinksChild, LinksBrother, Refused, Begins, Visits, Cleared
<1>5. ~ Cleared(t, f) => UNCHANGED done
  BY DEF Goes, LinksChild, LinksBrother, Refused, Begins, Visits, Destroyed
<1>6. ~ (f.op = "clear" /\ (Begins(t, f) \/ Cleared(t, f))) => UNCHANGED <<holder, depth>>
  BY DEF Goes, LinksChild, LinksBrother, Refused, Begins, Visits, Cleared, Destroyed
<1> QED BY <1>1, <1>2, <1>3, <1>4, <1>5, <1>6

LEMMA TypeKept ==
  ASSUME TypeOK, ShapeInv, StacksInv, MutexInv, NEW t \in Threads, Takes(t)
  PROVE  TypeOK'
<1>1. /\ system' \in {"posix", "win32"}
      /\ state \in [Pools -> {"unused", "live", "freed"}] /\ owner \in [Pools -> Threads]
      /\ mutex \in [Pools -> Pools \cup {NULL}] /\ parent \in [Pools -> Pools \cup {NULL}]
      /\ child \in [Pools -> Pools \cup {NULL}] /\ brother \in [Pools -> Pools \cup {NULL}]
      /\ holder \in [Pools -> SUBSET Threads] /\ depth \in [Pools -> Nat]
      /\ stack \in [Threads -> Seq(Frame)] /\ done \in [Threads -> SUBSET Pools]
      /\ fault \in Pools \cup {NULL} /\ mixed \subseteq Pools /\ raced \subseteq Pools
  BY Types DEF Takes
<1>2. stack' \in [Threads -> Seq(Frame)]
  BY DEF Takes
<1> USE DEF TypeOK
<1>3. ASSUME NEW p \in Pools, NEW par \in Pools \cup {NULL}, Creates(t, par, p),
             NEW m \in Pools \cup {NULL}, mutex' = [mutex EXCEPT ![p] = m], raced' \subseteq Pools
      PROVE  TypeOK'
  <2>1. state' \in [Pools -> {"unused", "live", "freed"}] /\ owner' \in [Pools -> Threads]
    BY <1>1, <1>3 DEF Creates
  <2>2. mutex' \in [Pools -> Pools \cup {NULL}] /\ parent' \in [Pools -> Pools \cup {NULL}]
    BY <1>1, <1>3 DEF Creates
  <2>3. UNCHANGED <<child, brother, holder, depth, done, mixed, fault>>
    BY <1>3 DEF Creates
  <2> QED BY <1>1, <1>2, <1>3, <2>1, <2>2, <2>3
<1>4. ASSUME NEW p \in Pools, CreatesRoot(t, p) PROVE TypeOK'
  <2>1. mutex' = [mutex EXCEPT ![p] = p] /\ raced' = raced /\ Creates(t, NULL, p)
    BY <1>4 DEF CreatesRoot
  <2> QED BY <1>1, <1>3, <2>1
<1>5. ASSUME NEW par \in Pools, NEW p \in Pools, CreatesChild(t, par, p) PROVE TypeOK'
  <2>1. /\ mutex' = [mutex EXCEPT ![p] = mutex[par]] /\ Creates(t, par, p)
        /\ raced' = IF Linking(par) THEN raced \cup {par} ELSE raced
    BY <1>5 DEF CreatesChild
  <2>2. raced' \subseteq Pools /\ mutex[par] \in Pools \cup {NULL}
    BY <1>1, <2>1
  <2> QED BY <1>3, <2>1, <2>2
<1>6. ASSUME NEW op \in {"clear", "destroy"}, NEW p \in Pools, Calls(t, op, p) PROVE TypeOK'
  <2>1. UNCHANGED <<state, owner, mutex, parent, child, brother, holder, depth, raced, fault>>
    BY <1>6 DEF Calls
  <2>2. done' \in [Threads -> SUBSET Pools]
    BY <1>1, <1>6 DEF Calls
  <2>3. mutex[p] \in Pools
    BY <1>6, LiveUsed DEF Calls, ShapeInv
  <2>4. mixed' \subseteq Pools
    BY <1>1, <1>6, <2>3 DEF Calls
  <2> QED BY <1>1, <1>2, <2>1, <2>2, <2>4
<1>7. ASSUME NEW f \in Frame, stack[t] # <<>>, f = stack[t][1], Goes(t, f) PROVE TypeOK'
  <2>1. f.pool \in Pools /\ f.temp \in Pools \cup {NULL} /\ FrameOK(t, f)
    BY <1>7, TopFrame
  <2>2. UNCHANGED <<owner, mutex, parent, mixed, raced, fault>>
    BY <1>7, GoesKeeps
  <2>3. child' \in [Pools -> Pools \cup {NULL}]
    <3>1. CASE LinksChild(t, f)
      BY <1>1, <2>1, <3>1 DEF LinksChild
    <3> QED BY <1>1, <1>7, <3>1, GoesKeeps
  <2>4. brother' \in [Pools -> Pools \cup {NULL}]
    <3>1. CASE LinksBrother(t, f)
      BY <1>1, <2>1, <3>1 DEF LinksBrother
    <3> QED BY <1>1, <1>7, <3>1, GoesKeeps
  <2>5. state' \in [Pools -> {"unused", "live", "freed"}]
    <3>1. CASE Destroyed(t, f)
      BY <1>1, <2>1, <3>1 DEF Destroyed
    <3> QED BY <1>1, <1>7, <3>1, GoesKeeps
  <2>6. done' \in [Threads -> SUBSET Pools]
    <3>1. CASE Cleared(t, f)
      BY <1>1, <2>1, <3>1 DEF Cleared
    <3> QED BY <1>1, <1>7, <3>1, GoesKeeps
  <2>7. mutex[f.pool] \in Pools
    BY <2>1 DEF FrameOK, ShapeInv
  <2>8. holder' \in [Pools -> SUBSET Threads] /\ depth' \in [Pools -> Nat]
    <3>1. CASE f.op = "clear" /\ Begins(t, f)
      <4>1. Lock(t, mutex[f.pool])
        BY <3>1 DEF Begins
      <4> QED BY <1>1, <2>7, <4>1 DEF Lock
    <3>2. CASE f.op = "clear" /\ Cleared(t, f)
      <4>1. Unlock(t, mutex[f.pool])
        BY <3>2 DEF Cleared
      <4>2. depth[mutex[f.pool]] # 0
        <5>1. stack[t] \in Seq(Frame)
          BY <1>1
        <5>2. Locking(stack[t][1], mutex, mutex[f.pool])
          BY <1>7, <3>2 DEF Locking, Cleared
        <5>3. 1 \in Held(stack[t], mutex, mutex[f.pool])
          BY <1>7, <5>1, <5>2, StackTop DEF Held
        <5>4. Cardinality(Held(stack[t], mutex, mutex[f.pool])) # 0
          BY <5>1, <5>3, HeldFinite, FS_EmptySet
        <5> QED BY <2>7, <5>4 DEF MutexInv
      <4>3. holder' \in [Pools -> SUBSET Threads]
        BY <1>1, <2>7, <4>1 DEF Unlock
      <4>4. depth' \in [Pools -> Nat]
        <5>1. depth[mutex[f.pool]] - 1 \in Nat
          BY <1>1, <2>7, <4>2
        <5> QED BY <1>1, <2>7, <4>1, <5>1 DEF Unlock
      <4> QED BY <4>3, <4>4
    <3> QED BY <1>1, <1>7, <3>1, <3>2, GoesKeeps
  <2> QED BY <1>1, <1>2, <2>2, <2>3, <2>4, <2>5, <2>6, <2>8
<1> QED BY <1>4, <1>5, <1>6, <1>7 DEF Takes

LEMMA CreateShape ==
  ASSUME TypeOK, ShapeInv, NEW t \in Threads, NEW p \in Pools, NEW par \in Pools \cup {NULL},
         Creates(t, par, p), NEW m, mutex' = [mutex EXCEPT ![p] = m],
         par = NULL => m = p, par # NULL => Live(par) /\ m = mutex[par],
         raced' \subseteq raced \cup {par}
  PROVE  ShapeInv'
<1>1. /\ state \in [Pools -> {"unused", "live", "freed"}] /\ owner \in [Pools -> Threads]
      /\ mutex \in [Pools -> Pools \cup {NULL}] /\ parent \in [Pools -> Pools \cup {NULL}]
      /\ child \in [Pools -> Pools \cup {NULL}] /\ brother \in [Pools -> Pools \cup {NULL}]
      /\ raced \subseteq Pools
  BY Types
<1>2. /\ MaxPools \in Nat /\ Pools = 1..MaxPools /\ NULL = 0 /\ NULL \notin Pools
  BY PoolFacts
<1>3. ~ Used(p) /\ \A q \in 1..(p - 1) : Used(q)
  BY DEF Creates
<1>4. \A q \in Pools : q # p => /\ Used(q)' = Used(q) /\ parent'[q] = parent[q] /\ mutex'[q] = mutex[q]
  BY <1>1 DEF Creates, Used
<1>5. Used(p)' /\ parent'[p] = par /\ mutex'[p] = m
  BY <1>1 DEF Creates, Used
<1>6. child' = child /\ brother' = brother
  BY DEF Creates
<1>7. \A q \in Pools : Used(q) => Used(q)'
  BY <1>4, <1>5
<1>8. par # NULL => par \in Pools /\ Used(par) /\ par # p /\ par < p
  <2>1. SUFFICES ASSUME par # NULL PROVE par \in Pools /\ Used(par) /\ par # p /\ par < p
    OBVIOUS
  <2>2. par \in Pools /\ Used(par)
    BY <2>1, LiveUsed
  <2>3. ~ (p <= par)
    <3>1. SUFFICES ASSUME p <= par PROVE FALSE
      OBVIOUS
    <3>2. p \in 1..par
      BY <1>2, <2>2, <3>1
    <3> QED BY <1>3, <2>2, <3>2 DEF ShapeInv
  <2> QED BY <1>2, <2>2, <2>3
<1>9. \A q \in 1..(p - 1) : q \in Pools
  BY <1>2
<1>10. parent[p] = NULL /\ child[p] = NULL /\ brother[p] = NULL
  <2>1. parent[p] = NULL
    BY <1>3 DEF ShapeInv
  <2>2. brother[p] = NULL
    BY <2>1 DEF ShapeInv
  <2>3. child[p] = NULL
    <3>1. SUFFICES ASSUME child[p] # NULL PROVE FALSE
      OBVIOUS
    <3>2. child[p] \in Pools /\ parent[child[p]] = p
      BY <1>1, <3>1 DEF ShapeInv
    <3> QED BY <1>2, <1>3, <3>2 DEF ShapeInv
  <2> QED BY <2>1, <2>2, <2>3
<1>11. SUFFICES ASSUME NEW q \in Pools
       PROVE  /\ Used(q)' => /\ \A x \in 1..q : Used(x)'
                             /\ mutex'[q] \in Pools /\ Used(mutex[q])' /\ mutex'[mutex'[q]] = mutex'[q]
                             /\ parent'[q] = NULL => mutex'[q] = q
              /\ ~ Used(q)' => parent'[q] = NULL
              /\ parent'[q] # NULL => Used(parent[q])' /\ parent'[q] < q /\ mutex'[parent'[q]] = mutex'[q]
              /\ child'[q] # NULL => parent'[child'[q]] = q
              /\ brother'[q] # NULL => parent'[q] # NULL /\ parent'[brother'[q]] = parent'[q]
              /\ q \in raced' => Used(q)'
  BY DEF ShapeInv
<1>12. q \in raced' => Used(q)'
  <2>1. q \in raced => Used(q)
    BY DEF ShapeInv
  <2>2. q = par => Used(q)
    BY <1>2, <1>8
  <2> QED BY <1>7, <2>1, <2>2
<1>13. CASE q = p
  <2>1. \A x \in 1..q : Used(x)'
    <3>1. \A x \in 1..q : x = p \/ x \in 1..(p - 1)
      BY <1>2, <1>13
    <3> QED BY <1>3, <1>5, <1>7, <1>9, <3>1
  <2>2. CASE par = NULL
    <3>1. mutex'[q] = q
      BY <1>5, <1>13, <2>2
    <3>2. Used(mutex[q])'
      <4>1. Used(mutex[q])' <=> state'[mutex'[q]] # "unused"
        BY DEF Used
      <4>2. Used(q)' <=> state'[q] # "unused"
        BY DEF Used
      <4> QED BY <1>5, <1>13, <3>1, <4>1, <4>2
    <3> QED BY <1>5, <1>6, <1>10, <1>12, <1>13, <2>1, <2>2, <3>1, <3>2
  <2>3. CASE par # NULL
    <3>1. mutex[par] \in Pools /\ Used(mutex[par]) /\ mutex[mutex[par]] = mutex[par] /\ mutex[par] # p
      BY <1>3, <1>8, <2>3 DEF ShapeInv
    <3>2. mutex'[q] = mutex[par] /\ mutex'[mutex'[q]] = mutex'[q] /\ mutex'[par] = mutex[par] /\ parent'[q] = par
      BY <1>4, <1>5, <1>8, <1>13, <2>3, <3>1
    <3>3. Used(mutex[q])'
      <4>1. Used(mutex[q])' <=> state'[mutex'[q]] # "unused"
        BY DEF Used
      <4>2. state'[mutex[par]] # "unused"
        BY <1>7, <3>1 DEF Used
      <4> QED BY <3>2, <4>1, <4>2
    <3>4. Used(parent[q])'
      <4>1. Used(parent[q])' <=> state'[parent'[q]] # "unused"
        BY DEF Used
      <4>2. state'[par] # "unused"
        BY <1>7, <1>8, <2>3 DEF Used
      <4> QED BY <3>2, <4>1, <4>2
    <3> QED BY <1>5, <1>6, <1>8, <1>10, <1>12, <1>13, <2>1, <2>3, <3>1, <3>2, <3>3, <3>4
  <2> QED BY <2>2, <2>3
<1>14. CASE q # p
  <2>1. Used(q)' = Used(q) /\ parent'[q] = parent[q] /\ mutex'[q] = mutex[q]
    BY <1>4, <1>14
  <2>2. Used(q) => \A x \in 1..q : Used(x)'
    <3>1. \A x \in 1..q : x \in Pools
      BY <1>2
    <3>2. Used(q) => \A x \in 1..q : Used(x)
      BY DEF ShapeInv
    <3> QED BY <1>7, <3>1, <3>2
  <2>3. Used(q) => mutex'[q] \in Pools /\ Used(mutex[q])' /\ mutex'[mutex'[q]] = mutex'[q]
    <3>1. SUFFICES ASSUME Used(q) PROVE mutex'[q] \in Pools /\ Used(mutex[q])' /\ mutex'[mutex'[q]] = mutex'[q]
      OBVIOUS
    <3>2. mutex[q] \in Pools /\ Used(mutex[q]) /\ mutex[mutex[q]] = mutex[q]
      BY <3>1 DEF ShapeInv
    <3>3. mutex[q] # p
      BY <1>3, <3>2
    <3>4. mutex'[mutex[q]] = mutex[mutex[q]]
      BY <1>4, <3>2, <3>3
    <3>5. state'[mutex[q]] # "unused"
      BY <1>7, <3>2 DEF Used
    <3>6. Used(mutex[q])' <=> state'[mutex'[q]] # "unused"
      BY DEF Used
    <3> QED BY <2>1, <3>2, <3>4, <3>5, <3>6
  <2>4. Used(q) /\ parent'[q] = NULL => mutex'[q] = q
    BY <2>1 DEF ShapeInv
  <2>5. ~ Used(q)' => parent'[q] = NULL
    BY <2>1 DEF ShapeInv
  <2>6. parent'[q] # NULL => Used(parent[q])' /\ parent'[q] < q /\ mutex'[parent'[q]] = mutex'[q]
    <3>1. SUFFICES ASSUME parent'[q] # NULL
                   PROVE  Used(parent[q])' /\ parent'[q] < q /\ mutex'[parent'[q]] = mutex'[q]
      OBVIOUS
    <3>2. parent[q] \in Pools /\ Used(parent[q]) /\ parent[q] < q /\ mutex[parent[q]] = mutex[q]
      BY <1>1, <2>1, <3>1 DEF ShapeInv
    <3>3. parent[q] # p
      BY <1>3, <3>2
    <3>4. mutex'[parent[q]] = mutex[parent[q]]
      BY <1>4, <3>2, <3>3
    <3>5. state'[parent[q]] # "unused"
      BY <1>7, <3>2 DEF Used
    <3>6. Used(parent[q])' <=> state'[parent'[q]] # "unused"
      BY DEF Used
    <3> QED BY <2>1, <3>2, <3>4, <3>5, <3>6
  <2>7. child'[q] # NULL => parent'[child'[q]] = q
    <3>1. SUFFICES ASSUME child[q] # NULL PROVE parent'[child[q]] = q
      BY <1>6
    <3>2. child[q] \in Pools /\ parent[child[q]] = q
      BY <1>1, <3>1 DEF ShapeInv
    <3>3. child[q] # p
      BY <1>2, <1>10, <3>2
    <3> QED BY <1>4, <3>2, <3>3
  <2>8. brother'[q] # NULL => parent'[q] # NULL /\ parent'[brother'[q]] = parent'[q]
    <3>1. SUFFICES ASSUME brother[q] # NULL PROVE parent[q] # NULL /\ parent'[brother[q]] = parent[q]
      BY <1>6, <2>1
    <3>2. brother[q] \in Pools /\ parent[q] # NULL /\ parent[brother[q]] = parent[q]
      BY <1>1, <3>1 DEF ShapeInv
    <3>3. brother[q] # p
      BY <1>10, <3>2
    <3> QED BY <1>4, <3>2, <3>3
  <2> QED BY <1>12, <2>1, <2>2, <2>3, <2>4, <2>5, <2>6, <2>7, <2>8
<1> QED BY <1>13, <1>14

LEMMA ShapeKept ==
  ASSUME TypeOK, ShapeInv, StacksInv, NEW t \in Threads, Takes(t)
  PROVE  ShapeInv'
<1>1. /\ state \in [Pools -> {"unused", "live", "freed"}]
      /\ child \in [Pools -> Pools \cup {NULL}] /\ brother \in [Pools -> Pools \cup {NULL}]
  BY Types
<1>2. ASSUME NEW p \in Pools, CreatesRoot(t, p) PROVE ShapeInv'
  <2>1. mutex' = [mutex EXCEPT ![p] = p] /\ raced' = raced /\ Creates(t, NULL, p)
    BY <1>2 DEF CreatesRoot
  <2> QED BY <2>1, CreateShape
<1>3. ASSUME NEW par \in Pools, NEW p \in Pools, CreatesChild(t, par, p) PROVE ShapeInv'
  <2>1. /\ mutex' = [mutex EXCEPT ![p] = mutex[par]] /\ Creates(t, par, p) /\ Live(par)
        /\ raced' \subseteq raced \cup {par} /\ par # NULL
    BY <1>3, PoolFacts DEF CreatesChild
  <2> QED BY <2>1, CreateShape
<1>4. ASSUME NEW op \in {"clear", "destroy"}, NEW p \in Pools, Calls(t, op, p) PROVE ShapeInv'
  <2>1. UNCHANGED <<state, mutex, parent, child, brother, raced>>
    BY <1>4 DEF Calls
  <2> QED BY <2>1 DEF ShapeInv, Used
<1>5. ASSUME NEW f \in Frame, stack[t] # <<>>, f = stack[t][1], Goes(t, f) PROVE ShapeInv'
  <2>1. f.pool \in Pools /\ f.temp \in Pools \cup {NULL} /\ FrameOK(t, f) /\ Used(f.pool)
    BY <1>5, TopFrame DEF FrameOK
  <2>2. UNCHANGED <<mutex, parent, raced>>
    BY <1>5, GoesKeeps
  <2>3. \A q \in Pools : Used(q)' = Used(q)
    <3>1. CASE Destroyed(t, f)
      BY <1>1, <2>1, <3>1 DEF Destroyed, Used
    <3>2. CASE ~ Destroyed(t, f)
      <4>1. UNCHANGED state
        BY <1>5, <3>2, GoesKeeps
      <4> QED BY <4>1 DEF Used
    <3> QED BY <3>1, <3>2
  <2>4. \A q \in Pools : child'[q] # NULL => parent[child'[q]] = q
    <3>1. CASE LinksChild(t, f)
      <4>1. child' = [child EXCEPT ![parent[f.pool]] = f.pool] /\ parent[f.pool] \in Pools
        BY <3>1 DEF LinksChild
      <4> QED BY <1>1, <4>1 DEF ShapeInv
    <3>2. CASE ~ LinksChild(t, f)
      BY <1>5, <3>2, GoesKeeps DEF ShapeInv
    <3> QED BY <3>1, <3>2
  <2>5. \A q \in Pools : brother'[q] # NULL => parent[q] # NULL /\ parent[brother'[q]] = parent[q]
    <3>1. CASE LinksBrother(t, f)
      <4>1. brother' = [brother EXCEPT ![f.pool] = f.temp] /\ f.op = "create"
        BY <3>1 DEF LinksBrother
      <4>2. parent[f.pool] # NULL /\ (f.temp # NULL => parent[f.temp] = parent[f.pool])
        BY <2>1, <4>1 DEF FrameOK
      <4> QED BY <1>1, <2>1, <4>1, <4>2 DEF ShapeInv
    <3>2. CASE ~ LinksBrother(t, f)
      BY <1>5, <3>2, GoesKeeps DEF ShapeInv
    <3> QED BY <3>1, <3>2
  <2>6. \A q \in Pools : (Used(q)' <=> state'[q] # "unused") /\ (Used(q) <=> state[q] # "unused")
    BY DEF Used
  <2>7. \A q \in Pools : \A x \in 1..q : x \in Pools
    BY PoolFacts
  <2>8. \A q \in Pools : (state'[q] # "unused") = (state[q] # "unused")
    BY <2>3, <2>6
  <2>9. ASSUME NEW q \in Pools
        PROVE  /\ state'[q] # "unused" =>
                    /\ \A x \in 1..q : state'[x] # "unused"
                    /\ mutex[q] \in Pools /\ state'[mutex[q]] # "unused" /\ mutex[mutex[q]] = mutex[q]
                    /\ parent[q] = NULL => mutex[q] = q
               /\ ~ (state'[q] # "unused") => parent[q] = NULL
               /\ parent[q] # NULL => /\ state'[parent[q]] # "unused" /\ parent[q] < q
                                      /\ mutex[parent[q]] = mutex[q]
               /\ q \in raced => state'[q] # "unused"
    <3>1. parent[q] \in Pools \cup {NULL}
      BY Types
    <3>2. /\ state[q] # "unused" =>
                    /\ \A x \in 1..q : state[x] # "unused"
                    /\ mutex[q] \in Pools /\ state[mutex[q]] # "unused" /\ mutex[mutex[q]] = mutex[q]
                    /\ parent[q] = NULL => mutex[q] = q
          /\ ~ (state[q] # "unused") => parent[q] = NULL
          /\ parent[q] # NULL => /\ state[parent[q]] # "unused" /\ parent[q] < q
                                 /\ mutex[parent[q]] = mutex[q]
          /\ q \in raced => state[q] # "unused"
      BY DEF ShapeInv, Used
    <3> QED BY <2>7, <2>8, <3>1, <3>2
  <2> QED BY <2>2, <2>4, <2>5, <2>9 DEF ShapeInv, Used
<1> QED BY <1>2, <1>3, <1>4, <1>5 DEF Takes

(* The stack of the thread that takes the step, with the fields as they    *)
(* were, when the step creates no pool.                                    *)
LEMMA OwnStack ==
  ASSUME TypeOK, ShapeInv, StacksInv, NEW t \in Threads, NEW f \in Frame, stack[t] # <<>>,
         f = stack[t][1], Goes(t, f), NEW v \in Seq(Frame), v = stack'[t]
  PROVE  StackOK(t, v)
<1>1. stack[t] \in Seq(Frame) /\ StackOK(t, stack[t])
  BY Types DEF StacksInv
<1>2. f.pool \in Pools /\ f.temp \in Pools \cup {NULL} /\ FrameOK(t, f) /\ Used(f.pool)
  BY TopFrame DEF FrameOK
<1>3. ASSUME Popped(stack[t], stack'[t]) PROVE StackOK(t, v)
  BY <1>1, <1>3, StackPop
<1>4. ASSUME NEW g, g.pool = f.pool, g.op = f.op, FrameOK(t, g), Replaced(stack[t], stack'[t], g)
      PROVE  StackOK(t, v)
  BY <1>1, <1>4, StackSwap
<1>5. CASE LinksChild(t, f)
  <2>1. PICK g : g = [f EXCEPT !.pc = "brother"]
    OBVIOUS
  <2>2. g.pool = f.pool /\ g.op = f.op /\ g.pc = "brother" /\ g.temp = f.temp
    BY <2>1 DEF Frame
  <2>3. FrameOK(t, g)
    BY <1>2, <1>5, <2>2 DEF FrameOK, LinksChild
  <2>4. Replaced(stack[t], stack'[t], g)
    BY <1>5, <2>1 DEF LinksChild
  <2> QED BY <1>4, <2>2, <2>3, <2>4
<1>6. CASE Begins(t, f)
  <2>1. PICK g : g = [f EXCEPT !.pc = "walk", !.temp = child[f.pool]]
    OBVIOUS
  <2>2. g.pool = f.pool /\ g.op = f.op /\ g.pc = "walk" /\ g.temp = child[f.pool]
    BY <2>1 DEF Frame
  <2>3. child[f.pool] # NULL => parent[child[f.pool]] = f.pool
    BY <1>2 DEF ShapeInv
  <2>4. FrameOK(t, g)
    BY <1>2, <1>6, <2>2, <2>3 DEF FrameOK, Begins
  <2>5. Replaced(stack[t], stack'[t], g)
    BY <1>6, <2>1 DEF Begins
  <2> QED BY <1>4, <2>2, <2>4, <2>5
<1>7. CASE Visits(t, f)
  <2>1. PICK e, g : e = Enter(f.op, f.temp) /\ g = [f EXCEPT !.temp = brother[f.temp]]
    OBVIOUS
  <2>2. /\ g.pool = f.pool /\ g.op = f.op /\ g.pc = "walk" /\ g.temp = brother[f.temp]
        /\ e.pool = f.temp /\ e.op = f.op /\ e.pc = "enter" /\ e.temp = NULL
    BY <1>7, <2>1 DEF Frame, Visits, Enter
  <2>3. f.temp \in Pools /\ parent[f.temp] = f.pool /\ Used(f.temp) /\ f.op # "create"
    BY <1>2, <1>7, LiveUsed, PoolFacts DEF FrameOK, Visits
  <2>4. brother[f.temp] # NULL => parent[brother[f.temp]] = f.pool
    BY <2>3 DEF ShapeInv
  <2>5. FrameOK(t, g)
    BY <1>2, <1>7, <2>2, <2>3, <2>4 DEF FrameOK, Visits
  <2>6. FrameOK(t, e)
    BY <2>2, <2>3 DEF FrameOK
  <2>7. mutex[e.pool] = mutex[g.pool] /\ g.pool < e.pool /\ parent[e.pool] = g.pool
    BY <1>2, <2>2, <2>3, PoolFacts DEF ShapeInv
  <2>8. Grown(stack[t], v, e, g)
    BY <1>7, <2>1 DEF Visits
  <2>9. \A k \in 1..Len(stack[t]) : stack[t][k].pool \in Pools
    <3>1. \A k \in 1..Len(stack[t]) : stack[t][k] \in Frame
      BY <1>1, ElementOfSeq
    <3> QED BY <3>1 DEF Frame
  <2>10. e.pool \in Pools /\ g.pool = stack[t][1].pool /\ g.op = stack[t][1].op /\ e.op = stack[t][1].op
    BY <2>2, <2>3
  <2> QED BY <1>1, <2>2, <2>5, <2>6, <2>7, <2>8, <2>9, <2>10, StackCall
<1>8. CASE LinksBrother(t, f) \/ Refused(t, f) \/ Cleared(t, f) \/ Destroyed(t, f)
  <2>1. Popped(stack[t], stack'[t])
    BY <1>8 DEF LinksBrother, Refused, Cleared, Destroyed
  <2> QED BY <1>3, <2>1
<1> QED BY <1>5, <1>6, <1>7, <1>8 DEF Goes

(* A stack of one frame.                                                   *)
LEMMA SingleOK ==
  ASSUME NEW t, NEW f \in Frame, FrameOK(t, f)
  PROVE  StackOK(t, <<f>>)
<1>1. Len(<<f>>) = 1 /\ <<f>>[1] = f
  OBVIOUS
<1>2. PICK s : s = <<f>>
  OBVIOUS
<1>3. \A k \in 1..Len(s) : k = 1 /\ s[k] = f
  BY <1>1, <1>2
<1>4. f.pool \in Nat
  BY PoolFacts DEF Frame
<1>5. ~ (1 < 1)
  OBVIOUS
<1>6. \A k \in 1..Len(s) : FrameOK(t, s[k])
  BY <1>3
<1>7. \A k \in 2..Len(s) : FALSE
  BY <1>1, <1>2
<1>8. \A j, k \in 1..Len(s) : s[j].op = s[k].op /\ mutex[s[j].pool] = mutex[s[k].pool] /\ ~ (k < j)
  BY <1>3, <1>5
<1>9. StackOK(t, s)
  BY <1>6, <1>7, <1>8 DEF StackOK
<1> QED BY <1>2, <1>9

LEMMA SingleOKNext == (\A t : \A f \in Frame : FrameOK(t, f) => StackOK(t, <<f>>))'
<1>1. \A t : \A f \in Frame : FrameOK(t, f) => StackOK(t, <<f>>)
  BY SingleOK
<1> QED BY <1>1, PTL

LEMMA StacksKept ==
  ASSUME TypeOK, ShapeInv, StacksInv, NEW t \in Threads, Takes(t)
  PROVE  StacksInv'
<1>1. Keeps
  BY TakesKeeps
<1>2. stack' \in [Threads -> Seq(Frame)] /\ Only(t)
  BY DEF Takes
<1>3. ASSUME NEW u \in Threads, NEW v \in Seq(Frame), StackOK(u, v), v = stack'[u]
      PROVE  StackOK(u, stack[u])'
  <2>1. StackOK(u, v)'
    BY <1>1, <1>3, StackKept
  <2>2. StackOK(u, v)' <=> StackOK(u, stack[u])'
    BY <1>3 DEF StackOK, FrameOK, Used
  <2> QED BY <2>1, <2>2
<1>4. ASSUME NEW u \in Threads, u # t PROVE StackOK(u, stack[u])'
  <2>1. PICK v : v = stack[u]
    OBVIOUS
  <2>2. v \in Seq(Frame) /\ v = stack'[u] /\ StackOK(u, v)
    BY <1>2, <1>4, <2>1, Types DEF Only, StacksInv
  <2> QED BY <1>3, <2>2
<1>5. ASSUME NEW v, v = stack'[t], StackOK(t, v)' PROVE StackOK(t, stack[t])'
  BY <1>5 DEF StackOK, FrameOK, Used
<1>6. StackOK(t, stack[t])'
  <2>1. PICK v : v = stack'[t]
    OBVIOUS
  <2>2. v \in Seq(Frame)
    BY <1>2, <2>1
  <2>3. ASSUME NEW p \in Pools, CreatesRoot(t, p) PROVE StackOK(t, stack[t])'
    <3>1. v = stack[t] /\ StackOK(t, stack[t])
      BY <2>1, <2>3 DEF CreatesRoot, StacksInv
    <3>2. StackOK(t, v)
      BY <3>1
    <3> QED BY <1>3, <2>1, <2>2, <3>2
  <2>4. ASSUME NEW par \in Pools, NEW p \in Pools, CreatesChild(t, par, p) PROVE StackOK(t, stack[t])'
    <3>1. PICK g : g = NewFrame(p, child[par])
      OBVIOUS
    <3>2. v = <<g>> /\ Creates(t, par, p)
      BY <2>1, <2>4, <3>1 DEF CreatesChild
    <3>3. g.op = "create" /\ g.pc = "child" /\ g.pool = p /\ g.temp = child[par]
      BY <3>1 DEF NewFrame
    <3>4. /\ parent \in [Pools -> Pools \cup {NULL}] /\ owner \in [Pools -> Threads]
          /\ child[par] \in Pools \cup {NULL} /\ state \in [Pools -> {"unused", "live", "freed"}]
      BY Types
    <3>5. g \in Frame
      BY <3>1, <3>4 DEF NewFrame, Frame
    <3>6. /\ parent'[p] = par /\ owner'[p] = t /\ state'[p] # "unused" /\ par # NULL
      BY <2>4, <3>2, <3>4, PoolFacts DEF Creates
    <3>7. child[par] # NULL => parent'[child[par]] = par
      <4>1. SUFFICES ASSUME child[par] # NULL PROVE parent'[child[par]] = par
        OBVIOUS
      <4>2. child[par] \in Pools /\ parent[child[par]] = par
        BY <3>4, <4>1 DEF ShapeInv
      <4>3. Used(child[par])
        BY <3>6, <4>2 DEF ShapeInv
      <4>4. parent'[child[par]] = parent[child[par]]
        BY <1>1, <4>2, <4>3 DEF Keeps
      <4> QED BY <4>2, <4>4
    <3>8. FrameOK(t, g)'
      BY <3>3, <3>6, <3>7 DEF FrameOK, Used
    <3>9. StackOK(t, v)'
      BY <3>2, <3>5, <3>8, SingleOKNext
    <3> QED BY <1>5, <2>1, <3>9
  <2>5. ASSUME NEW op \in {"clear", "destroy"}, NEW p \in Pools, Calls(t, op, p)
        PROVE  StackOK(t, stack[t])'
    <3>1. PICK g : g = Enter(op, p)
      OBVIOUS
    <3>2. g \in Frame /\ v = <<g>>
      BY <2>1, <2>5, <3>1 DEF Enter, Frame, Calls
    <3>3. Used(p) /\ g.pool = p /\ g.op = op /\ g.pc = "enter"
      BY <2>5, <3>1, LiveUsed DEF Calls, Enter
    <3>4. FrameOK(t, g)
      BY <3>3 DEF FrameOK
    <3>5. StackOK(t, v)
      BY <3>2, <3>4, SingleOK
    <3> QED BY <1>3, <2>1, <2>2, <3>5
  <2>6. ASSUME NEW f \in Frame, stack[t] # <<>>, f = stack[t][1], Goes(t, f)
        PROVE  StackOK(t, stack[t])'
    <3>1. StackOK(t, v)
      BY <2>1, <2>2, <2>6, OwnStack
    <3> QED BY <1>3, <2>1, <2>2, <3>1
  <2> QED BY <2>3, <2>4, <2>5, <2>6 DEF Takes
<1> QED BY <1>4, <1>6 DEF StacksInv

LEMMA CountOthers ==
  ASSUME TypeOK, StacksInv, NEW t \in Threads, Takes(t), NEW u \in Threads,
         stack'[u] = stack[u], NEW r
  PROVE  Held(stack'[u], mutex', r) = Held(stack[u], mutex, r)
<1>1. \A k \in 1..Len(stack[u]) : Used(stack[u][k].pool) /\ stack[u][k] \in Frame
  <2>1. \A k \in 1..Len(stack[u]) : stack[u][k] \in Frame
    BY Types, ElementOfSeq
  <2> QED BY <2>1 DEF StacksInv, StackOK, FrameOK
<1>2. \A k \in 1..Len(stack[u]) : mutex'[stack[u][k].pool] = mutex[stack[u][k].pool]
  BY <1>1, TakesKeeps DEF Keeps, Frame
<1> QED BY <1>2, HeldSame

LEMMA CountOwn ==
  ASSUME TypeOK, StacksInv, NEW t \in Threads, Takes(t), NEW f \in Frame, stack[t] # <<>>,
         f = stack[t][1], Goes(t, f), NEW r
  PROVE  /\ f.op = "clear" /\ Begins(t, f) /\ r = mutex[f.pool] =>
              Count(stack'[t], mutex', r) = Count(stack[t], mutex, r) + 1
         /\ f.op = "clear" /\ Cleared(t, f) /\ r = mutex[f.pool] =>
              Count(stack'[t], mutex', r) = Count(stack[t], mutex, r) - 1
         /\ ~ (f.op = "clear" /\ (Begins(t, f) \/ Cleared(t, f)) /\ r = mutex[f.pool]) =>
              Count(stack'[t], mutex', r) = Count(stack[t], mutex, r)
<1>1. stack[t] \in Seq(Frame) /\ stack'[t] \in Seq(Frame) /\ mutex' = mutex
  BY Types, GoesKeeps DEF Takes
<1>2. PICK s, v : s = stack[t] /\ v = stack'[t]
  OBVIOUS
<1>3. s \in Seq(Frame) /\ s # <<>> /\ v \in Seq(Frame) /\ s[1] = f /\ Len(s) \in Nat /\ Len(s) >= 1
  BY <1>1, <1>2, StackTop
<1>4. Count(s, mutex, r) \in Nat /\ Count(v, mutex, r) \in Nat
  BY <1>3, HeldFinite
<1>5. CASE LinksBrother(t, f) \/ Refused(t, f) \/ Destroyed(t, f)
  <2>1. Popped(s, v) /\ One(f, mutex, r) = 0
    BY <1>2, <1>5 DEF LinksBrother, Refused, Destroyed, One, Locking
  <2>2. Count(s, mutex, r) = Count(v, mutex, r) + One(f, mutex, r)
    BY <1>3, <2>1, HeldPop
  <2>3. ~ (f.op = "clear" /\ (Begins(t, f) \/ Cleared(t, f)))
    BY <1>5 DEF LinksBrother, Refused, Destroyed, Begins, Cleared
  <2> QED BY <1>1, <1>2, <1>4, <2>1, <2>2, <2>3
<1>6. CASE Cleared(t, f)
  <2>1. Popped(s, v) /\ f.op = "clear" /\ ~ Begins(t, f)
        /\ One(f, mutex, r) = IF r = mutex[f.pool] THEN 1 ELSE 0
    BY <1>2, <1>6 DEF Cleared, Begins, One, Locking
  <2>2. Count(s, mutex, r) = Count(v, mutex, r) + One(f, mutex, r)
    BY <1>3, <2>1, HeldPop
  <2> QED BY <1>1, <1>2, <1>4, <1>6, <2>1, <2>2
<1>7. CASE LinksChild(t, f)
  <2>1. PICK g : g = [f EXCEPT !.pc = "brother"]
    OBVIOUS
  <2>2. g.op = "create" /\ f.op = "create" /\ Replaced(s, v, g)
    BY <1>2, <1>7, <2>1 DEF LinksChild, Frame
  <2>3. One(f, mutex, r) = 0 /\ One(g, mutex, r) = 0
    BY <2>2 DEF One, Locking
  <2>4. v # <<>>
    BY <1>3, <2>2 DEF Replaced
  <2>5. Count(v, mutex, r) - One(g, mutex, r) = Count(s, mutex, r) - One(f, mutex, r)
    BY <1>3, <2>2, <2>4, HeldSwap
  <2> QED BY <1>1, <1>2, <1>4, <2>2, <2>3, <2>5
<1>8. CASE Begins(t, f)
  <2>1. PICK g : g = [f EXCEPT !.pc = "walk", !.temp = child[f.pool]]
    OBVIOUS
  <2>2. g.op = f.op /\ g.pc = "walk" /\ g.pool = f.pool /\ f.pc = "enter" /\ Replaced(s, v, g)
        /\ ~ Cleared(t, f)
    BY <1>2, <1>8, <2>1 DEF Begins, Cleared, Frame
  <2>3. One(f, mutex, r) = 0 /\ One(g, mutex, r) = IF f.op = "clear" /\ r = mutex[f.pool] THEN 1 ELSE 0
    BY <2>2 DEF One, Locking
  <2>4. v # <<>>
    BY <1>3, <2>2 DEF Replaced
  <2>5. Count(v, mutex, r) - One(g, mutex, r) = Count(s, mutex, r) - One(f, mutex, r)
    BY <1>3, <2>2, <2>4, HeldSwap
  <2> QED BY <1>1, <1>2, <1>4, <1>8, <2>2, <2>3, <2>5
<1>9. CASE Visits(t, f)
  <2>1. PICK e, g : e = Enter(f.op, f.temp) /\ g = [f EXCEPT !.temp = brother[f.temp]]
    OBVIOUS
  <2>2. g.op = f.op /\ g.pc = f.pc /\ g.pool = f.pool /\ e.pc = "enter" /\ Grown(s, v, e, g)
        /\ ~ Cleared(t, f) /\ ~ Begins(t, f)
    BY <1>2, <1>9, <2>1, PoolFacts DEF Visits, Begins, Cleared, Frame, Enter
  <2>3. One(g, mutex, r) = One(f, mutex, r) /\ One(e, mutex, r) = 0 /\ One(f, mutex, r) \in Nat
    BY <2>2 DEF One, Locking
  <2>4. v # <<>>
    BY <1>3, <2>2 DEF Grown
  <2>5. Count(v, mutex, r) = (Count(s, mutex, r) - One(f, mutex, r)) + One(g, mutex, r) + One(e, mutex, r)
    BY <1>3, <2>2, <2>4, HeldCall
  <2> QED BY <1>1, <1>2, <1>4, <2>2, <2>3, <2>5
<1> QED BY <1>5, <1>6, <1>7, <1>8, <1>9 DEF Goes

(* The mutexes, when the counts and the locks stay as they are.            *)
LEMMA MutexSame ==
  ASSUME MutexInv, UNCHANGED <<holder, depth>>,
         \A u \in Threads : \A r \in Pools :
           Count(stack'[u], mutex', r) = Count(stack[u], mutex, r)
  PROVE  MutexInv'
BY DEF MutexInv, Count

LEMMA MutexKept ==
  ASSUME TypeOK, ShapeInv, StacksInv, MutexInv, NEW t \in Threads, Takes(t)
  PROVE  MutexInv'
<1>1. \A u \in Threads : u # t => stack'[u] = stack[u]
  BY DEF Takes, Only
<1>2. \A u \in Threads : u # t => \A r \in Pools : Count(stack'[u], mutex', r) = Count(stack[u], mutex, r)
  BY <1>1, CountOthers DEF Count
<1>3. ASSUME NEW p \in Pools, CreatesRoot(t, p) PROVE MutexInv'
  <2>1. stack' = stack /\ UNCHANGED <<holder, depth>>
    BY <1>3 DEF CreatesRoot, Creates
  <2>2. \A r \in Pools : Count(stack'[t], mutex', r) = Count(stack[t], mutex, r)
    BY <2>1, CountOthers DEF Count
  <2> QED BY <1>2, <2>1, <2>2, MutexSame
<1>4. ASSUME NEW g \in Frame, stack'[t] = <<g>>, stack[t] = <<>>, g.pc # "walk",
             UNCHANGED <<holder, depth>>
      PROVE  MutexInv'
  <2>1. \A r \in Pools : ~ Locking(g, mutex', r)
    BY <1>4 DEF Locking
  <2>2. \A r \in Pools : Count(stack'[t], mutex', r) = 0
    BY <1>4, <2>1, HeldSingle
  <2>3. \A r \in Pools : Count(stack[t], mutex, r) = 0
    BY <1>4, HeldNone
  <2> QED BY <1>2, <1>4, <2>2, <2>3, MutexSame
<1>5. ASSUME NEW par \in Pools, NEW p \in Pools, CreatesChild(t, par, p) PROVE MutexInv'
  <2>1. PICK g : g = NewFrame(p, child[par])
    OBVIOUS
  <2>2. child[par] \in Pools \cup {NULL}
    BY Types
  <2>3. g \in Frame /\ g.pc # "walk"
    BY <2>1, <2>2 DEF NewFrame, Frame
  <2>4. stack'[t] = <<g>> /\ stack[t] = <<>> /\ UNCHANGED <<holder, depth>>
    BY <1>5, <2>1 DEF CreatesChild, Creates
  <2> QED BY <1>4, <2>3, <2>4
<1>6. ASSUME NEW op \in {"clear", "destroy"}, NEW p \in Pools, Calls(t, op, p) PROVE MutexInv'
  <2>1. PICK g : g = Enter(op, p)
    OBVIOUS
  <2>2. g \in Frame /\ g.pc # "walk"
    BY <2>1 DEF Enter, Frame
  <2>3. stack'[t] = <<g>> /\ stack[t] = <<>> /\ UNCHANGED <<holder, depth>>
    BY <1>6, <2>1 DEF Calls
  <2> QED BY <1>4, <2>2, <2>3
<1>7. ASSUME NEW f \in Frame, stack[t] # <<>>, f = stack[t][1], Goes(t, f) PROVE MutexInv'
  <2>1. CASE ~ (f.op = "clear" /\ (Begins(t, f) \/ Cleared(t, f)))
    <3>1. \A r \in Pools : Count(stack'[t], mutex', r) = Count(stack[t], mutex, r)
      BY <1>7, <2>1, CountOwn
    <3>2. UNCHANGED <<holder, depth>>
      BY <1>7, <2>1, GoesKeeps
    <3> QED BY <1>2, <3>1, <3>2, MutexSame
  <2>2. PICK c : c = mutex[f.pool]
    OBVIOUS
  <2>3. c \in Pools /\ holder \in [Pools -> SUBSET Threads] /\ depth \in [Pools -> Nat]
    BY <1>7, <2>2, TopFrame, Types DEF FrameOK, ShapeInv
  <2>4. \A r \in Pools : r # c => Count(stack'[t], mutex', r) = Count(stack[t], mutex, r)
    BY <1>7, <2>2, CountOwn
  <2>5. \A u \in Threads : \A r \in Pools : Count(stack[u], mutex, r) \in Nat
    BY Types, HeldFinite
  <2>6. ASSUME \A r \in Pools : r # c => holder'[r] = holder[r] /\ depth'[r] = depth[r],
               /\ \A a, b \in holder'[c] : a = b
               /\ holder'[c] = {} => depth'[c] = 0
               /\ \A u \in Threads :
                    IF u \in holder'[c]
                    THEN depth'[c] = Count(stack'[u], mutex', c) /\ depth'[c] # 0
                    ELSE Count(stack'[u], mutex', c) = 0
        PROVE  MutexInv'
    <3>1. \A r \in Pools : r # c => \A u \in Threads :
            Count(stack'[u], mutex', r) = Count(stack[u], mutex, r)
      BY <1>2, <2>4
    <3>2. ASSUME NEW r \in Pools
          PROVE  /\ \A a, b \in holder'[r] : a = b
                 /\ holder'[r] = {} => depth'[r] = 0
                 /\ \A u \in Threads :
                      IF u \in holder'[r]
                      THEN depth'[r] = Count(stack'[u], mutex', r) /\ depth'[r] # 0
                      ELSE Count(stack'[u], mutex', r) = 0
      <4>1. CASE r = c
        BY <2>6, <4>1
      <4>2. CASE r # c
        BY <2>6, <3>1, <4>2 DEF MutexInv, Count
      <4> QED BY <4>1, <4>2
    <3> QED BY <3>2 DEF MutexInv, Count
  <2>7. /\ \A a, b \in holder[c] : a = b
        /\ holder[c] = {} => depth[c] = 0
        /\ \A u \in Threads :
             IF u \in holder[c]
             THEN depth[c] = Count(stack[u], mutex, c) /\ depth[c] # 0
             ELSE Count(stack[u], mutex, c) = 0
    BY <2>3 DEF MutexInv, Count
  <2>8. CASE f.op = "clear" /\ Begins(t, f)
    <3>1. Lock(t, c)
      BY <2>2, <2>8 DEF Begins
    <3>2. /\ holder[c] \subseteq {t} /\ holder'[c] = {t} /\ depth'[c] = depth[c] + 1
          /\ \A r \in Pools : r # c => holder'[r] = holder[r] /\ depth'[r] = depth[r]
      BY <2>3, <3>1 DEF Lock
    <3>3. Count(stack'[t], mutex', c) = Count(stack[t], mutex, c) + 1
      BY <1>7, <2>2, <2>8, CountOwn
    <3>4. depth[c] = Count(stack[t], mutex, c) /\ depth[c] \in Nat
      BY <2>3, <2>7, <3>2
    <3>5. \A u \in Threads : u # t => Count(stack'[u], mutex', c) = 0
      BY <1>2, <2>3, <2>7, <3>2
    <3>6. \A u \in Threads : IF u \in holder'[c]
                             THEN depth'[c] = Count(stack'[u], mutex', c) /\ depth'[c] # 0
                             ELSE Count(stack'[u], mutex', c) = 0
      BY <3>2, <3>3, <3>4, <3>5
    <3> QED BY <2>6, <3>2, <3>6
  <2>9. CASE f.op = "clear" /\ Cleared(t, f)
    <3>1. Unlock(t, c)
      BY <2>2, <2>9 DEF Cleared
    <3>2. /\ holder'[c] = (IF depth[c] = 1 THEN {} ELSE holder[c]) /\ depth'[c] = depth[c] - 1
          /\ \A r \in Pools : r # c => holder'[r] = holder[r] /\ depth'[r] = depth[r]
      BY <2>3, <3>1 DEF Unlock
    <3>3. Count(stack'[t], mutex', c) = Count(stack[t], mutex, c) - 1
      BY <1>7, <2>2, <2>9, CountOwn
    <3>4. Count(stack'[t], mutex', c) \in Nat
      <4>1. stack'[t] \in Seq(Frame)
        BY DEF Takes
      <4> QED BY <4>1, HeldFinite
    <3>5. t \in holder[c] /\ depth[c] = Count(stack[t], mutex, c) /\ depth[c] \in Nat
      BY <2>3, <2>5, <2>7, <3>3, <3>4
    <3>6. \A u \in Threads : u # t => Count(stack'[u], mutex', c) = 0 /\ u \notin holder[c]
      BY <1>2, <2>3, <2>7, <3>5
    <3>7. \A u \in Threads : IF u \in holder'[c]
                             THEN depth'[c] = Count(stack'[u], mutex', c) /\ depth'[c] # 0
                             ELSE Count(stack'[u], mutex', c) = 0
      BY <3>2, <3>3, <3>5, <3>6
    <3>8. (\A a, b \in holder'[c] : a = b) /\ (holder'[c] = {} => depth'[c] = 0)
      BY <2>7, <3>2, <3>5
    <3> QED BY <2>6, <3>2, <3>7, <3>8
  <2> QED BY <2>1, <2>8, <2>9
<1> QED BY <1>3, <1>5, <1>6, <1>7 DEF Takes


-----------------------------------------------------------------------------

LEMMA BaseInit == Init => BaseInv
<1> SUFFICES ASSUME Init PROVE BaseInv
  OBVIOUS
<1>1. (CHOOSE t \in Threads : TRUE) \in Threads
  BY TreeAssumption
<1>2. owner \in [Pools -> Threads]
  BY <1>1 DEF Init
<1>3. stack \in [Threads -> Seq(Frame)]
  <2>1. <<>> \in Seq(Frame)
    OBVIOUS
  <2> QED BY <2>1 DEF Init
<1>4. state \in [Pools -> {"unused", "live", "freed"}] /\ done \in [Threads -> SUBSET Pools]
      /\ holder \in [Pools -> SUBSET Threads]
  BY DEF Init
<1>5. \A g \in {mutex, parent, child, brother} : g = [p \in Pools |-> NULL]
  BY DEF Init
<1>6. \A g \in {mutex, parent, child, brother} : g \in [Pools -> Pools \cup {NULL}]
  BY <1>5
<1>7. depth \in [Pools -> Nat]
  BY DEF Init, NULL
<1>8. TypeOK
  BY <1>2, <1>3, <1>4, <1>6, <1>7 DEF Init, TypeOK
<1>9. ShapeInv
  <2>1. \A p \in Pools : ~ Used(p) /\ parent[p] = NULL /\ child[p] = NULL /\ brother[p] = NULL /\ p \notin raced
    BY <1>5 DEF Init, Used
  <2> QED BY <2>1 DEF ShapeInv
<1>10. \A t \in Threads : stack[t] = <<>>
  BY DEF Init
<1>11. StacksInv
  <2>1. \A t \in Threads : Len(stack[t]) = 0
    BY <1>10
  <2>2. \A t \in Threads : \A k \in 1..Len(stack[t]) : FALSE
    BY <2>1
  <2>3. \A t \in Threads : \A k \in 2..Len(stack[t]) : FALSE
    BY <2>1
  <2> QED BY <2>2, <2>3 DEF StacksInv, StackOK
<1>12. MutexInv
  <2>1. \A t \in Threads : \A r \in Pools : Cardinality(Held(stack[t], mutex, r)) = 0
    BY <1>10, HeldNone DEF Count
  <2>2. \A r \in Pools : holder[r] = {} /\ depth[r] = 0
    BY DEF Init, NULL
  <2> QED BY <2>1, <2>2 DEF MutexInv
<1> QED BY <1>8, <1>9, <1>11, <1>12 DEF BaseInv

LEMMA BaseNext == BaseInv /\ [Next]_vars => BaseInv'
<1> SUFFICES ASSUME BaseInv, [Next]_vars PROVE BaseInv'
  OBVIOUS
<1>1. TypeOK /\ ShapeInv /\ StacksInv /\ MutexInv
  BY DEF BaseInv
<1>2. CASE Idle
  <2>1. TypeOK'
    BY <1>1, <1>2 DEF TypeOK, Idle
  <2>2. ShapeInv'
    BY <1>1, <1>2 DEF ShapeInv, Used, Idle
  <2>3. StacksInv'
    BY <1>1, <1>2 DEF StacksInv, StackOK, FrameOK, Owned, Used, Idle
  <2>4. MutexInv'
    BY <1>1, <1>2 DEF MutexInv, Idle
  <2> QED BY <2>1, <2>2, <2>3, <2>4 DEF BaseInv
<1>3. ASSUME NEW t \in Threads, Takes(t) PROVE BaseInv'
  BY <1>1, <1>3, TypeKept, ShapeKept, StacksKept, MutexKept DEF BaseInv
<1> QED BY <1>1, <1>2, <1>3, NextTakes

LEMMA BaseAlways == Spec => []BaseInv
<1> QED BY BaseInit, BaseNext, PTL DEF Spec

(***************************************************************************)
(* The mutex that all pools of a tree share is locked as often as its      *)
(* holder is inside spr_pool_clear for a pool of the tree, and it is free  *)
(* when nobody is: the early return of the owner check is taken before the *)
(* mutex is locked, and each level of the recursion unlocks it once.       *)
(***************************************************************************)
THEOREM MutexPaired == Spec => []LockInv
<1>1. BaseInv => LockInv
  <2> SUFFICES ASSUME BaseInv PROVE LockInv
    OBVIOUS
  <2>1. TypeOK /\ MutexInv
    BY DEF BaseInv
  <2>2. ASSUME NEW r \in Pools, NEW t \in Threads
        PROVE  LET held == {k \in DOMAIN stack[t] :
                              /\ stack[t][k].op = "clear" /\ stack[t][k].pc = "walk"
                              /\ Root(stack[t][k].pool) = r}
               IN  IF t \in holder[r] THEN depth[r] = Cardinality(held) /\ held # {} ELSE held = {}
    <3>1. stack[t] \in Seq(Frame)
      BY <2>1, Types
    <3>2. DOMAIN stack[t] = 1..Len(stack[t])
      BY <3>1, LenProperties
    <3>3. Held(stack[t], mutex, r) = {k \in DOMAIN stack[t] :
                              /\ stack[t][k].op = "clear" /\ stack[t][k].pc = "walk"
                              /\ Root(stack[t][k].pool) = r}
      BY <3>2 DEF Held, Locking, Root
    <3>4. IF t \in holder[r]
          THEN depth[r] = Cardinality(Held(stack[t], mutex, r)) /\ depth[r] # 0
          ELSE Cardinality(Held(stack[t], mutex, r)) = 0
      BY <2>1 DEF MutexInv
    <3>5. Cardinality(Held(stack[t], mutex, r)) = 0 <=> Held(stack[t], mutex, r) = {}
      BY <3>1, HeldFinite, FS_EmptySet
    <3> QED BY <3>3, <3>4, <3>5
  <2>3. LockDepth
    BY <2>2 DEF LockDepth
  <2> QED BY <2>1, <2>3 DEF LockInv
<1> QED BY <1>1, BaseAlways, PTL

-----------------------------------------------------------------------------
(* Linking children.  Between its two assignments spr_pool_add_child has   *)
(* put the new pool in front of its brothers, but the new pool does not    *)
(* point to them yet: the list of the children is a list along the         *)
(* brothers as they will be.                                               *)

In(t, pc, p) == stack[t] # <<>> /\ stack[t][1].pc = pc /\ stack[t][1].pool = p

AtChild(p)   == In(owner[p], "child", p)
AtBrother(p) == In(owner[p], "brother", p)
Saved(p)     == stack[owner[p]][1].temp

Bro       == [p \in Pools |-> IF AtBrother(p) THEN Saved(p) ELSE brother[p]]
Linked(q) == {p \in Pools : parent[p] = q /\ ~ AtChild(p)}

(* The children of q are the pools linked to it, each of them once; one    *)
(* thread at a time links, and what it has read of q is still right.       *)
ChildrenOK(q) ==
  /\ \A p, x \in Pools : AtChild(p) /\ AtChild(x) /\ parent[p] = q /\ parent[x] = q => p = x
  /\ \A p \in Pools : AtChild(p) /\ parent[p] = q => Saved(p) = child[q]
  /\ \E n, s : IsList(child[q], n, s, Bro, Pools) /\ Elems(n, s) = Linked(q)

CreateInv == \A q \in Pools : q \notin raced => ChildrenOK(q)

LEMMA CreateFrame ==
  ASSUME TypeOK, StacksInv, NEW t \in Threads, stack[t] # <<>>,
         stack[t][1].pc \in {"child", "brother"}
  PROVE  /\ stack[t][1].op = "create" /\ Len(stack[t]) = 1
         /\ owner[stack[t][1].pool] = t /\ Used(stack[t][1].pool)
         /\ parent[stack[t][1].pool] # NULL /\ stack[t][1].pool \in Pools
<1>1. /\ Top(t) = stack[t][1] /\ 1 \in 1..Depth(t) /\ Depth(t) \in Nat /\ Depth(t) >= 1
      /\ FrameOK(t, stack[t][1]) /\ stack[t][1].pool \in Pools
      /\ stack[t][1].op \in {"create", "clear", "destroy"}
  BY TopFrame
<1>2. stack[t][1].op = "create"
  BY <1>1 DEF FrameOK
<1>3. Len(stack[t]) = 1
  <2>1. SUFFICES ASSUME Len(stack[t]) # 1 PROVE FALSE
    OBVIOUS
  <2>2. 2 \in 1..Len(stack[t]) /\ 2 \in 2..Len(stack[t])
    <3>1. Len(stack[t]) \in Nat /\ Len(stack[t]) >= 1
      BY <1>1 DEF Depth
    <3>2. PICK n : n = Len(stack[t])
      OBVIOUS
    <3>3. n \in Nat /\ n >= 1 /\ n # 1
      BY <2>1, <3>1, <3>2
    <3>4. 2 \in 1..n /\ 2 \in 2..n
      BY ONLY <3>3
    <3> QED BY <3>2, <3>4
  <2>3. stack[t][2].pc = "walk" /\ stack[t][2].op = "create" /\ FrameOK(t, stack[t][2])
    BY <1>1, <1>2, <2>2 DEF StacksInv, StackOK, Depth
  <2> QED BY <2>3 DEF FrameOK
<1> QED BY <1>1, <1>2, <1>3 DEF FrameOK

LEMMA AtFacts ==
  ASSUME TypeOK, StacksInv, NEW x \in Pools, AtChild(x) \/ AtBrother(x)
  PROVE  Used(x) /\ parent[x] # NULL /\ ~ (AtChild(x) /\ AtBrother(x))
<1>1. owner[x] \in Threads
  BY Types
<1> QED BY <1>1, CreateFrame DEF AtChild, AtBrother, In

(* A stack that links no pool but p.                                       *)
Quiet(s, p) == s # <<>> /\ s[1].pc \in {"child", "brother"} => s[1].pool = p

LinkSame(x) ==
  /\ (AtChild(x)' <=> AtChild(x)) /\ (AtBrother(x)' <=> AtBrother(x))
  /\ AtChild(x) \/ AtBrother(x) => Saved(x)' = Saved(x)

LEMMA LinkOthers ==
  ASSUME TypeOK, NEW t \in Threads, Only(t), NEW p,
         \A x \in Pools : x # p => owner'[x] = owner[x],
         Quiet(stack[t], p), Quiet(stack'[t], p)
  PROVE  \A x \in Pools : x # p => LinkSame(x)
<1>1. SUFFICES ASSUME NEW x \in Pools, x # p PROVE LinkSame(x)
  OBVIOUS
<1>2. owner'[x] = owner[x] /\ owner[x] \in Threads
  BY <1>1, Types
<1>3. CASE owner[x] = t
  <2>1. ~ AtChild(x) /\ ~ AtBrother(x)
    BY <1>1, <1>3 DEF AtChild, AtBrother, In, Quiet
  <2>2. ~ AtChild(x)' /\ ~ AtBrother(x)'
    BY <1>1, <1>2, <1>3 DEF AtChild, AtBrother, In, Quiet
  <2> QED BY <2>1, <2>2 DEF LinkSame
<1>4. CASE owner[x] # t
  <2>1. stack'[owner[x]] = stack[owner[x]]
    BY <1>2, <1>4 DEF Only
  <2> QED BY <1>2, <2>1 DEF LinkSame, AtChild, AtBrother, In, Saved
<1> QED BY <1>3, <1>4

(* What a thread returns to links nothing.                                 *)
LEMMA QuietBelow ==
  ASSUME TypeOK, StacksInv, NEW t \in Threads, stack[t] # <<>>, NEW v \in Seq(Frame),
         Popped(stack[t], v), NEW p
  PROVE  Quiet(v, p)
<1>1. SUFFICES ASSUME v # <<>> PROVE v[1].pc = "walk"
  BY DEF Quiet
<1>2. Len(v) \in Nat /\ Len(v) >= 1 /\ Len(stack[t]) = Len(v) + 1
  <2>1. Len(v) \in Nat /\ Len(v) >= 1
    BY <1>1, StackTop
  <2>2. Len(stack[t]) \in Nat
    BY Types, LenProperties
  <2> QED BY <2>1, <2>2 DEF Popped
<1>3. v[1] = stack[t][2] /\ 2 \in 2..Len(stack[t])
  BY <1>2 DEF Popped
<1> QED BY <1>3 DEF StacksInv, StackOK

(* The steps in which no pool is linked.                                   *)
LEMMA LinkNone ==
  ASSUME TypeOK, ShapeInv, StacksInv, NEW t \in Threads, Takes(t)
  PROVE  \/ /\ \A x \in Pools : LinkSame(x) /\ parent'[x] = parent[x]
            /\ UNCHANGED <<child, brother, raced>>
         \/ \E par, p \in Pools : CreatesChild(t, par, p)
         \/ \E f \in Frame : /\ stack[t] # <<>> /\ f = stack[t][1]
                             /\ LinksChild(t, f) \/ LinksBrother(t, f)
<1> DEFINE Same == /\ \A x \in Pools : LinkSame(x) /\ parent'[x] = parent[x]
                   /\ UNCHANGED <<child, brother, raced>>
<1>1. Only(t) /\ stack'[t] \in Seq(Frame) /\ stack[t] \in Seq(Frame) /\ NULL \notin Pools
  BY Types, PoolFacts DEF Takes
<1>2. ASSUME UNCHANGED <<owner, parent, child, brother, raced>>,
             Quiet(stack[t], NULL), Quiet(stack'[t], NULL)
      PROVE  Same
  <2>1. \A x \in Pools : x # NULL => LinkSame(x)
    BY <1>1, <1>2, LinkOthers
  <2> QED BY <1>1, <1>2, <2>1
<1>3. ASSUME NEW p \in Pools, CreatesRoot(t, p) PROVE Same
  <2>1. /\ owner' = [owner EXCEPT ![p] = t] /\ parent' = [parent EXCEPT ![p] = NULL]
        /\ stack' = stack /\ stack[t] = <<>> /\ UNCHANGED <<child, brother, raced>> /\ ~ Used(p)
    BY <1>3 DEF CreatesRoot, Creates
  <2>2. owner \in [Pools -> Threads] /\ parent \in [Pools -> Pools \cup {NULL}]
    BY Types
  <2>3. \A x \in Pools : parent'[x] = parent[x]
    BY <2>1, <2>2 DEF ShapeInv
  <2>4. \A x \in Pools : x # p => owner'[x] = owner[x]
    BY <2>1, <2>2
  <2>5. \A x \in Pools : x # p => LinkSame(x)
    BY <1>1, <2>1, <2>4, LinkOthers DEF Quiet
  <2>6. LinkSame(p)
    <3>1. ~ AtChild(p) /\ ~ AtBrother(p)
      BY <2>1, AtFacts
    <3>2. ~ AtChild(p)' /\ ~ AtBrother(p)'
      BY <2>1, <2>2 DEF AtChild, AtBrother, In
    <3> QED BY <3>1, <3>2 DEF LinkSame
  <2> QED BY <2>1, <2>3, <2>5, <2>6
<1>4. ASSUME NEW op \in {"clear", "destroy"}, NEW p \in Pools, Calls(t, op, p) PROVE Same
  <2>1. stack[t] = <<>> /\ stack'[t] = <<Enter(op, p)>>
        /\ UNCHANGED <<owner, parent, child, brother, raced>>
    BY <1>4 DEF Calls
  <2>2. stack'[t][1].pc = "enter"
    BY <2>1 DEF Enter
  <2> QED BY <1>2, <2>1, <2>2 DEF Quiet
<1>5. ASSUME NEW f \in Frame, stack[t] # <<>>, f = stack[t][1], Goes(t, f),
             ~ LinksChild(t, f), ~ LinksBrother(t, f)
      PROVE  Same
  <2>1. UNCHANGED <<owner, parent, child, brother, raced>>
    BY <1>5, GoesKeeps
  <2>2. Quiet(stack[t], NULL)
    BY <1>5 DEF Goes, Refused, Begins, Visits, Cleared, Destroyed, Quiet
  <2>3. Quiet(stack'[t], NULL)
    <3>1. CASE Refused(t, f) \/ Cleared(t, f) \/ Destroyed(t, f)
      <4>1. Popped(stack[t], stack'[t])
        BY <3>1 DEF Refused, Cleared, Destroyed
      <4> QED BY <1>1, <1>5, <4>1, QuietBelow
    <3>2. CASE Begins(t, f)
      <4>1. stack'[t][1].pc = "walk"
        BY <3>2 DEF Begins, Replaced, Frame
      <4> QED BY <4>1 DEF Quiet
    <3>3. CASE Visits(t, f)
      <4>1. stack'[t][1].pc = "enter"
        BY <3>3 DEF Visits, Grown, Enter
      <4> QED BY <4>1 DEF Quiet
    <3> QED BY <1>5, <3>1, <3>2, <3>3 DEF Goes
  <2> QED BY <1>2, <2>1, <2>2, <2>3
<1> HIDE DEF Same
<1>6. \/ Same
      \/ \E par, p \in Pools : CreatesChild(t, par, p)
      \/ \E f \in Frame : /\ stack[t] # <<>> /\ f = stack[t][1]
                          /\ LinksChild(t, f) \/ LinksBrother(t, f)
  BY <1>3, <1>4, <1>5 DEF Takes
<1> QED BY <1>6 DEF Same

(* The brothers of the pools that a step does not link.                    *)
LEMMA BroSame ==
  ASSUME NEW x \in Pools, LinkSame(x), brother'[x] = brother[x]
  PROVE  Bro'[x] = Bro[x]
<1>1. Bro'[x] = IF AtBrother(x)' THEN Saved(x)' ELSE brother'[x]
  BY DEF Bro
<1>2. Bro[x] = IF AtBrother(x) THEN Saved(x) ELSE brother[x]
  BY DEF Bro
<1> QED BY <1>1, <1>2 DEF LinkSame

(* A pool none of whose children the step links.                           *)
LEMMA ChildrenSame ==
  ASSUME NEW q \in Pools, ChildrenOK(q), child'[q] = child[q],
         \A x \in Pools : parent[x] = q \/ parent'[x] = q =>
           LinkSame(x) /\ parent'[x] = parent[x] /\ brother'[x] = brother[x]
  PROVE  ChildrenOK(q)'
<1>1. \A p, x \in Pools : AtChild(p)' /\ AtChild(x)' /\ parent'[p] = q /\ parent'[x] = q => p = x
  BY DEF ChildrenOK, LinkSame
<1>2. \A p \in Pools : AtChild(p)' /\ parent'[p] = q => Saved(p)' = child'[q]
  BY DEF ChildrenOK, LinkSame
<1>3. PICK n, s : IsList(child[q], n, s, Bro, Pools) /\ Elems(n, s) = Linked(q)
  BY DEF ChildrenOK
<1>4. \A x \in Pools : parent[x] = q => Bro'[x] = Bro[x]
  BY BroSame
<1>5. \A x \in Elems(n, s) : Bro'[x] = Bro[x]
  BY <1>3, <1>4 DEF Linked
<1>6. IsList(child'[q], n, s, Bro', Pools)
  BY <1>3, <1>5, ListFrame
<1>7. Elems(n, s) = {p \in Pools : parent'[p] = q /\ ~ AtChild(p)'}
  BY <1>3 DEF Linked, LinkSame
<1> QED BY <1>1, <1>2, <1>6, <1>7 DEF ChildrenOK, Linked

LEMMA CreatePreserves ==
  ASSUME TypeOK, ShapeInv, StacksInv, CreateInv, NEW t \in Threads, Takes(t),
         NEW par \in Pools, NEW p \in Pools, CreatesChild(t, par, p)
  PROVE  CreateInv'
<1>1. /\ owner' = [owner EXCEPT ![p] = t] /\ parent' = [parent EXCEPT ![p] = par]
      /\ stack[t] = <<>> /\ stack'[t] = <<NewFrame(p, child[par])>>
      /\ UNCHANGED <<child, brother>> /\ ~ Used(p)
      /\ raced' = IF Linking(par) THEN raced \cup {par} ELSE raced
  BY DEF CreatesChild, Creates
<1>2. /\ owner \in [Pools -> Threads] /\ parent \in [Pools -> Pools \cup {NULL}] /\ NULL \notin Pools
  BY Types, PoolFacts
<1>3. /\ \A x \in Pools : x # p => owner'[x] = owner[x] /\ parent'[x] = parent[x]
      /\ owner'[p] = t /\ parent'[p] = par /\ parent[p] = NULL
  BY <1>1, <1>2 DEF ShapeInv
<1>4. stack'[t] # <<>> /\ stack'[t][1].pc = "child" /\ stack'[t][1].pool = p /\ stack'[t][1].temp = child[par]
  <2>1. PICK g : g = NewFrame(p, child[par])
    OBVIOUS
  <2>2. g.pc = "child" /\ g.pool = p /\ g.temp = child[par] /\ stack'[t] = <<g>>
    BY <1>1, <2>1 DEF NewFrame
  <2> QED BY <2>2
<1>5. \A x \in Pools : x # p => LinkSame(x)
  BY <1>1, <1>3, <1>4, LinkOthers, ZenonT(30) DEF Quiet, Takes
<1>6. AtChild(p)' /\ Saved(p)' = child[par]
  BY <1>3, <1>4 DEF AtChild, In, Saved
<1>7. SUFFICES ASSUME NEW q \in Pools, q \notin raced' PROVE ChildrenOK(q)'
  BY DEF CreateInv
<1>8. q \notin raced /\ ChildrenOK(q)
  BY <1>1, <1>7 DEF CreateInv
<1>9. CASE q # par
  <2>1. \A x \in Pools : parent[x] = q \/ parent'[x] = q =>
           LinkSame(x) /\ parent'[x] = parent[x] /\ brother'[x] = brother[x]
    BY <1>1, <1>2, <1>3, <1>5, <1>9
  <2>2. child'[q] = child[q]
    BY <1>1
  <2> QED BY <1>8, <2>1, <2>2, ChildrenSame
<1>10. CASE q = par
  <2>1. ~ Linking(par)
    BY <1>1, <1>7, <1>10
  <2>2. \A x \in Pools : parent[x] = par => ~ AtChild(x)
    <3>1. SUFFICES ASSUME NEW x \in Pools, parent[x] = par, AtChild(x) PROVE FALSE
      OBVIOUS
    <3>2. owner[x] \in Threads /\ stack[owner[x]] # <<>> /\ stack[owner[x]][1].pc = "child"
          /\ stack[owner[x]][1].pool = x
      BY <1>2, <3>1 DEF AtChild, In
    <3>3. Top(owner[x]) = stack[owner[x]][1]
      BY <3>2, TopFrame
    <3> QED BY <2>1, <3>1, <3>2, <3>3 DEF Linking
  <2>3. \A x \in Pools : AtChild(x)' /\ parent'[x] = par => x = p
    BY <1>3, <1>5, <2>2 DEF LinkSame
  <2>4. \A x \in Pools : AtChild(x)' /\ parent'[x] = q => Saved(x)' = child'[q]
    BY <1>1, <1>6, <1>10, <2>3
  <2>5. PICK n, s : IsList(child[q], n, s, Bro, Pools) /\ Elems(n, s) = Linked(q)
    BY <1>8 DEF ChildrenOK
  <2>6. \A x \in Elems(n, s) : x \in Pools /\ x # p
    BY <1>2, <1>3, <2>5 DEF Linked
  <2>7. \A x \in Elems(n, s) : Bro'[x] = Bro[x]
    BY <1>1, <1>5, <2>6, BroSame
  <2>8. IsList(child'[q], n, s, Bro', Pools)
    BY <1>1, <2>5, <2>7, ListFrame
  <2>9. Elems(n, s) = {x \in Pools : parent'[x] = q /\ ~ AtChild(x)'}
    <3>1. \A x \in Pools : parent'[x] = q /\ ~ AtChild(x)' <=> parent[x] = q /\ ~ AtChild(x)
      BY <1>2, <1>3, <1>5, <1>6, <1>10 DEF LinkSame
    <3> QED BY <2>5, <3>1 DEF Linked
  <2> QED BY <1>10, <2>3, <2>4, <2>8, <2>9 DEF ChildrenOK, Linked
<1> QED BY <1>9, <1>10

LEMMA LinkPreserves ==
  ASSUME TypeOK, ShapeInv, StacksInv, CreateInv, NEW t \in Threads, Takes(t),
         NEW f \in Frame, stack[t] # <<>>, f = stack[t][1], LinksChild(t, f)
  PROVE  CreateInv'
<1>1. PICK p, d : p = f.pool /\ d = parent[p]
  OBVIOUS
<1>2. /\ f.pc = "child" /\ f.op = "create" /\ d \in Pools /\ p \in Pools
      /\ child' = [child EXCEPT ![d] = p]
      /\ Replaced(stack[t], stack'[t], [f EXCEPT !.pc = "brother"])
      /\ UNCHANGED <<owner, parent, brother, raced>>
  BY <1>1, TopFrame DEF LinksChild
<1>3. Len(stack[t]) = 1 /\ owner[p] = t
  BY <1>1, <1>2, CreateFrame
<1>4. /\ stack'[t] # <<>> /\ stack'[t][1].pc = "brother" /\ stack'[t][1].pool = p
      /\ stack'[t][1].temp = f.temp
  <2>1. PICK g : g = [f EXCEPT !.pc = "brother"]
    OBVIOUS
  <2>2. g.pc = "brother" /\ g.pool = p /\ g.temp = f.temp
    BY <1>1, <2>1 DEF Frame
  <2>3. stack'[t][1] = g /\ Len(stack'[t]) = 1
    BY <1>2, <1>3, <2>1 DEF Replaced
  <2> QED BY <2>2, <2>3
<1>5. \A x \in Pools : x # p => LinkSame(x)
  <2>1. Quiet(stack[t], p) /\ Quiet(stack'[t], p)
    BY <1>1, <1>4 DEF Quiet
  <2>2. Only(t)
    BY DEF Takes
  <2> QED BY <1>2, <2>1, <2>2, LinkOthers
<1>6. AtChild(p) /\ Saved(p) = f.temp /\ ~ AtBrother(p)
  BY <1>1, <1>2, <1>3 DEF AtChild, AtBrother, In, Saved
<1>7. ~ AtChild(p)' /\ AtBrother(p)' /\ Saved(p)' = f.temp
  BY <1>2, <1>3, <1>4 DEF AtChild, AtBrother, In, Saved
<1>8. SUFFICES ASSUME NEW q \in Pools, q \notin raced' PROVE ChildrenOK(q)'
  BY DEF CreateInv
<1>9. q \notin raced /\ ChildrenOK(q) /\ child \in [Pools -> Pools \cup {NULL}]
  BY <1>2, <1>8, Types DEF CreateInv
<1>10. CASE q # d
  <2>1. \A x \in Pools : parent[x] = q \/ parent'[x] = q =>
           LinkSame(x) /\ parent'[x] = parent[x] /\ brother'[x] = brother[x]
    BY <1>1, <1>2, <1>5, <1>10
  <2>2. child'[q] = child[q]
    BY <1>2, <1>9, <1>10
  <2> QED BY <1>9, <2>1, <2>2, ChildrenSame
<1>11. CASE q = d
  <2>1. parent[p] = q /\ f.temp = child[q]
    BY <1>1, <1>2, <1>6, <1>9, <1>11 DEF ChildrenOK
  <2>2. \A x \in Pools : AtChild(x) /\ parent[x] = q => x = p
    BY <1>2, <1>6, <1>9, <2>1 DEF ChildrenOK
  <2>3. \A x \in Pools : AtChild(x)' /\ parent'[x] = q => FALSE
    BY <1>2, <1>5, <1>7, <2>2 DEF LinkSame
  <2>4. PICK n, s : IsList(child[q], n, s, Bro, Pools) /\ Elems(n, s) = Linked(q)
    BY <1>9 DEF ChildrenOK
  <2>5. \A x \in Elems(n, s) : x \in Pools /\ x # p
    BY <1>6, <2>4 DEF Linked
  <2>6. \A x \in Elems(n, s) : Bro'[x] = Bro[x]
    BY <1>2, <1>5, <2>5, BroSame
  <2>7. IsList(child[q], n, s, Bro', Pools)
    BY <2>4, <2>6, ListFrame
  <2>8. Bro'[p] = child[q]
    BY <1>2, <1>7, <2>1 DEF Bro
  <2>9. p \notin Elems(n, s)
    BY <2>5
  <2>10. /\ IsList(p, n + 1, Pushed(p, n, s), Bro', Pools)
         /\ Elems(n + 1, Pushed(p, n, s)) = Elems(n, s) \cup {p}
    BY <1>2, <2>7, <2>8, <2>9, ListPush
  <2>11. child'[q] = p
    BY <1>2, <1>9, <1>11
  <2>12. Elems(n, s) \cup {p} = {x \in Pools : parent'[x] = q /\ ~ AtChild(x)'}
    <3>1. \A x \in Pools : parent'[x] = q /\ ~ AtChild(x)' <=> x = p \/ (parent[x] = q /\ ~ AtChild(x))
      BY <1>2, <1>5, <1>7, <2>1 DEF LinkSame
    <3> QED BY <1>2, <2>4, <3>1 DEF Linked
  <2> QED BY <2>3, <2>10, <2>11, <2>12 DEF ChildrenOK, Linked
<1> QED BY <1>10, <1>11

LEMMA BrotherPreserves ==
  ASSUME TypeOK, ShapeInv, StacksInv, CreateInv, NEW t \in Threads, Takes(t),
         NEW f \in Frame, stack[t] # <<>>, f = stack[t][1], LinksBrother(t, f)
  PROVE  CreateInv'
<1>1. PICK p : p = f.pool
  OBVIOUS
<1>2. /\ f.pc = "brother" /\ f.op = "create" /\ p \in Pools
      /\ brother' = [brother EXCEPT ![p] = f.temp]
      /\ Popped(stack[t], stack'[t])
      /\ UNCHANGED <<owner, parent, child, raced>>
  BY <1>1, TopFrame DEF LinksBrother
<1>3. Len(stack[t]) = 1 /\ owner[p] = t
  BY <1>1, <1>2, CreateFrame
<1>4. stack'[t] = <<>>
  <2>1. stack'[t] \in Seq(Frame)
    BY DEF Takes
  <2>2. Len(stack'[t]) = 0
    BY <1>2, <1>3 DEF Popped
  <2> QED BY <2>1, <2>2, EmptySeq
<1>5. \A x \in Pools : x # p => LinkSame(x)
  <2>1. Quiet(stack[t], p) /\ Quiet(stack'[t], p)
    BY <1>1, <1>4 DEF Quiet
  <2>2. Only(t)
    BY DEF Takes
  <2> QED BY <1>2, <2>1, <2>2, LinkOthers
<1>6. ~ AtChild(p) /\ AtBrother(p) /\ Saved(p) = f.temp
  BY <1>1, <1>2, <1>3 DEF AtChild, AtBrother, In, Saved
<1>7. ~ AtChild(p)' /\ ~ AtBrother(p)'
  BY <1>2, <1>3, <1>4 DEF AtChild, AtBrother, In
<1>8. \A x \in Pools : Bro'[x] = Bro[x]
  <2>1. brother \in [Pools -> Pools \cup {NULL}]
    BY Types
  <2>2. \A x \in Pools : x # p => brother'[x] = brother[x]
    BY <1>2, <2>1
  <2>3. \A x \in Pools : x # p => Bro'[x] = Bro[x]
    BY <1>5, <2>2, BroSame
  <2>4. Bro[p] = f.temp
    BY <1>2, <1>6 DEF Bro
  <2>5. Bro'[p] = f.temp
    BY <1>2, <1>7, <2>1 DEF Bro
  <2> QED BY <2>3, <2>4, <2>5
<1>9. SUFFICES ASSUME NEW q \in Pools, q \notin raced' PROVE ChildrenOK(q)'
  BY DEF CreateInv
<1>10. ChildrenOK(q)
  BY <1>2, <1>9 DEF CreateInv
<1>11. \A x \in Pools : (AtChild(x)' <=> AtChild(x)) /\ (AtChild(x) => Saved(x)' = Saved(x))
  BY <1>5, <1>6, <1>7 DEF LinkSame
<1>12. PICK n, s : IsList(child[q], n, s, Bro, Pools) /\ Elems(n, s) = Linked(q)
  BY <1>10 DEF ChildrenOK
<1>13. IsList(child'[q], n, s, Bro', Pools)
  <2>1. \A x \in Elems(n, s) : Bro'[x] = Bro[x]
    BY <1>8, <1>12 DEF Linked
  <2> QED BY <1>2, <1>12, <2>1, ListFrame
<1>14. Elems(n, s) = {x \in Pools : parent'[x] = q /\ ~ AtChild(x)'}
  BY <1>2, <1>11, <1>12 DEF Linked
<1>15. \A x, y \in Pools : AtChild(x)' /\ AtChild(y)' /\ parent'[x] = q /\ parent'[y] = q => x = y
  BY <1>2, <1>10, <1>11 DEF ChildrenOK
<1>16. \A x \in Pools : AtChild(x)' /\ parent'[x] = q => Saved(x)' = child'[q]
  BY <1>2, <1>10, <1>11 DEF ChildrenOK
<1> QED BY <1>13, <1>14, <1>15, <1>16 DEF ChildrenOK, Linked

LEMMA CreateInvKept ==
  ASSUME TypeOK, ShapeInv, StacksInv, CreateInv, NEW t \in Threads, Takes(t)
  PROVE  CreateInv'
<1>1. ASSUME \A x \in Pools : LinkSame(x) /\ parent'[x] = parent[x],
             UNCHANGED <<child, brother, raced>>
      PROVE  CreateInv'
  <2>1. SUFFICES ASSUME NEW q \in Pools, q \notin raced' PROVE ChildrenOK(q)'
    BY DEF CreateInv
  <2>2. ChildrenOK(q)
    BY <1>1, <2>1 DEF CreateInv
  <2> QED BY <1>1, <2>2, ChildrenSame
<1> QED BY <1>1, LinkNone, CreatePreserves, LinkPreserves, BrotherPreserves

LEMMA CreateInvIdle ==
  ASSUME CreateInv, UNCHANGED <<owner, parent, child, brother, stack, raced>>
  PROVE  CreateInv'
<1>1. SUFFICES ASSUME NEW q \in Pools, q \notin raced' PROVE ChildrenOK(q)'
  BY DEF CreateInv
<1>2. ChildrenOK(q)
  BY <1>1 DEF CreateInv
<1>3. \A x \in Pools : LinkSame(x)
  BY DEF LinkSame, AtChild, AtBrother, In, Saved
<1> QED BY <1>2, <1>3, ChildrenSame

LEMMA CreateInvInit == Init => CreateInv
<1> SUFFICES ASSUME Init, NEW q \in Pools PROVE ChildrenOK(q)
  BY DEF CreateInv
<1>1. \A x \in Pools : parent[x] = NULL /\ child[x] = 0
  BY DEF Init, NULL
<1>2. q # NULL
  BY PoolFacts
<1>3. Linked(q) = {}
  BY <1>1, <1>2 DEF Linked
<1>4. \E n, s : IsList(child[q], n, s, Bro, Pools) /\ Elems(n, s) = Linked(q)
  <2>1. PICK s : s = [i \in 1..0 |-> 0]
    OBVIOUS
  <2>2. IsList(0, 0, s, Bro, Pools) /\ Elems(0, s) = {}
    BY <2>1, ListEmpty
  <2> QED BY <1>1, <1>3, <2>2
<1> QED BY <1>1, <1>2, <1>4 DEF ChildrenOK

(***************************************************************************)
(* A pool is among the children of its parent from the return of           *)
(* spr_pool_create1 on, whatever the other threads do, unless two threads  *)
(* were between the read and the write of the parent's child pointer in    *)
(* spr_pool_add_child, which takes no lock, at the same time.              *)
(***************************************************************************)
THEOREM ChildrenFound == Spec => []NoChildLost
<1>1. BaseInv /\ CreateInv => NoChildLost
  <2> SUFFICES ASSUME BaseInv, CreateInv, NEW p \in Pools, parent[p] # NULL, parent[p] \notin raced,
                      \A t \in Threads : stack[t] # <<>> => Top(t).op # "create"
               PROVE  p \in Children(parent[p])
    BY DEF NoChildLost
  <2>1. TypeOK /\ ShapeInv /\ StacksInv
    BY DEF BaseInv
  <2>2. PICK q \in Pools : q = parent[p]
    BY <2>1, Types
  <2>3. \A x \in Pools : ~ AtChild(x) /\ ~ AtBrother(x)
    <3>1. SUFFICES ASSUME NEW x \in Pools, AtChild(x) \/ AtBrother(x) PROVE FALSE
      OBVIOUS
    <3>2. PICK t \in Threads : t = owner[x]
      BY <2>1, Types
    <3>3. stack[t] # <<>> /\ stack[t][1].pc \in {"child", "brother"}
      BY <3>1, <3>2 DEF AtChild, AtBrother, In
    <3>4. stack[t][1].op = "create" /\ Top(t) = stack[t][1]
      BY <2>1, <3>3, CreateFrame, TopFrame
    <3> QED BY <3>3, <3>4
  <2>4. brother \in [Pools -> Pools \cup {NULL}]
    BY <2>1, Types
  <2>5. Bro = brother
    BY <2>3, <2>4 DEF Bro
  <2>6. PICK n, s : IsList(child[q], n, s, brother, Pools) /\ Elems(n, s) = Linked(q)
    BY <2>2, <2>5 DEF CreateInv, ChildrenOK
  <2>7. p \in Elems(n, s)
    BY <2>2, <2>3, <2>6 DEF Linked
  <2>8. IsFiniteSet(Pools) /\ 0 \notin Pools /\ DOMAIN brother = Pools /\ MaxPools \in Nat
        /\ MaxPools >= Cardinality(Pools) /\ NULL = 0
    BY <2>4, PoolFacts
  <2>9. {Way(child[q], brother, MaxPools)[k] : k \in 0..MaxPools} \ {0} = Elems(n, s)
    BY <2>6, <2>8, ListWay
  <2> QED BY <2>2, <2>7, <2>8, <2>9 DEF Children
<1>2. Init => CreateInv
  BY CreateInvInit
<1>3. BaseInv /\ CreateInv /\ [Next]_vars => CreateInv'
  <2> SUFFICES ASSUME BaseInv, CreateInv, [Next]_vars PROVE CreateInv'
    OBVIOUS
  <2>1. TypeOK /\ ShapeInv /\ StacksInv
    BY DEF BaseInv
  <2>2. CASE Idle
    <3>1. UNCHANGED <<owner, parent, child, brother, stack, raced>>
      BY <2>2 DEF Idle
    <3> QED BY <3>1, CreateInvIdle
  <2> QED BY <2>1, <2>2, NextTakes, CreateInvKept
<1> QED BY <1>1, <1>2, <1>3, BaseAlways, PTL DEF Spec


-----------------------------------------------------------------------------
(* A tree that one thread, o, has created and uses.                        *)

Finished(o, op, y) == IF op = "destroy" THEN state[y] = "freed" ELSE y \in done[o]

(* What frame k of the stack s has still to visit are the elements of a    *)
(* list, all of them alive; every other child of its pool was visited, but *)
(* for the one that the frame above is at.                                 *)
ToVisit(o, s, k, n, l) ==
  /\ IsList(s[k].temp, n, l, brother, Pools)
  /\ \A x \in Elems(n, l) : /\ parent[x] = s[k].pool /\ state[x] = "live"
                            /\ k > 1 => x # s[k - 1].pool
  /\ \A y \in Pools : parent[y] = s[k].pool =>
       y \in Elems(n, l) \/ Finished(o, s[k].op, y) \/ (k > 1 /\ y = s[k - 1].pool)

VisitOK(o, s, k) ==
  /\ state[s[k].pool] = "live"
  /\ s[k].op = "create" => state[parent[s[k].pool]] = "live"
  /\ s[k].op = "destroy" /\ k = Len(s) => parent[s[k].pool] = NULL
  /\ s[k].op = "clear" => \A y \in Pools : mutex[y] = mutex[s[k].pool] /\ parent[y] \in done[o]
                                             => y \in done[o]
  /\ s[k].pc = "walk" => \E n, l : ToVisit(o, s, k, n, l)

VisitsOK(o, s) == \A k \in 1..Len(s) : VisitOK(o, s, k)

InTree(s, r) == s # <<>> /\ mutex[s[1].pool] = r

Destroying(s, p) ==
  \E k \in 1..Len(s) : s[k].pool = p /\ s[k].op = "destroy" /\ s[k].pc = "walk"

(* Nobody but o is at work in the tree; what is below a freed pool is      *)
(* freed, and a pool is freed before the one above it only while the one   *)
(* above it is destroyed.                                                  *)
TreeOK(r, o) ==
  /\ \A t \in Threads : InTree(stack[t], r) => t = o
  /\ \A x \in raced : mutex[x] # r
  /\ \A y \in Pools : parent[y] # NULL /\ mutex[y] = r /\ state[y] # "freed" =>
       state[parent[y]] # "freed"
  /\ \A y \in Pools : /\ parent[y] # NULL /\ mutex[y] = r
                      /\ state[y] = "freed" /\ state[parent[y]] # "freed"
                      => InTree(stack[o], r) /\ Destroying(stack[o], parent[y])
  /\ InTree(stack[o], r) => VisitsOK(o, stack[o])

CleanRoot(r) == Used(r) /\ mutex[r] = r /\ Clean(r)
CleanInv     == \A r \in Pools : CleanRoot(r) => TreeOK(r, owner[r])

LEMMA StateValues ==
  ASSUME TypeOK, NEW p \in Pools
  PROVE  /\ state[p] \in {"unused", "live", "freed"}
         /\ (Used(p) <=> state[p] \in {"live", "freed"})
         /\ (Live(p) <=> state[p] = "live")
BY Types, PoolFacts DEF Used, Live

(* Every frame of a stack is in the tree that the innermost one is in.     *)
LEMMA StackInTree ==
  ASSUME TypeOK, StacksInv, NEW t \in Threads, NEW k \in 1..Len(stack[t]), NEW r
  PROVE  /\ stack[t] # <<>> /\ stack[t][k] \in Frame /\ stack[t][k].pool \in Pools
         /\ Used(stack[t][k].pool) /\ FrameOK(t, stack[t][k])
         /\ (InTree(stack[t], r) <=> mutex[stack[t][k].pool] = r)
<1>1. stack[t] \in Seq(Frame)
  BY Types
<1>2. stack[t][k] \in Frame /\ stack[t] # <<>>
  <2>1. stack[t][k] \in Frame
    BY <1>1, ElementOfSeq
  <2>2. Len(stack[t]) # 0
    <3>1. Len(stack[t]) \in Nat
      BY <1>1, LenProperties
    <3> QED BY <3>1
  <2> QED BY <1>1, <2>1, <2>2, EmptySeq
<1>3. 1 \in 1..Len(stack[t])
  BY <1>1, <1>2, StackTop
<1>4. mutex[stack[t][k].pool] = mutex[stack[t][1].pool]
  BY <1>3 DEF StacksInv, StackOK
<1>5. FrameOK(t, stack[t][k])
  BY DEF StacksInv, StackOK
<1> QED BY <1>2, <1>4, <1>5 DEF InTree, FrameOK, Frame

(* A tree that was there before was clean before.                          *)
LEMMA CleanBack ==
  ASSUME TypeOK, ShapeInv, Keeps, mixed \subseteq mixed', NEW r \in Pools, CleanRoot(r)', Used(r)
  PROVE  CleanRoot(r) /\ owner'[r] = owner[r]
<1>1. owner'[r] = owner[r] /\ mutex'[r] = mutex[r]
  BY DEF Keeps
<1>2. r \notin mixed /\ mutex[r] = r
  BY <1>1 DEF CleanRoot, Clean
<1>3. ASSUME NEW p \in Members(r) PROVE owner[p] = owner[r]
  <2>1. p \in Pools /\ Used(p) /\ mutex[p] = r
    BY DEF Members, Used
  <2>2. Used(p)' /\ mutex'[p] = r /\ owner'[p] = owner[p]
    BY <2>1 DEF Keeps
  <2>3. p \in Members(r)'
    BY <2>1, <2>2 DEF Members, Used
  <2>4. owner'[p] = owner'[r]
    BY <2>3 DEF CleanRoot, Clean
  <2> QED BY <1>1, <2>2, <2>4
<1> QED BY <1>1, <1>2, <1>3 DEF CleanRoot, Clean

(* A step elsewhere.                                                       *)
SameTree(r) ==
  /\ \A z \in Pools : Used(z) /\ mutex[z] = r =>
       /\ Used(z)' /\ mutex'[z] = r /\ state'[z] = state[z]
       /\ parent'[z] = parent[z] /\ brother'[z] = brother[z]
  /\ \A z \in Pools : Used(z)' /\ mutex'[z] = r => Used(z) /\ mutex[z] = r

LEMMA VisitSame ==
  ASSUME TypeOK, ShapeInv, StacksInv, ShapeInv', NEW r \in Pools, SameTree(r), NEW o \in Threads,
         InTree(stack[o], r), done'[o] = done[o], NEW k \in 1..Len(stack[o]),
         NEW s, s = stack[o], VisitOK(o, s, k)
  PROVE  VisitOK(o, s, k)'
<1>1. s[k].pool \in Pools /\ Used(s[k].pool) /\ mutex[s[k].pool] = r /\ FrameOK(o, s[k])
  BY StackInTree
<1>2. /\ mutex'[s[k].pool] = r /\ state'[s[k].pool] = state[s[k].pool]
      /\ parent'[s[k].pool] = parent[s[k].pool]
  BY <1>1 DEF SameTree
<1>3. parent \in [Pools -> Pools \cup {NULL}] /\ NULL \notin Pools
  BY Types, PoolFacts
<1>4. \A y \in Pools : parent[y] # NULL /\ mutex[y] = r =>
        /\ Used(y) /\ Used(parent[y]) /\ mutex[parent[y]] = r /\ parent[y] \in Pools
  BY <1>3 DEF ShapeInv
<1>5. \A y \in Pools : parent[y] # NULL /\ mutex[y] = r => state'[parent[y]] = state[parent[y]]
  BY <1>4 DEF SameTree
<1>6. s[k].op = "create" => state'[parent'[s[k].pool]] = "live"
  BY <1>1, <1>2, <1>5 DEF VisitOK, FrameOK
<1>7. \A y \in Pools : parent'[y] = s[k].pool =>
        Used(y) /\ mutex[y] = r /\ parent[y] = s[k].pool /\ state'[y] = state[y]
  <2>1. SUFFICES ASSUME NEW y \in Pools, parent'[y] = s[k].pool
                 PROVE  Used(y) /\ mutex[y] = r /\ parent[y] = s[k].pool /\ state'[y] = state[y]
    OBVIOUS
  <2>2. parent'[y] # NULL
    BY <1>1, <1>3, <2>1
  <2>3. Used(y)' /\ mutex'[parent'[y]] = mutex'[y]
    BY <2>2 DEF ShapeInv
  <2>4. Used(y) /\ mutex[y] = r
    BY <1>2, <2>1, <2>3 DEF SameTree
  <2> QED BY <2>1, <2>4 DEF SameTree
<1>8. s[k].op = "clear" => \A y \in Pools : mutex'[y] = mutex'[s[k].pool] /\ parent'[y] \in done'[o]
                                             => y \in done'[o]
  <2>1. SUFFICES ASSUME s[k].op = "clear", NEW y \in Pools, mutex'[y] = r, parent'[y] \in done[o]
                 PROVE  y \in done[o]
    BY <1>2
  <2>2. done[o] \subseteq Pools
    BY Types
  <2>3. parent'[y] # NULL
    BY <1>3, <2>1, <2>2
  <2>4. Used(y)'
    BY <2>3 DEF ShapeInv
  <2>5. Used(y) /\ mutex[y] = r /\ parent'[y] = parent[y]
    BY <2>1, <2>4 DEF SameTree
  <2> QED BY <1>1, <2>1, <2>5 DEF VisitOK
<1>9. s[k].pc = "walk" => (\E n, l : ToVisit(o, s, k, n, l))'
  <2>1. SUFFICES ASSUME s[k].pc = "walk" PROVE (\E n, l : ToVisit(o, s, k, n, l))'
    OBVIOUS
  <2>2. PICK n, l : ToVisit(o, s, k, n, l)
    BY <2>1 DEF VisitOK
  <2>3. \A x \in Elems(n, l) : x \in Pools /\ parent[x] = s[k].pool /\ Used(x) /\ mutex[x] = r
    <3>1. \A x \in Elems(n, l) : x \in Pools /\ parent[x] = s[k].pool
      BY <2>2 DEF ToVisit, IsList, Elems
    <3> QED BY <1>1, <1>3, <3>1 DEF ShapeInv
  <2>4. IsList(s[k].temp, n, l, brother', Pools)
    <3>1. \A x \in Elems(n, l) : brother'[x] = brother[x]
      BY <2>3 DEF SameTree
    <3> QED BY <2>2, <3>1, ListFrame DEF ToVisit
  <2>5. \A x \in Elems(n, l) : /\ parent'[x] = s[k].pool /\ state'[x] = "live"
                               /\ k > 1 => x # s[k - 1].pool
    BY <2>2, <2>3 DEF SameTree, ToVisit
  <2>6. \A y \in Pools : parent'[y] = s[k].pool =>
          y \in Elems(n, l) \/ Finished(o, s[k].op, y)' \/ (k > 1 /\ y = s[k - 1].pool)
    BY <1>7, <2>2 DEF ToVisit, Finished
  <2>7. ToVisit(o, s, k, n, l)'
    BY <2>4, <2>5, <2>6 DEF ToVisit
  <2> QED BY <2>7
<1>10. s[k].op = "destroy" /\ k = Len(s) => parent'[s[k].pool] = NULL
  BY <1>2 DEF VisitOK
<1> QED BY <1>2, <1>6, <1>8, <1>9, <1>10 DEF VisitOK

(* What is to show after a step.                                           *)
LEMMA TreeNext ==
  ASSUME NEW r, NEW o
  PROVE  TreeOK(r, o)' <=>
       /\ \A t \in Threads : InTree(stack[t], r)' => t = o
       /\ \A x \in raced' : mutex'[x] # r
       /\ \A y \in Pools : parent'[y] # NULL /\ mutex'[y] = r /\ state'[y] # "freed" =>
            state'[parent'[y]] # "freed"
       /\ \A y \in Pools : /\ parent'[y] # NULL /\ mutex'[y] = r
                           /\ state'[y] = "freed" /\ state'[parent'[y]] # "freed"
                           => InTree(stack[o], r)' /\ Destroying(stack'[o], parent'[y])
       /\ InTree(stack[o], r)' => VisitsOK(o, stack[o])'
BY DEF TreeOK, Destroying

LEMMA VisitsNext ==
  ASSUME NEW o, NEW s, s = stack'[o], \A k \in 1..Len(s) : VisitOK(o, s, k)'
  PROVE  VisitsOK(o, stack[o])'
BY DEF VisitsOK, VisitOK, ToVisit, Finished

LEMMA TreeSame ==
  ASSUME TypeOK, ShapeInv, StacksInv, TypeOK', ShapeInv', NEW r \in Pools, NEW o \in Threads,
         TreeOK(r, o), SameTree(r),
         \A x \in raced' : x \in raced \/ mutex'[x] # r,
         \A u \in Threads : InTree(stack[u], r)' => InTree(stack[u], r),
         \/ stack'[o] = stack[o] /\ done'[o] = done[o]
         \/ ~ InTree(stack[o], r) /\ ~ InTree(stack[o], r)'
  PROVE  TreeOK(r, o)'
<1>1. parent \in [Pools -> Pools \cup {NULL}] /\ parent' \in [Pools -> Pools \cup {NULL}]
      /\ raced \subseteq Pools /\ NULL \notin Pools
  BY Types, PoolFacts DEF TypeOK
<1>2. \A u \in Threads : InTree(stack[u], r)' => u = o
  BY DEF TreeOK
<1>3. \A x \in raced' : mutex'[x] # r
  <2>1. SUFFICES ASSUME NEW x \in raced', mutex'[x] = r, x \in raced PROVE FALSE
    OBVIOUS
  <2>2. x \in Pools /\ Used(x)
    BY <1>1, <2>1 DEF ShapeInv
  <2>3. mutex[x] # r
    BY <2>1 DEF TreeOK
  <2>4. Used(x)'
    BY <1>1, <2>1, <2>2 DEF ShapeInv
  <2> QED BY <2>1, <2>2, <2>3, <2>4 DEF SameTree
<1>4. \A y \in Pools : parent'[y] # NULL /\ mutex'[y] = r =>
        /\ Used(y) /\ parent'[y] = parent[y] /\ mutex[y] = r /\ state'[y] = state[y]
        /\ parent[y] \in Pools /\ state'[parent[y]] = state[parent[y]]
  <2>1. SUFFICES ASSUME NEW y \in Pools, parent'[y] # NULL, mutex'[y] = r
                 PROVE  /\ Used(y) /\ parent'[y] = parent[y] /\ mutex[y] = r /\ state'[y] = state[y]
                        /\ parent[y] \in Pools /\ state'[parent[y]] = state[parent[y]]
    OBVIOUS
  <2>2. Used(y)'
    BY <2>1 DEF ShapeInv
  <2>3. Used(y) /\ mutex[y] = r
    BY <2>1, <2>2 DEF SameTree
  <2>4. parent'[y] = parent[y] /\ state'[y] = state[y]
    BY <2>3 DEF SameTree
  <2>5. parent[y] \in Pools /\ Used(parent[y]) /\ mutex[parent[y]] = r
    BY <1>1, <2>1, <2>3, <2>4 DEF ShapeInv
  <2>6. state'[parent[y]] = state[parent[y]]
    BY <2>5 DEF SameTree
  <2> QED BY <2>3, <2>4, <2>5, <2>6
<1>5. \A y \in Pools : parent'[y] # NULL /\ mutex'[y] = r /\ state'[y] # "freed" =>
        state'[parent'[y]] # "freed"
  BY <1>4 DEF TreeOK
<1>6. InTree(stack[o], r) => stack'[o] = stack[o] /\ done'[o] = done[o]
  OBVIOUS
<1>7. InTree(stack[o], r) => InTree(stack[o], r)'
  <2>1. SUFFICES ASSUME InTree(stack[o], r) PROVE InTree(stack[o], r)'
    OBVIOUS
  <2>2. 1 \in 1..Len(stack[o])
    BY <2>1, Types, StackTop DEF InTree
  <2>3. stack[o][1].pool \in Pools /\ Used(stack[o][1].pool) /\ mutex[stack[o][1].pool] = r
    BY <2>1, <2>2, StackInTree
  <2>4. mutex'[stack[o][1].pool] = r
    BY <2>3 DEF SameTree
  <2> QED BY <1>6, <2>1, <2>4 DEF InTree
<1>8. ASSUME NEW y \in Pools, parent'[y] # NULL, mutex'[y] = r,
             state'[y] = "freed", state'[parent'[y]] # "freed"
      PROVE  InTree(stack[o], r)' /\ Destroying(stack'[o], parent'[y])
  <2>1. InTree(stack[o], r) /\ Destroying(stack[o], parent[y])
    BY <1>4, <1>8 DEF TreeOK
  <2>2. stack'[o] = stack[o] /\ parent'[y] = parent[y]
    BY <1>4, <1>6, <1>8, <2>1
  <2> QED BY <1>7, <2>1, <2>2
<1>9. InTree(stack[o], r)' => VisitsOK(o, stack[o])'
  <2>1. SUFFICES ASSUME InTree(stack[o], r)' PROVE VisitsOK(o, stack[o])'
    OBVIOUS
  <2>2. InTree(stack[o], r)
    BY <2>1
  <2>3. PICK s : s = stack[o]
    OBVIOUS
  <2>4. \A k \in 1..Len(stack[o]) : VisitOK(o, s, k)
    BY <2>2, <2>3 DEF TreeOK, VisitsOK
  <2>5. \A k \in 1..Len(stack[o]) : VisitOK(o, s, k)'
    BY <1>6, <2>2, <2>3, <2>4, VisitSame
  <2>6. stack'[o] = s
    BY <1>6, <2>2, <2>3
  <2>7. \A k \in 1..Len(s) : VisitOK(o, s, k)'
    BY <2>3, <2>5
  <2> QED BY <2>6, <2>7, VisitsNext
<1> QED BY <1>2, <1>3, <1>5, <1>8, <1>9, TreeNext

(* A pool created without a parent is a tree of its own.                   *)
LEMMA TreeFresh ==
  ASSUME TypeOK, ShapeInv, StacksInv, TypeOK', ShapeInv', Keeps, NEW r \in Pools, NEW o \in Threads,
         ~ Used(r), \A z \in Pools : z # r /\ Used(z)' => Used(z),
         parent'[r] = NULL, UNCHANGED <<stack, raced>>
  PROVE  TreeOK(r, o)'
<1>1. \A z \in Pools : Used(z) => mutex'[z] # r
  BY DEF Keeps, ShapeInv
<1>2. \A u \in Threads : ~ InTree(stack[u], r)'
  <2>1. SUFFICES ASSUME NEW u \in Threads, stack[u] # <<>>, mutex'[stack[u][1].pool] = r PROVE FALSE
    BY DEF InTree
  <2>2. 1 \in 1..Len(stack[u])
    BY <2>1, Types, StackTop
  <2>3. stack[u][1].pool \in Pools /\ Used(stack[u][1].pool)
    BY <2>2, StackInTree
  <2> QED BY <1>1, <2>1, <2>3
<1>3. \A x \in raced' : mutex'[x] # r
  BY <1>1, Types DEF ShapeInv
<1>4. \A y \in Pools : parent'[y] # NULL => mutex'[y] # r
  <2>1. SUFFICES ASSUME NEW y \in Pools, parent'[y] # NULL PROVE mutex'[y] # r
    OBVIOUS
  <2>2. y # r /\ Used(y)'
    BY <2>1 DEF ShapeInv
  <2> QED BY <1>1, <2>2
<1> QED BY <1>2, <1>3, <1>4, TreeNext

(* The thread of the tree creates a pool in it.                            *)
LEMMA TreeCreate ==
  ASSUME TypeOK, ShapeInv, StacksInv, TypeOK', ShapeInv', Keeps, NEW r \in Pools, NEW o \in Threads,
         TreeOK(r, o), NEW par \in Pools, NEW p \in Pools, CreatesChild(o, par, p), Only(o),
         mutex[par] = r
  PROVE  TreeOK(r, o)'
<1>1. /\ stack[o] = <<>> /\ ~ Used(p) /\ Live(par)
      /\ state' = [state EXCEPT ![p] = "live"] /\ parent' = [parent EXCEPT ![p] = par]
      /\ raced' = IF Linking(par) THEN raced \cup {par} ELSE raced
      /\ mutex' = [mutex EXCEPT ![p] = r]
      /\ stack'[o] = <<NewFrame(p, child[par])>>
  BY DEF CreatesChild, Creates
<1>2. /\ state \in [Pools -> {"unused", "live", "freed"}] /\ parent \in [Pools -> Pools \cup {NULL}]
      /\ mutex \in [Pools -> Pools \cup {NULL}] /\ raced \subseteq Pools /\ NULL \notin Pools
  BY Types, PoolFacts
<1>3. /\ \A x \in Pools : x # p => state'[x] = state[x] /\ parent'[x] = parent[x] /\ mutex'[x] = mutex[x]
      /\ state'[p] = "live" /\ parent'[p] = par /\ par # p
  BY <1>1, <1>2, LiveUsed
<1>4. \A u \in Threads : InTree(stack[u], r)' => u = o
  <2>1. SUFFICES ASSUME NEW u \in Threads, u # o, stack'[u] # <<>>, mutex'[stack'[u][1].pool] = r
                 PROVE  FALSE
    BY DEF InTree
  <2>2. stack'[u] = stack[u]
    BY <2>1 DEF Only
  <2>3. 1 \in 1..Len(stack[u])
    BY <2>1, <2>2, Types, StackTop
  <2>4. stack[u][1].pool \in Pools /\ Used(stack[u][1].pool)
    BY <2>3, StackInTree
  <2>5. mutex'[stack[u][1].pool] = mutex[stack[u][1].pool]
    BY <2>4 DEF Keeps
  <2> QED BY <2>1, <2>2, <2>5 DEF TreeOK, InTree
<1>5. ~ Linking(par)
  <2>1. SUFFICES ASSUME NEW u \in Threads, stack[u] # <<>>, Top(u).pc = "child",
                        parent[Top(u).pool] = par
                 PROVE  FALSE
    BY DEF Linking
  <2>2. Top(u) = stack[u][1] /\ Top(u).pool \in Pools
    BY <2>1, TopFrame
  <2>3. mutex[stack[u][1].pool] = r
    BY <1>2, <2>1, <2>2 DEF ShapeInv
  <2> QED BY <1>1, <2>1, <2>3 DEF TreeOK, InTree
<1>6. \A x \in raced' : mutex'[x] # r
  <2>1. SUFFICES ASSUME NEW x \in raced PROVE mutex'[x] # r
    BY <1>1, <1>5
  <2>2. x \in Pools /\ Used(x) /\ mutex[x] # r
    BY <1>2 DEF ShapeInv, TreeOK
  <2> QED BY <2>2 DEF Keeps
<1>7. \A y \in Pools : y # p /\ parent'[y] # NULL /\ mutex'[y] = r =>
        /\ parent[y] # NULL /\ mutex[y] = r /\ state'[y] = state[y]
        /\ parent'[y] = parent[y] /\ state'[parent[y]] = state[parent[y]]
  <2>1. SUFFICES ASSUME NEW y \in Pools, y # p, parent[y] # NULL
                 PROVE  state'[parent[y]] = state[parent[y]]
    BY <1>3
  <2>2. parent[y] \in Pools /\ Used(parent[y])
    BY <1>2, <2>1 DEF ShapeInv
  <2> QED BY <1>1, <1>3, <2>2
<1>8. \A y \in Pools : parent'[y] # NULL /\ mutex'[y] = r /\ state'[y] # "freed" =>
        state'[parent'[y]] # "freed"
  <2>1. SUFFICES ASSUME NEW y \in Pools, parent'[y] # NULL, mutex'[y] = r, state'[y] # "freed"
                 PROVE  state'[parent'[y]] # "freed"
    OBVIOUS
  <2>2. CASE y = p
    <3>1. state[par] = "live"
      BY <1>1 DEF Live
    <3> QED BY <1>3, <2>2, <3>1
  <2>3. CASE y # p
    BY <1>7, <2>1, <2>3 DEF TreeOK
  <2> QED BY <2>2, <2>3
<1>9. \A y \in Pools : ~ (/\ parent'[y] # NULL /\ mutex'[y] = r
                          /\ state'[y] = "freed" /\ state'[parent'[y]] # "freed")
  <2>1. SUFFICES ASSUME NEW y \in Pools, parent'[y] # NULL, mutex'[y] = r,
                        state'[y] = "freed", state'[parent'[y]] # "freed"
                 PROVE  FALSE
    OBVIOUS
  <2>2. y # p
    BY <1>3, <2>1
  <2>3. InTree(stack[o], r)
    BY <1>7, <2>1, <2>2 DEF TreeOK
  <2> QED BY <1>1, <2>3 DEF InTree
<1>10. VisitsOK(o, stack[o])'
  <2>1. PICK g : g = NewFrame(p, child[par])
    OBVIOUS
  <2>2. PICK s : s = <<g>>
    OBVIOUS
  <2>3. s = stack'[o] /\ Len(s) = 1 /\ s[1] = g /\ g.op = "create" /\ g.pc = "child" /\ g.pool = p
    BY <1>1, <2>1, <2>2 DEF NewFrame
  <2>4. state'[p] = "live" /\ state'[parent'[p]] = "live"
    BY <1>1, <1>3 DEF Live
  <2>5. VisitOK(o, s, 1)'
    BY <2>3, <2>4 DEF VisitOK
  <2>6. \A k \in 1..Len(s) : VisitOK(o, s, k)'
    <3>1. \A k \in 1..Len(s) : k = 1
      BY <2>3
    <3> QED BY <2>5, <3>1
  <2> QED BY <2>3, <2>6, VisitsNext
<1> QED BY <1>4, <1>6, <1>8, <1>9, <1>10, TreeNext

(* The thread of the tree calls spr_pool_clear, or destroys the root.      *)
LEMMA TreeCall ==
  ASSUME TypeOK, ShapeInv, StacksInv, NEW r \in Pools, NEW o \in Threads, TreeOK(r, o),
         NEW op \in {"clear", "destroy"}, NEW p \in Pools, Calls(o, op, p), Only(o), mutex[p] = r,
         op = "destroy" => parent[p] = NULL
  PROVE  TreeOK(r, o)'
<1>1. /\ stack[o] = <<>> /\ Live(p) /\ stack'[o] = <<Enter(op, p)>>
      /\ done' = [done EXCEPT ![o] = {}]
      /\ UNCHANGED <<state, owner, mutex, parent, child, brother, raced>>
  BY DEF Calls
<1>2. ~ InTree(stack[o], r)
  BY <1>1 DEF InTree
<1>3. \A u \in Threads : InTree(stack[u], r)' => u = o
  BY <1>1 DEF TreeOK, InTree, Only
<1>4. VisitsOK(o, stack[o])'
  <2>1. PICK g : g = Enter(op, p)
    OBVIOUS
  <2>2. PICK s : s = <<g>>
    OBVIOUS
  <2>3. s = stack'[o] /\ Len(s) = 1 /\ s[1] = g /\ g.op = op /\ g.pc = "enter" /\ g.pool = p
    BY <1>1, <2>1, <2>2 DEF Enter
  <2>4. done'[o] = {} /\ state'[p] = "live"
    BY <1>1, Types DEF Live
  <2>5. VisitOK(o, s, 1)'
    BY <1>1, <2>3, <2>4 DEF VisitOK
  <2>6. \A k \in 1..Len(s) : VisitOK(o, s, k)'
    <3>1. \A k \in 1..Len(s) : k = 1
      BY <2>3
    <3> QED BY <2>5, <3>1
  <2> QED BY <2>3, <2>6, VisitsNext
<1>5. \A y \in Pools : ~ (/\ parent[y] # NULL /\ mutex[y] = r
                          /\ state[y] = "freed" /\ state[parent[y]] # "freed")
  BY <1>2 DEF TreeOK
<1>6. \A y \in Pools : parent[y] # NULL /\ mutex[y] = r /\ state[y] # "freed" =>
        state[parent[y]] # "freed"
  BY DEF TreeOK
<1>7. \A x \in raced : mutex[x] # r
  BY DEF TreeOK
<1> QED BY <1>1, <1>3, <1>4, <1>5, <1>6, <1>7, TreeNext

-----------------------------------------------------------------------------
(* The steps that the thread of a tree takes inside of it.                 *)

LEMMA GoesInTree ==
  ASSUME TypeOK, ShapeInv, StacksInv, NEW t \in Threads, NEW f \in Frame, stack[t] # <<>>,
         f = stack[t][1], Goes(t, f), stack' \in [Threads -> Seq(Frame)], stack'[t] # <<>>
  PROVE  mutex[stack'[t][1].pool] = mutex[f.pool]
<1>1. PICK v : v = stack'[t]
  OBVIOUS
<1>2. v \in Seq(Frame) /\ v # <<>> /\ StackOK(t, v)
  BY <1>1, OwnStack
<1>3. Len(v) \in Nat /\ 1 \in 1..Len(v)
  BY <1>2, StackTop
<1>4. stack[t] \in Seq(Frame) /\ Len(stack[t]) \in Nat /\ 1 \in 1..Len(stack[t])
  BY Types, StackTop
<1>5. CASE LinksBrother(t, f) \/ Refused(t, f) \/ Cleared(t, f) \/ Destroyed(t, f)
  <2>1. Popped(stack[t], v)
    BY <1>1, <1>5 DEF LinksBrother, Refused, Cleared, Destroyed
  <2>2. v[1] = stack[t][2] /\ 2 \in 1..Len(stack[t])
    BY <1>3, <1>4, <2>1 DEF Popped
  <2>3. mutex[stack[t][2].pool] = mutex[stack[t][1].pool]
    BY <1>4, <2>2 DEF StacksInv, StackOK
  <2> QED BY <1>1, <2>2, <2>3
<1>6. CASE LinksChild(t, f) \/ Begins(t, f)
  <2>1. v[1].pool = f.pool
    BY <1>1, <1>6 DEF LinksChild, Begins, Replaced, Frame
  <2> QED BY <1>1, <2>1
<1>7. CASE Visits(t, f)
  <2>1. v[1].pool = f.temp /\ f.temp \in Pools /\ f.pc = "walk"
    BY <1>1, <1>7 DEF Visits, Grown, Enter
  <2>2. parent[f.temp] = f.pool /\ f.pool \in Pools
    BY <2>1, TopFrame, PoolFacts DEF FrameOK
  <2>3. mutex[f.pool] = mutex[f.temp]
    BY <2>1, <2>2, PoolFacts, SMTT(30) DEF ShapeInv
  <2> QED BY <1>1, <2>1, <2>3
<1> QED BY <1>5, <1>6, <1>7 DEF Goes

(* What is left to show for a step inside the tree.                        *)
LEMMA TreeGoes ==
  ASSUME TypeOK, ShapeInv, StacksInv, NEW r \in Pools, NEW o \in Threads, TreeOK(r, o),
         NEW f \in Frame, stack[o] # <<>>, f = stack[o][1], mutex[f.pool] = r, Goes(o, f), Only(o),
         stack' \in [Threads -> Seq(Frame)],
         \A y \in Pools : parent[y] # NULL /\ mutex[y] = r /\ state'[y] # "freed" =>
           state'[parent[y]] # "freed",
         \A y \in Pools : /\ parent[y] # NULL /\ mutex[y] = r
                          /\ state'[y] = "freed" /\ state'[parent[y]] # "freed"
                          => stack'[o] # <<>> /\ Destroying(stack'[o], parent[y]),
         stack'[o] # <<>> => VisitsOK(o, stack[o])'
  PROVE  TreeOK(r, o)'
<1>1. UNCHANGED <<mutex, parent, raced>>
  BY GoesKeeps
<1>2. stack'[o] # <<>> => InTree(stack[o], r)'
  BY <1>1, GoesInTree DEF InTree
<1>3. \A u \in Threads : InTree(stack[u], r)' => u = o
  BY <1>1 DEF TreeOK, InTree, Only
<1>4. \A x \in raced : mutex[x] # r
  BY DEF TreeOK
<1>5. InTree(stack[o], r)' => stack'[o] # <<>>
  BY DEF InTree
<1>6. \A y \in Pools : /\ parent'[y] # NULL /\ mutex'[y] = r
                       /\ state'[y] = "freed" /\ state'[parent'[y]] # "freed"
                       => InTree(stack[o], r)' /\ Destroying(stack'[o], parent'[y])
  BY <1>1, <1>2
<1>7. \A y \in Pools : parent'[y] # NULL /\ mutex'[y] = r /\ state'[y] # "freed" =>
        state'[parent'[y]] # "freed"
  BY <1>1
<1>8. \A x \in raced' : mutex'[x] # r
  BY <1>1, <1>4
<1>9. InTree(stack[o], r)' => VisitsOK(o, stack[o])'
  BY <1>5
<1> QED BY <1>3, <1>6, <1>7, <1>8, <1>9, TreeNext

(* A frame that is found elsewhere in the stack.                           *)
LEMMA VisitMoved ==
  ASSUME NEW o, NEW s, NEW j, VisitOK(o, s, j), NEW v, NEW k, v[k] = s[j],
         k > 1 <=> j > 1, k > 1 => v[k - 1].pool = s[j - 1].pool, k = Len(v) => j = Len(s)
  PROVE  VisitOK(o, v, k)
<1>1. ASSUME NEW n, NEW l, ToVisit(o, s, j, n, l) PROVE ToVisit(o, v, k, n, l)
  BY <1>1 DEF ToVisit
<1> QED BY <1>1 DEF VisitOK

LEMMA VisitStays ==
  ASSUME NEW o, NEW s, NEW k, VisitOK(o, s, k), UNCHANGED <<state, parent, mutex, brother, done>>
  PROVE  VisitOK(o, s, k)'
BY DEF VisitOK, ToVisit, Finished

(* A step that frees and clears nothing.                                   *)
LEMMA TreeQuiet ==
  ASSUME TypeOK, ShapeInv, StacksInv, NEW r \in Pools, NEW o \in Threads, TreeOK(r, o),
         NEW f \in Frame, stack[o] # <<>>, f = stack[o][1], mutex[f.pool] = r, Goes(o, f), Only(o),
         stack' \in [Threads -> Seq(Frame)], UNCHANGED <<state, done, brother>>,
         \A p \in Pools : Destroying(stack[o], p) => stack'[o] # <<>> /\ Destroying(stack'[o], p),
         NEW v, v = stack'[o], \A k \in 1..Len(v) : VisitOK(o, v, k)
  PROVE  TreeOK(r, o)'
<1>1. UNCHANGED <<mutex, parent, raced>>
  BY GoesKeeps
<1>2. \A k \in 1..Len(v) : VisitOK(o, v, k)'
  BY <1>1, VisitStays
<1>3. VisitsOK(o, stack[o])'
  BY <1>2, VisitsNext
<1>4. \A y \in Pools : parent[y] # NULL /\ mutex[y] = r /\ state'[y] # "freed" =>
        state'[parent[y]] # "freed"
  BY DEF TreeOK
<1>5. \A y \in Pools : parent[y] # NULL => parent[y] \in Pools
  BY Types
<1>6. \A y \in Pools : /\ parent[y] # NULL /\ mutex[y] = r
                       /\ state'[y] = "freed" /\ state'[parent[y]] # "freed"
                       => stack'[o] # <<>> /\ Destroying(stack'[o], parent[y])
  BY <1>5 DEF TreeOK
<1> QED BY <1>3, <1>4, <1>6, TreeGoes

LEMMA TreeLinksChild ==
  ASSUME TypeOK, ShapeInv, StacksInv, NEW r \in Pools, NEW o \in Threads, TreeOK(r, o),
         NEW f \in Frame, stack[o] # <<>>, f = stack[o][1], mutex[f.pool] = r, Only(o),
         stack' \in [Threads -> Seq(Frame)], LinksChild(o, f)
  PROVE  TreeOK(r, o)'
<1>1. /\ f.pc = "child" /\ f.op = "create" /\ UNCHANGED <<state, done, brother>> /\ Goes(o, f)
      /\ Replaced(stack[o], stack'[o], [f EXCEPT !.pc = "brother"])
  BY DEF LinksChild, Goes
<1>2. Len(stack[o]) = 1 /\ 1 \in 1..Len(stack[o])
  BY <1>1, CreateFrame
<1>3. PICK v : v = stack'[o]
  OBVIOUS
<1>4. Len(v) = 1 /\ v[1].op = "create" /\ v[1].pc = "brother" /\ v[1].pool = f.pool
  BY <1>1, <1>2, <1>3 DEF Replaced, Frame
<1>5. VisitOK(o, stack[o], 1)
  BY <1>2 DEF TreeOK, VisitsOK, InTree
<1>6. VisitOK(o, v, 1)
  BY <1>1, <1>4, <1>5 DEF VisitOK
<1>7. \A k \in 1..Len(v) : k = 1
  BY <1>4
<1>8. \A k \in 1..Len(v) : VisitOK(o, v, k)
  BY <1>6, <1>7
<1>9. \A p \in Pools : ~ Destroying(stack[o], p)
  <2>1. \A k \in 1..Len(stack[o]) : k = 1
    BY <1>2
  <2> QED BY <1>1, <2>1 DEF Destroying
<1> QED BY <1>1, <1>3, <1>8, <1>9, TreeQuiet

LEMMA TreeLinksBrother ==
  ASSUME TypeOK, ShapeInv, StacksInv, NEW r \in Pools, NEW o \in Threads, TreeOK(r, o),
         NEW f \in Frame, stack[o] # <<>>, f = stack[o][1], mutex[f.pool] = r, Only(o),
         stack' \in [Threads -> Seq(Frame)], LinksBrother(o, f)
  PROVE  TreeOK(r, o)'
<1>1. /\ f.pc = "brother" /\ f.op = "create" /\ UNCHANGED state /\ Goes(o, f)
      /\ Popped(stack[o], stack'[o])
  BY DEF LinksBrother, Goes
<1>2. Len(stack[o]) = 1
  BY <1>1, CreateFrame
<1>3. stack'[o] = <<>>
  <2>1. Len(stack'[o]) = 0 /\ stack'[o] \in Seq(Frame)
    BY <1>1, <1>2 DEF Popped
  <2> QED BY <2>1, EmptySeq
<1>4. \A p \in Pools : ~ Destroying(stack[o], p)
  <2>1. \A k \in 1..Len(stack[o]) : k = 1
    BY <1>2
  <2> QED BY <1>1, <2>1 DEF Destroying
<1>5. \A y \in Pools : parent[y] # NULL => parent[y] \in Pools
  BY Types
<1>6. \A y \in Pools : parent[y] # NULL /\ mutex[y] = r /\ state'[y] # "freed" =>
        state'[parent[y]] # "freed"
  BY <1>1 DEF TreeOK
<1>7. \A y \in Pools : ~ (/\ parent[y] # NULL /\ mutex[y] = r
                          /\ state'[y] = "freed" /\ state'[parent[y]] # "freed")
  BY <1>1, <1>4, <1>5 DEF TreeOK
<1> QED BY <1>1, <1>3, <1>6, <1>7, TreeGoes

(* The children of a pool in a tree of one thread that is linking none:    *)
(* they are a list, and alive.                                             *)
LEMMA ChildrenAlive ==
  ASSUME TypeOK, ShapeInv, StacksInv, CreateInv, NEW r \in Pools, NEW o \in Threads, TreeOK(r, o),
         \A y \in Pools : Used(y) /\ mutex[y] = r => owner[y] = o,
         NEW q \in Pools, Live(q), mutex[q] = r, ~ Destroying(stack[o], q),
         stack[o] # <<>>, stack[o][1].pc \notin {"child", "brother"}
  PROVE  \E n, l : /\ IsList(child[q], n, l, brother, Pools)
                   /\ Elems(n, l) = {y \in Pools : parent[y] = q}
                   /\ \A y \in Pools : parent[y] = q => state[y] = "live"
<1>1. q \notin raced /\ q # NULL
  BY PoolFacts DEF TreeOK
<1>2. PICK n, l : IsList(child[q], n, l, Bro, Pools) /\ Elems(n, l) = Linked(q)
  BY <1>1 DEF CreateInv, ChildrenOK
<1>3. \A y \in Pools : parent[y] = q => Used(y) /\ mutex[y] = r /\ owner[y] = o
  BY <1>1 DEF ShapeInv
<1>4. \A y \in Pools : parent[y] = q => ~ AtChild(y) /\ ~ AtBrother(y)
  BY <1>3 DEF AtChild, AtBrother, In
<1>5. Linked(q) = {y \in Pools : parent[y] = q}
  BY <1>4 DEF Linked
<1>6. \A x \in Elems(n, l) : brother[x] = Bro[x]
  BY <1>2, <1>4, <1>5 DEF Bro
<1>7. IsList(child[q], n, l, brother, Pools)
  BY <1>2, <1>6, ListFrame
<1>8. \A y \in Pools : parent[y] = q => state[y] = "live"
  <2>1. SUFFICES ASSUME NEW y \in Pools, parent[y] = q, state[y] # "live" PROVE FALSE
    OBVIOUS
  <2>2. state[y] = "freed" /\ state[q] # "freed"
    BY <1>3, <2>1, StateValues
  <2>3. Destroying(stack[o], q)
    BY <1>1, <1>3, <2>1, <2>2 DEF TreeOK
  <2> QED BY <2>3
<1> QED BY <1>2, <1>5, <1>7, <1>8

LEMMA TreeBegins ==
  ASSUME TypeOK, ShapeInv, StacksInv, CreateInv, NEW r \in Pools, NEW o \in Threads, TreeOK(r, o),
         \A y \in Pools : Used(y) /\ mutex[y] = r => owner[y] = o,
         NEW f \in Frame, stack[o] # <<>>, f = stack[o][1], mutex[f.pool] = r, Only(o),
         stack' \in [Threads -> Seq(Frame)], Begins(o, f)
  PROVE  TreeOK(r, o)'
<1>1. PICK s, v : s = stack[o] /\ v = stack'[o]
  OBVIOUS
<1>2. PICK g : g = [f EXCEPT !.pc = "walk", !.temp = child[f.pool]]
  OBVIOUS
<1>3. /\ f.pc = "enter" /\ f.op # "create" /\ Live(f.pool) /\ Goes(o, f)
      /\ UNCHANGED <<state, done, brother>> /\ Replaced(s, v, g)
  BY <1>1, <1>2 DEF Begins, Goes
<1>4. g.op = f.op /\ g.pc = "walk" /\ g.pool = f.pool /\ g.temp = child[f.pool] /\ f.pool \in Pools
  BY <1>2 DEF Frame
<1>5. Len(s) \in Nat /\ Len(s) >= 1 /\ 1 \in 1..Len(s) /\ Len(v) = Len(s) /\ v[1] = g
      /\ \A k \in 2..Len(s) : v[k] = s[k]
  BY <1>1, <1>3, Types, StackTop DEF Replaced
<1>6. \A k \in 1..Len(s) : v[k].pool = s[k].pool /\ v[k].op = s[k].op /\ (k = 1 \/ v[k] = s[k])
  <2>1. \A k \in 1..Len(s) : k = 1 \/ k \in 2..Len(s)
    BY <1>5
  <2> QED BY <1>1, <1>4, <1>5, <2>1
<1>7. \A k \in 1..Len(s) : VisitOK(o, s, k)
  BY <1>1 DEF TreeOK, VisitsOK, InTree
<1>8. ~ Destroying(stack[o], f.pool)
  <2>1. SUFFICES ASSUME NEW k \in 1..Len(s), s[k].pool = f.pool, s[k].pc = "walk" PROVE FALSE
    BY <1>1 DEF Destroying
  <2>2. 1 < k
    BY <1>1, <1>3, <1>5, <2>1
  <2>3. s[k].pool < s[1].pool
    BY <1>1, <1>5, <2>2 DEF StacksInv, StackOK
  <2> QED BY <1>1, <1>4, <2>1, <2>3, PoolFacts
<1>9. PICK n, l : /\ IsList(child[f.pool], n, l, brother, Pools)
                  /\ Elems(n, l) = {y \in Pools : parent[y] = f.pool}
                  /\ \A y \in Pools : parent[y] = f.pool => state[y] = "live"
  BY <1>3, <1>4, <1>8, ChildrenAlive
<1>10. ToVisit(o, v, 1, n, l)
  BY <1>4, <1>5, <1>9 DEF ToVisit
<1>11. VisitOK(o, v, 1)
  BY <1>1, <1>4, <1>5, <1>7, <1>10 DEF VisitOK
<1>12. \A k \in 1..Len(v) : VisitOK(o, v, k)
  <2>1. SUFFICES ASSUME NEW k \in 1..Len(v), k # 1 PROVE VisitOK(o, v, k)
    BY <1>11
  <2>2. k \in 1..Len(s) /\ k - 1 \in 1..Len(s) /\ v[k] = s[k]
    BY <1>5, <1>6, <2>1
  <2>3. v[k - 1].pool = s[k - 1].pool
    BY <1>6, <2>2
  <2> QED BY <1>5, <1>7, <2>2, <2>3, VisitMoved
<1>13. \A p \in Pools : Destroying(stack[o], p) => stack'[o] # <<>> /\ Destroying(stack'[o], p)
  <2>1. SUFFICES ASSUME NEW p \in Pools, NEW k \in 1..Len(s), s[k].pool = p, s[k].op = "destroy",
                        s[k].pc = "walk"
                 PROVE  v # <<>> /\ Destroying(v, p)
    BY <1>1 DEF Destroying
  <2>2. v # <<>>
    BY <1>5
  <2>3. k # 1 /\ v[k] = s[k] /\ k \in 1..Len(v)
    BY <1>1, <1>3, <1>5, <1>6, <2>1
  <2> QED BY <2>1, <2>2, <2>3 DEF Destroying
<1> QED BY <1>1, <1>3, <1>12, <1>13, TreeQuiet

LEMMA TreeVisits ==
  ASSUME TypeOK, ShapeInv, StacksInv, NEW r \in Pools, NEW o \in Threads, TreeOK(r, o),
         NEW f \in Frame, stack[o] # <<>>, f = stack[o][1], mutex[f.pool] = r, Only(o),
         stack' \in [Threads -> Seq(Frame)], Visits(o, f)
  PROVE  TreeOK(r, o)'
<1>1. PICK s, v : s = stack[o] /\ v = stack'[o]
  OBVIOUS
<1>2. PICK e, g : e = Enter(f.op, f.temp) /\ g = [f EXCEPT !.temp = brother[f.temp]]
  OBVIOUS
<1>3. /\ f.pc = "walk" /\ f.op # "create" /\ f.temp \in Pools /\ Live(f.temp) /\ Goes(o, f)
      /\ UNCHANGED <<state, done, brother>> /\ Grown(s, v, e, g)
  BY <1>1, <1>2 DEF Visits, Goes
<1>4. /\ g.op = f.op /\ g.pc = "walk" /\ g.pool = f.pool /\ g.temp = brother[f.temp] /\ f.pool \in Pools
      /\ e.op = f.op /\ e.pc = "enter" /\ e.pool = f.temp
  BY <1>2, <1>3 DEF Frame, Enter
<1>5. Len(s) \in Nat /\ Len(s) >= 1 /\ 1 \in 1..Len(s) /\ Len(v) = Len(s) + 1 /\ v[1] = e /\ v[2] = g
      /\ \A k \in 2..Len(s) : v[k + 1] = s[k]
  BY <1>1, <1>3, Types, StackTop DEF Grown
<1>6. \A k \in 1..Len(s) : VisitOK(o, s, k)
  BY <1>1 DEF TreeOK, VisitsOK, InTree
<1>7. PICK n, l : ToVisit(o, s, 1, n, l)
  BY <1>1, <1>3, <1>5, <1>6 DEF VisitOK
<1>8. /\ IsList(f.temp, n, l, brother, Pools)
      /\ \A x \in Elems(n, l) : parent[x] = f.pool /\ state[x] = "live"
      /\ \A y \in Pools : parent[y] = f.pool => y \in Elems(n, l) \/ Finished(o, f.op, y)
  BY <1>1, <1>7 DEF ToVisit
<1>9. n \in Nat /\ n # 0 /\ l[1] = f.temp /\ 1 \in 1..n
  <2>1. n \in Nat /\ f.temp = IF n = 0 THEN 0 ELSE l[1]
    BY <1>8 DEF IsList
  <2>2. n # 0
    BY <1>3, <2>1, PoolFacts
  <2>3. 1 \in 1..n
    BY <2>1, <2>2
  <2> QED BY <2>1, <2>2, <2>3
<1>10. PICK m, w : m = n - 1 /\ w = Dropped(1, n, l)
  OBVIOUS
<1>11. IsList(g.temp, m, w, brother, Pools) /\ Elems(m, w) = Elems(n, l) \ {f.temp}
  <2>1. g.temp = IF 1 = 1 THEN brother[l[1]] ELSE f.temp
    BY <1>4, <1>9
  <2>2. \A x \in Elems(n, l) : brother[x] = IF 1 > 1 /\ x = l[1 - 1] THEN brother[l[1]] ELSE brother[x]
    OBVIOUS
  <2>3. /\ IsList(g.temp, n - 1, Dropped(1, n, l), brother, Pools)
        /\ Elems(n - 1, Dropped(1, n, l)) = Elems(n, l) \ {l[1]}
    BY <1>8, <1>9, <2>1, <2>2, ListDrop, SMTT(30)
  <2> QED BY <1>9, <1>10, <2>3
<1>12. ToVisit(o, v, 2, m, w)
  <2>1. v[2 - 1].pool = f.temp /\ v[2] = g /\ 2 > 1
    BY <1>4, <1>5
  <2>2. \A x \in Elems(m, w) : parent[x] = g.pool /\ state[x] = "live" /\ x # f.temp
    BY <1>4, <1>8, <1>11
  <2>3. \A y \in Pools : parent[y] = g.pool =>
          y \in Elems(m, w) \/ Finished(o, g.op, y) \/ y = f.temp
    BY <1>4, <1>8, <1>11
  <2> QED BY <1>11, <2>1, <2>2, <2>3 DEF ToVisit
<1>13. VisitOK(o, s, 1) /\ f = s[1]
  BY <1>1, <1>5, <1>6
<1>14. VisitOK(o, v, 2)
  <2>1. 2 = Len(v) => 1 = Len(s)
    <3>1. PICK a, b \in Nat : a = Len(s) /\ b = Len(v) /\ b = a + 1
      BY <1>5
    <3>2. 2 = b => 1 = a
      BY ONLY a \in Nat, b \in Nat, <3>1
    <3> QED BY <3>1, <3>2
  <2> QED BY <1>4, <1>5, <1>12, <1>13, <2>1 DEF VisitOK
<1>15. VisitOK(o, v, 1)
  <2>1. 1 # Len(v) /\ state[f.temp] = "live"
    BY <1>3, <1>5 DEF Live
  <2>2. mutex[f.temp] = mutex[f.pool]
    <3>1. parent[f.temp] = f.pool
      BY <1>3, TopFrame, PoolFacts DEF FrameOK
    <3> QED BY <1>3, <1>4, <3>1, PoolFacts DEF ShapeInv
  <2> QED BY <1>3, <1>4, <1>5, <1>13, <2>1, <2>2 DEF VisitOK
<1>16. \A k \in 1..Len(v) : k # 1 /\ k # 2 => k - 1 \in 2..Len(s) /\ (k - 1) + 1 = k
  BY <1>5
<1>17. \A k \in 1..Len(v) : VisitOK(o, v, k)
  <2>1. SUFFICES ASSUME NEW k \in 1..Len(v), k # 1, k # 2 PROVE VisitOK(o, v, k)
    BY <1>14, <1>15
  <2>2. k - 1 \in 2..Len(s) /\ k - 1 \in 1..Len(s) /\ v[k] = s[k - 1]
    <3>1. k - 1 \in 2..Len(s) /\ (k - 1) + 1 = k
      BY <1>16, <2>1
    <3>2. v[(k - 1) + 1] = s[k - 1]
      BY <1>5, <3>1
    <3> QED BY <1>5, <3>1, <3>2
  <2>3. v[k - 1].pool = s[(k - 1) - 1].pool
    <3>1. CASE k = 3
      <4>1. k - 1 = 2 /\ (k - 1) - 1 = 1
        BY <3>1
      <4> QED BY <1>4, <1>5, <1>13, <4>1
    <3>2. CASE k # 3
      <4>1. k - 1 \in 1..Len(v) /\ k - 1 # 1 /\ k - 1 # 2
        BY <1>5, <2>1, <3>2
      <4>2. (k - 1) - 1 \in 2..Len(s) /\ ((k - 1) - 1) + 1 = k - 1
        BY <1>16, <4>1
      <4>3. v[((k - 1) - 1) + 1] = s[(k - 1) - 1]
        BY <1>5, <4>2
      <4> QED BY <4>2, <4>3
    <3> QED BY <3>1, <3>2
  <2>4. (k > 1 <=> k - 1 > 1) /\ (k = Len(v) => k - 1 = Len(s))
    BY <1>5, <2>1, <2>2
  <2> QED BY <1>6, <2>2, <2>3, <2>4, VisitMoved
<1>18. \A p \in Pools : Destroying(stack[o], p) => stack'[o] # <<>> /\ Destroying(stack'[o], p)
  <2>1. SUFFICES ASSUME NEW p \in Pools, NEW k \in 1..Len(s), s[k].pool = p, s[k].op = "destroy",
                        s[k].pc = "walk"
                 PROVE  v # <<>> /\ Destroying(v, p)
    BY <1>1 DEF Destroying
  <2>2. v # <<>> /\ k + 1 \in 1..Len(v)
    BY <1>5
  <2>3. v[k + 1].pool = p /\ v[k + 1].op = "destroy" /\ v[k + 1].pc = "walk"
    <3>1. CASE k = 1
      BY <1>4, <1>5, <1>13, <2>1, <3>1
    <3>2. CASE k # 1
      <4>1. k \in 2..Len(s)
        BY <1>5, <3>2
      <4> QED BY <1>5, <2>1, <4>1
    <3> QED BY <3>1, <3>2
  <2> QED BY <2>2, <2>3 DEF Destroying
<1> QED BY <1>1, <1>3, <1>17, <1>18, TreeQuiet

(* A frame that a return uncovers, after what the innermost frame has done *)
(* to its pool, c.                                                         *)
LEMMA VisitAfterPop ==
  ASSUME TypeOK, ShapeInv, StacksInv, NEW o \in Threads, NEW s, s = stack[o], s # <<>>,
         NEW v \in Seq(Frame), Popped(s, v), NEW k \in 1..Len(v), VisitOK(o, s, k + 1),
         NEW c, c = s[1].pool, s[1].op # "create", UNCHANGED <<parent, mutex, brother>>,
         \A x \in Pools : x # c => state'[x] = state[x],
         \A x \in Pools : Finished(o, s[1].op, x) \/ x = c => Finished(o, s[1].op, x)',
         s[1].op = "clear" => \A y \in Pools : mutex[y] = mutex[c] /\ parent[y] \in done'[o]
                                                 => y \in done'[o]
  PROVE  VisitOK(o, v, k)'
<1>1. Len(s) \in Nat /\ Len(v) \in Nat /\ Len(v) = Len(s) - 1 /\ 1 \in 1..Len(s)
  BY Types, LenProperties, StackTop DEF Popped
<1>2. k + 1 \in 1..Len(s) /\ k + 1 \in 2..Len(s) /\ 1 < k + 1 /\ (k + 1) - 1 = k /\ k \in 1..Len(s)
  BY <1>1
<1>3. v[k] = s[k + 1]
  BY DEF Popped
<1>4. k > 1 => v[k - 1] = s[k]
  <2>1. SUFFICES ASSUME k > 1 PROVE v[k - 1] = s[k]
    OBVIOUS
  <2>2. k - 1 \in 1..Len(v) /\ (k - 1) + 1 = k
    BY <1>1, <2>1
  <2> QED BY <2>2 DEF Popped
<1>5. StackOK(o, s)
  BY DEF StacksInv
<1>6. s[k + 1].op = s[1].op /\ s[k + 1].pool < s[1].pool /\ mutex[s[k + 1].pool] = mutex[c]
  BY <1>1, <1>2, <1>5 DEF StackOK
<1>7. s[k + 1].pool \in Pools /\ c \in Pools /\ s[k + 1].pool # c
  <2>1. s[k + 1].pool \in Pools /\ s[1].pool \in Pools
    BY <1>1, <1>2, StackInTree
  <2>2. s[k + 1].pool \in Nat /\ s[1].pool \in Nat
    BY <2>1, PoolFacts
  <2> QED BY <1>6, <2>1, <2>2
<1>8. state'[v[k].pool] = "live"
  BY <1>3, <1>7 DEF VisitOK
<1>9. v[k].op # "create"
  BY <1>3, <1>6
<1>10. v[k].op = "destroy" /\ k = Len(v) => parent'[v[k].pool] = NULL
  <2>1. k = Len(v) => k + 1 = Len(s)
    BY <1>1
  <2> QED BY <1>3, <2>1 DEF VisitOK
<1>11. v[k].op = "clear" => \A y \in Pools : mutex'[y] = mutex'[v[k].pool] /\ parent'[y] \in done'[o]
                                             => y \in done'[o]
  BY <1>3, <1>6
<1>12. v[k].pc = "walk" => \E n, l : ToVisit(o, v, k, n, l)'
  <2>1. SUFFICES ASSUME v[k].pc = "walk" PROVE \E n, l : ToVisit(o, v, k, n, l)'
    OBVIOUS
  <2>2. PICK n, l : ToVisit(o, s, k + 1, n, l)
    BY <1>3, <2>1 DEF VisitOK
  <2>3. /\ IsList(v[k].temp, n, l, brother, Pools)
        /\ \A x \in Elems(n, l) : parent[x] = v[k].pool /\ state[x] = "live" /\ x # s[k].pool
        /\ \A y \in Pools : parent[y] = v[k].pool =>
             y \in Elems(n, l) \/ Finished(o, s[1].op, y) \/ y = s[k].pool
    <3>1. s[(k + 1) - 1] = s[k] /\ k + 1 > 1
      BY <1>2
    <3> QED BY <1>3, <1>6, <2>2, <3>1 DEF ToVisit
  <2>4. \A x \in Elems(n, l) : x \in Pools
    BY <2>3 DEF IsList, Elems
  <2>5. \A x \in Elems(n, l) : x # c
    <3>1. SUFFICES ASSUME NEW x \in Elems(n, l), x = c PROVE FALSE
      OBVIOUS
    <3>2. k # 1
      BY <2>3, <3>1
    <3>3. 2 \in 1..Len(s) /\ 2 \in 2..Len(s) /\ 2 < k + 1
      BY <1>1, <1>2, <3>2
    <3>4. parent[s[2 - 1].pool] = s[2].pool /\ s[k + 1].pool < s[2].pool
      BY <1>2, <1>5, <3>3 DEF StackOK
    <3>5. 2 - 1 = 1
      OBVIOUS
    <3>6. s[2].pool = s[k + 1].pool
      BY <1>3, <2>3, <3>1, <3>4, <3>5
    <3> QED BY <1>7, <3>4, <3>6, PoolFacts
  <2>6. \A x \in Elems(n, l) : /\ parent'[x] = v[k].pool /\ state'[x] = "live"
                               /\ k > 1 => x # v[k - 1].pool
    BY <1>4, <2>3, <2>4, <2>5
  <2>7. k = 1 => s[k].pool = c
    OBVIOUS
  <2>8. k = 1 \/ k > 1
    BY <1>1
  <2>9. \A y \in Pools : parent'[y] = v[k].pool =>
          y \in Elems(n, l) \/ Finished(o, v[k].op, y)' \/ (k > 1 /\ y = v[k - 1].pool)
    BY <1>3, <1>4, <1>6, <2>3, <2>7, <2>8
  <2>10. IsList(v[k].temp, n, l, brother', Pools)
    BY <2>3
  <2> QED BY <2>6, <2>9, <2>10 DEF ToVisit
<1> QED BY <1>8, <1>9, <1>10, <1>11, <1>12 DEF VisitOK

(* All children of a pool whose walk is over were visited.                 *)
LEMMA WalkOver ==
  ASSUME NEW o, NEW s, VisitOK(o, s, 1), s[1].pc = "walk", s[1].temp = NULL
  PROVE  \A y \in Pools : parent[y] = s[1].pool => Finished(o, s[1].op, y)
<1>1. PICK n, l : ToVisit(o, s, 1, n, l)
  BY DEF VisitOK
<1>2. n \in Nat /\ l \in [1..n -> Pools] /\ NULL = IF n = 0 THEN 0 ELSE l[1]
  BY <1>1 DEF ToVisit, IsList
<1>3. n = 0
  <2>1. SUFFICES ASSUME n # 0 PROVE FALSE
    OBVIOUS
  <2>2. 1 \in 1..n
    BY <1>2, <2>1
  <2>3. l[1] \in Pools
    BY <1>2, <2>2
  <2> QED BY <1>2, <2>1, <2>3, PoolFacts
<1>4. Elems(n, l) = {}
  BY <1>3 DEF Elems
<1> QED BY <1>1, <1>4 DEF ToVisit

LEMMA TreeCleared ==
  ASSUME TypeOK, ShapeInv, StacksInv, NEW r \in Pools, NEW o \in Threads, TreeOK(r, o),
         NEW f \in Frame, stack[o] # <<>>, f = stack[o][1], mutex[f.pool] = r, Only(o),
         stack' \in [Threads -> Seq(Frame)], Cleared(o, f)
  PROVE  /\ TreeOK(r, o)'
         /\ \A y \in Pools : mutex[y] = r /\ parent[y] \in done'[o] => y \in done'[o]
<1>1. PICK s, v : s = stack[o] /\ v = stack'[o]
  OBVIOUS
<1>2. /\ f.pc = "walk" /\ f.temp = NULL /\ f.op = "clear" /\ Goes(o, f)
      /\ UNCHANGED <<state, parent, mutex, brother>> /\ Popped(s, v)
      /\ done' = [done EXCEPT ![o] = @ \cup {f.pool}]
  BY <1>1 DEF Cleared, Goes
<1>3. s \in Seq(Frame) /\ v \in Seq(Frame) /\ s # <<>> /\ s[1] = f /\ Len(s) \in Nat /\ 1 \in 1..Len(s)
      /\ Len(v) \in Nat /\ Len(v) = Len(s) - 1
  BY <1>1, <1>2, Types, StackTop, LenProperties DEF Popped
<1>4. f.pool \in Pools /\ done'[o] = done[o] \cup {f.pool}
  BY <1>2, Types DEF Frame
<1>5. \A k \in 1..Len(s) : VisitOK(o, s, k)
  BY <1>1 DEF TreeOK, VisitsOK, InTree
<1>6. \A y \in Pools : parent[y] = f.pool => y \in done[o]
  <2>1. VisitOK(o, s, 1)
    BY <1>3, <1>5
  <2>2. \A y \in Pools : parent[y] = s[1].pool => Finished(o, s[1].op, y)
    BY <1>2, <1>3, <2>1, WalkOver
  <2> QED BY <1>2, <1>3, <2>2 DEF Finished
<1>7. \A y \in Pools : mutex[y] = r /\ parent[y] \in done[o] => y \in done[o]
  <2>1. VisitOK(o, s, 1)
    BY <1>3, <1>5
  <2> QED BY <1>2, <1>3, <2>1 DEF VisitOK
<1>8. \A y \in Pools : mutex[y] = r /\ parent[y] \in done'[o] => y \in done'[o]
  BY <1>4, <1>6, <1>7
<1>9. \A k \in 1..Len(v) : VisitOK(o, v, k)'
  <2>1. SUFFICES ASSUME NEW k \in 1..Len(v) PROVE VisitOK(o, v, k)'
    OBVIOUS
  <2>2. k + 1 \in 1..Len(s)
    BY <1>3
  <2>3. VisitOK(o, s, k + 1)
    BY <1>5, <2>2
  <2>4. \A x \in Pools : Finished(o, s[1].op, x) \/ x = f.pool => Finished(o, s[1].op, x)'
    BY <1>2, <1>3, <1>4 DEF Finished
  <2>5. \A x \in Pools : x # f.pool => state'[x] = state[x]
    BY <1>2
  <2>6. f.pool = s[1].pool /\ s[1].op # "create"
    BY <1>2, <1>3
  <2>7. \A y \in Pools : mutex[y] = mutex[f.pool] /\ parent[y] \in done'[o] => y \in done'[o]
    BY <1>8
  <2> QED BY <1>1, <1>2, <1>3, <2>3, <2>4, <2>5, <2>6, <2>7, VisitAfterPop
<1>10. VisitsOK(o, stack[o])'
  BY <1>1, <1>9, VisitsNext
<1>11. \A p \in Pools : ~ Destroying(stack[o], p)
  <2>1. \A k \in 1..Len(s) : s[k].op = "clear"
    BY <1>1, <1>2, <1>3 DEF StacksInv, StackOK
  <2> QED BY <1>1, <2>1 DEF Destroying
<1>12. \A y \in Pools : parent[y] # NULL => parent[y] \in Pools
  BY Types
<1>13. \A y \in Pools : parent[y] # NULL /\ mutex[y] = r /\ state'[y] # "freed" =>
        state'[parent[y]] # "freed"
  BY <1>2 DEF TreeOK
<1>14. \A y \in Pools : ~ (/\ parent[y] # NULL /\ mutex[y] = r
                          /\ state'[y] = "freed" /\ state'[parent[y]] # "freed")
  BY <1>2, <1>11, <1>12 DEF TreeOK
<1>15. TreeOK(r, o)'
  BY <1>2, <1>10, <1>13, <1>14, TreeGoes
<1> QED BY <1>8, <1>15

LEMMA TreeDestroyed ==
  ASSUME TypeOK, ShapeInv, StacksInv, NEW r \in Pools, NEW o \in Threads, TreeOK(r, o),
         NEW f \in Frame, stack[o] # <<>>, f = stack[o][1], mutex[f.pool] = r, Only(o),
         stack' \in [Threads -> Seq(Frame)], Destroyed(o, f)
  PROVE  TreeOK(r, o)'
<1>1. PICK s, v : s = stack[o] /\ v = stack'[o]
  OBVIOUS
<1>2. /\ f.pc = "walk" /\ f.temp = NULL /\ f.op = "destroy" /\ Goes(o, f)
      /\ UNCHANGED <<parent, mutex, brother, done>> /\ Popped(s, v)
      /\ state' = [state EXCEPT ![f.pool] = "freed"]
  BY <1>1 DEF Destroyed, Goes
<1>3. s \in Seq(Frame) /\ v \in Seq(Frame) /\ s # <<>> /\ s[1] = f /\ Len(s) \in Nat /\ 1 \in 1..Len(s)
      /\ Len(v) \in Nat /\ Len(v) = Len(s) - 1
  BY <1>1, <1>2, Types, StackTop, LenProperties DEF Popped
<1>4. f.pool \in Pools /\ state'[f.pool] = "freed" /\ \A x \in Pools : x # f.pool => state'[x] = state[x]
  BY <1>2, Types DEF Frame
<1>5. \A k \in 1..Len(s) : VisitOK(o, s, k)
  BY <1>1 DEF TreeOK, VisitsOK, InTree
<1>6. VisitOK(o, s, 1)
  BY <1>3, <1>5
<1>7. \A y \in Pools : parent[y] = f.pool => state[y] = "freed"
  <2>1. \A y \in Pools : parent[y] = s[1].pool => Finished(o, s[1].op, y)
    BY <1>2, <1>3, <1>6, WalkOver
  <2> QED BY <1>2, <1>3, <2>1 DEF Finished
<1>8. \A k \in 1..Len(v) : VisitOK(o, v, k)'
  <2>1. SUFFICES ASSUME NEW k \in 1..Len(v) PROVE VisitOK(o, v, k)'
    OBVIOUS
  <2>2. k + 1 \in 1..Len(s)
    BY <1>3
  <2>3. VisitOK(o, s, k + 1)
    BY <1>5, <2>2
  <2>4. \A x \in Pools : Finished(o, s[1].op, x) \/ x = f.pool => Finished(o, s[1].op, x)'
    BY <1>2, <1>3, <1>4 DEF Finished
  <2>5. f.pool = s[1].pool /\ s[1].op = "destroy"
    BY <1>2, <1>3
  <2> QED BY <1>1, <1>2, <1>3, <1>4, <2>3, <2>4, <2>5, VisitAfterPop
<1>9. VisitsOK(o, stack[o])'
  BY <1>1, <1>8, VisitsNext
<1>10. \A y \in Pools : parent[y] # NULL => parent[y] \in Pools
  BY Types
<1>11. \A y \in Pools : parent[y] # NULL /\ mutex[y] = r /\ state'[y] # "freed" =>
         state'[parent[y]] # "freed"
  <2>1. SUFFICES ASSUME NEW y \in Pools, parent[y] # NULL, mutex[y] = r, state'[y] # "freed"
                 PROVE  state'[parent[y]] # "freed"
    OBVIOUS
  <2>2. y # f.pool /\ state[y] # "freed"
    BY <1>4, <2>1
  <2>3. parent[y] # f.pool /\ parent[y] \in Pools /\ state[parent[y]] # "freed"
    BY <1>7, <1>10, <2>1, <2>2 DEF TreeOK
  <2> QED BY <1>4, <2>3
<1>12. \A y \in Pools : /\ parent[y] # NULL /\ mutex[y] = r
                        /\ state'[y] = "freed" /\ state'[parent[y]] # "freed"
                        => v # <<>> /\ Destroying(v, parent[y])
  <2>1. SUFFICES ASSUME NEW y \in Pools, parent[y] # NULL, mutex[y] = r,
                        state'[y] = "freed", state'[parent[y]] # "freed"
                 PROVE  v # <<>> /\ Destroying(v, parent[y])
    OBVIOUS
  <2>2. parent[y] # f.pool /\ parent[y] \in Pools /\ state[parent[y]] # "freed"
    <3>1. parent[y] \in Pools /\ parent[y] # f.pool
      BY <1>4, <1>10, <2>1
    <3> QED BY <1>4, <2>1, <3>1
  <2>3. \E j \in 1..Len(s) : j # 1 /\ s[j].pool = parent[y] /\ s[j].op = "destroy" /\ s[j].pc = "walk"
    <3>1. CASE y = f.pool
      <4>1. Len(s) # 1
        BY <1>2, <1>3, <1>6, <2>1, <3>1 DEF VisitOK
      <4>2. 2 \in 1..Len(s) /\ 2 \in 2..Len(s) /\ 2 - 1 = 1
        BY <1>3, <4>1
      <4>3. StackOK(o, s)
        BY <1>1 DEF StacksInv
      <4>4. s[2].pc = "walk" /\ parent[s[2 - 1].pool] = s[2].pool /\ s[2].op = s[1].op
        BY <1>3, <4>2, <4>3 DEF StackOK
      <4> QED BY <1>2, <1>3, <3>1, <4>2, <4>4
    <3>2. CASE y # f.pool
      <4>1. state[y] = "freed"
        BY <1>4, <2>1, <3>2
      <4>2. Destroying(s, parent[y])
        BY <1>1, <2>1, <2>2, <4>1 DEF TreeOK
      <4> QED BY <1>3, <2>2, <4>2 DEF Destroying
    <3> QED BY <3>1, <3>2
  <2>4. PICK j \in 1..Len(s) : j # 1 /\ s[j].pool = parent[y] /\ s[j].op = "destroy" /\ s[j].pc = "walk"
    BY <2>3
  <2>5. j - 1 \in 1..Len(v) /\ (j - 1) + 1 = j
    BY <1>3, <2>4
  <2>6. v[j - 1] = s[j]
    BY <1>2, <2>5 DEF Popped
  <2>7. v # <<>>
    BY <1>3, <2>5
  <2> QED BY <2>4, <2>5, <2>6, <2>7 DEF Destroying
<1> QED BY <1>1, <1>2, <1>9, <1>11, <1>12, TreeGoes

-----------------------------------------------------------------------------

LEMMA TreeOwner ==
  ASSUME NEW r, NEW o, o = owner'[r], TreeOK(r, o)'
  PROVE  TreeOK(r, owner[r])'
BY DEF TreeOK, VisitsOK, VisitOK, ToVisit, Finished, InTree, Destroying

LEMMA MixedGrows ==
  ASSUME NEW t \in Threads, Takes(t)
  PROVE  mixed \subseteq mixed'
<1>1. ASSUME NEW p \in Pools, CreatesRoot(t, p) PROVE mixed' = mixed
  BY <1>1 DEF CreatesRoot, Creates
<1>2. ASSUME NEW par \in Pools, NEW p \in Pools, CreatesChild(t, par, p) PROVE mixed' = mixed
  BY <1>2 DEF CreatesChild, Creates
<1>3. ASSUME NEW op \in {"clear", "destroy"}, NEW p \in Pools, Calls(t, op, p)
      PROVE  mixed \subseteq mixed'
  BY <1>3 DEF Calls
<1>4. ASSUME NEW f \in Frame, Goes(t, f) PROVE mixed' = mixed
  BY <1>4, GoesKeeps
<1> QED BY <1>1, <1>2, <1>3, <1>4 DEF Takes

LEMMA CleanOwners ==
  ASSUME NEW r, CleanRoot(r)
  PROVE  \A y \in Pools : Used(y) /\ mutex[y] = r => owner[y] = owner[r]
BY DEF CleanRoot, Clean, Members, Used

LEMMA CleanOwnersNext == (\A r : CleanRoot(r) => \A y \in Pools : Used(y) /\ mutex[y] = r => owner[y] = owner[r])'
<1>1. \A r : CleanRoot(r) => \A y \in Pools : Used(y) /\ mutex[y] = r => owner[y] = owner[r]
  BY CleanOwners
<1> QED BY <1>1, PTL

(* A tree that was there before, after a step.                             *)
LEMMA TreeKept ==
  ASSUME TypeOK, ShapeInv, StacksInv, CreateInv, TypeOK', ShapeInv', StacksInv',
         NEW t \in Threads, Takes(t), NEW r \in Pools, CleanRoot(r)', CleanRoot(r),
         NEW o \in Threads, o = owner[r], owner'[r] = owner[r], TreeOK(r, o)
  PROVE  TreeOK(r, o)'
<1>1. Keeps /\ Only(t) /\ stack' \in [Threads -> Seq(Frame)]
  BY TakesKeeps DEF Takes
<1>2. \A y \in Pools : Used(y) /\ mutex[y] = r => owner[y] = o
  BY CleanOwners
<1>3. \A y \in Pools : Used(y)' /\ mutex'[y] = r => owner'[y] = o
  BY CleanOwnersNext
<1>4. /\ state \in [Pools -> {"unused", "live", "freed"}] /\ parent \in [Pools -> Pools \cup {NULL}]
      /\ mutex \in [Pools -> Pools \cup {NULL}] /\ brother \in [Pools -> Pools \cup {NULL}]
      /\ NULL \notin Pools
  BY Types, PoolFacts
<1>5. \A u \in Threads : u # t => (InTree(stack[u], r)' => InTree(stack[u], r))
  <2>1. SUFFICES ASSUME NEW u \in Threads, u # t, stack[u] # <<>>, mutex'[stack[u][1].pool] = r
                 PROVE  mutex[stack[u][1].pool] = r
    BY <1>1 DEF InTree, Only
  <2>2. 1 \in 1..Len(stack[u])
    BY <2>1, Types, StackTop
  <2>3. stack[u][1].pool \in Pools /\ Used(stack[u][1].pool)
    BY <2>2, StackInTree
  <2> QED BY <1>1, <2>1, <2>3 DEF Keeps
<1>6. ASSUME NEW p \in Pools, ~ Used(p), state' = [state EXCEPT ![p] = "live"],
             mutex'[p] # r, \A z \in Pools : z # p => mutex'[z] = mutex[z],
             UNCHANGED brother
      PROVE  SameTree(r)
  <2>1. \A z \in Pools : z # p => state'[z] = state[z] /\ (Used(z)' <=> Used(z))
    BY <1>4, <1>6 DEF Used
  <2>2. \A z \in Pools : Used(z) => z # p /\ parent'[z] = parent[z]
    BY <1>1, <1>6 DEF Keeps
  <2> QED BY <1>6, <2>1, <2>2 DEF SameTree
<1>7. ASSUME NEW p \in Pools, CreatesRoot(t, p) PROVE TreeOK(r, o)'
  <2>1. /\ ~ Used(p) /\ state' = [state EXCEPT ![p] = "live"] /\ mutex' = [mutex EXCEPT ![p] = p]
        /\ UNCHANGED <<brother, stack, raced, done>>
    BY <1>7 DEF CreatesRoot, Creates
  <2>2. p # r
    BY <2>1 DEF CleanRoot
  <2>3. SameTree(r)
    BY <1>4, <1>6, <2>1, <2>2
  <2>4. \A u \in Threads : InTree(stack[u], r)' => InTree(stack[u], r)
    <3>1. SUFFICES ASSUME stack[t] # <<>> PROVE FALSE
      BY <1>5, <2>1 DEF InTree
    <3> QED BY <1>7, <3>1 DEF CreatesRoot, Creates
  <2> QED BY <2>1, <2>3, <2>4, TreeSame
<1>8. ASSUME NEW par \in Pools, NEW p \in Pools, CreatesChild(t, par, p) PROVE TreeOK(r, o)'
  <2>1. /\ ~ Used(p) /\ state' = [state EXCEPT ![p] = "live"] /\ mutex' = [mutex EXCEPT ![p] = mutex[par]]
        /\ UNCHANGED <<brother, done>> /\ stack[t] = <<>> /\ stack'[t] = <<NewFrame(p, child[par])>>
        /\ raced' \subseteq raced \cup {par} /\ owner' = [owner EXCEPT ![p] = t] /\ Live(par)
    BY <1>8 DEF CreatesChild, Creates
  <2>2. mutex'[p] = mutex[par] /\ Used(p)' /\ owner'[p] = t
    BY <1>4, <2>1, Types DEF Used
  <2>3. CASE mutex[par] = r
    <3>1. t = o
      BY <1>3, <2>2, <2>3
    <3> QED BY <1>1, <1>8, <2>3, <3>1, TreeCreate
  <2>4. CASE mutex[par] # r
    <3>1. SameTree(r)
      BY <1>4, <1>6, <2>1, <2>2, <2>4
    <3>2. stack'[t][1].pool = p
      BY <2>1 DEF NewFrame
    <3>3. ~ InTree(stack[t], r) /\ ~ InTree(stack[t], r)'
      BY <2>1, <2>2, <2>4, <3>2 DEF InTree
    <3>4. mutex'[par] # r
      <4>1. Used(par)
        BY <2>1, LiveUsed
      <4> QED BY <1>1, <2>4, <4>1 DEF Keeps
    <3>5. \A x \in raced' : x \in raced \/ mutex'[x] # r
      BY <2>1, <3>4
    <3>6. \/ stack'[o] = stack[o] /\ done'[o] = done[o]
          \/ ~ InTree(stack[o], r) /\ ~ InTree(stack[o], r)'
      BY <1>1, <2>1, <3>3 DEF Only
    <3>7. \A u \in Threads : InTree(stack[u], r)' => InTree(stack[u], r)
      BY <1>5, <3>3
    <3> QED BY <3>1, <3>5, <3>6, <3>7, TreeSame
  <2> QED BY <2>3, <2>4
<1>9. ASSUME UNCHANGED <<mutex, parent, raced>>, ~ InTree(stack[t], r), ~ InTree(stack[t], r)',
             \A z \in Pools : mutex[z] = r => state'[z] = state[z] /\ brother'[z] = brother[z],
             \A u \in Threads : u # t => done'[u] = done[u]
      PROVE  TreeOK(r, o)'
  <2>1. SameTree(r)
    <3>1. \A z \in Pools : (Used(z) <=> state[z] # "unused") /\ (Used(z)' <=> state'[z] # "unused")
      BY DEF Used
    <3> QED BY <1>9, <3>1 DEF SameTree
  <2>2. \/ stack'[o] = stack[o] /\ done'[o] = done[o]
        \/ ~ InTree(stack[o], r) /\ ~ InTree(stack[o], r)'
    BY <1>1, <1>9 DEF Only
  <2>3. \A u \in Threads : InTree(stack[u], r)' => InTree(stack[u], r)
    BY <1>5, <1>9
  <2> QED BY <1>9, <2>1, <2>2, <2>3, TreeSame
<1>10. ASSUME NEW op \in {"clear", "destroy"}, NEW p \in Pools, Calls(t, op, p) PROVE TreeOK(r, o)'
  <2>1. /\ stack[t] = <<>> /\ Live(p) /\ stack'[t] = <<Enter(op, p)>>
        /\ done' = [done EXCEPT ![t] = {}]
        /\ mixed' = IF owner[p] # t \/ (op = "destroy" /\ parent[p] # NULL)
                    THEN mixed \cup {mutex[p]} ELSE mixed
        /\ UNCHANGED <<state, mutex, parent, brother, raced>>
    BY <1>10 DEF Calls
  <2>2. CASE mutex[p] = r
    <3>1. r \notin mixed'
      BY DEF CleanRoot, Clean
    <3>2. owner[p] = t /\ (op = "destroy" => parent[p] = NULL)
      BY <2>1, <2>2, <3>1
    <3>3. t = o
      BY <1>2, <2>1, <2>2, <3>2, LiveUsed
    <3> QED BY <1>1, <1>10, <2>2, <3>2, <3>3, TreeCall
  <2>3. CASE mutex[p] # r
    <3>1. stack'[t][1].pool = p
      BY <2>1 DEF Enter
    <3>2. ~ InTree(stack[t], r) /\ ~ InTree(stack[t], r)'
      BY <2>1, <2>3, <3>1 DEF InTree
    <3>3. \A u \in Threads : u # t => done'[u] = done[u]
      BY <2>1, Types
    <3> QED BY <1>9, <2>1, <3>2, <3>3
  <2> QED BY <2>2, <2>3
<1>11. ASSUME NEW f \in Frame, stack[t] # <<>>, f = stack[t][1], Goes(t, f) PROVE TreeOK(r, o)'
  <2>1. f.pool \in Pools /\ Used(f.pool)
    BY <1>11, TopFrame DEF FrameOK
  <2>2. CASE mutex[f.pool] = r
    <3>1. t = o
      BY <1>11, <2>2 DEF TreeOK, InTree
    <3>2. ~ Refused(t, f)
      BY <1>2, <2>1, <2>2, <3>1 DEF Refused, Owned
    <3> QED BY <1>1, <1>2, <1>11, <2>2, <3>1, <3>2, TreeLinksChild, TreeLinksBrother, TreeBegins,
               TreeVisits, TreeCleared, TreeDestroyed DEF Goes
  <2>3. CASE mutex[f.pool] # r
    <3>1. UNCHANGED <<mutex, parent, raced>>
      BY <1>11, GoesKeeps
    <3>2. ~ InTree(stack[t], r) /\ ~ InTree(stack[t], r)'
      BY <1>1, <1>11, <2>3, <3>1, GoesInTree DEF InTree
    <3>3. \A z \in Pools : z # f.pool => state'[z] = state[z] /\ brother'[z] = brother[z]
      <4>1. \A z \in Pools : z # f.pool => state'[z] = state[z]
        <5>1. CASE Destroyed(t, f)
          BY <1>4, <5>1 DEF Destroyed
        <5> QED BY <1>11, <5>1, GoesKeeps
      <4>2. \A z \in Pools : z # f.pool => brother'[z] = brother[z]
        <5>1. CASE LinksBrother(t, f)
          BY <1>4, <5>1 DEF LinksBrother
        <5> QED BY <1>11, <5>1, GoesKeeps
      <4> QED BY <4>1, <4>2
    <3>4. \A u \in Threads : u # t => done'[u] = done[u]
      <4>1. CASE Cleared(t, f)
        BY <4>1, Types DEF Cleared
      <4> QED BY <1>11, <4>1, GoesKeeps
    <3> QED BY <1>9, <2>3, <3>1, <3>2, <3>3, <3>4
  <2> QED BY <2>2, <2>3
<1> QED BY <1>7, <1>8, <1>10, <1>11 DEF Takes

LEMMA CleanKept ==
  ASSUME TypeOK, ShapeInv, StacksInv, CreateInv, CleanInv, TypeOK', ShapeInv', StacksInv',
         NEW t \in Threads, Takes(t)
  PROVE  CleanInv'
<1>1. SUFFICES ASSUME NEW r \in Pools, CleanRoot(r)' PROVE TreeOK(r, owner[r])'
  BY DEF CleanInv
<1>2. PICK o \in Threads : o = owner'[r]
  BY DEF TypeOK
<1>3. SUFFICES TreeOK(r, o)'
  BY <1>2, TreeOwner
<1>4. Keeps /\ mixed \subseteq mixed'
  BY TakesKeeps, MixedGrows
<1>5. CASE Used(r)
  <2>1. CleanRoot(r) /\ owner'[r] = owner[r]
    BY <1>1, <1>4, <1>5, CleanBack
  <2>2. TreeOK(r, o)
    BY <1>2, <2>1 DEF CleanInv
  <2> QED BY <1>1, <1>2, <2>1, <2>2, TreeKept
<1>6. CASE ~ Used(r)
  <2>1. Used(r)' /\ mutex'[r] = r
    BY <1>1 DEF CleanRoot
  <2>2. state \in [Pools -> {"unused", "live", "freed"}] /\ mutex \in [Pools -> Pools \cup {NULL}]
        /\ parent \in [Pools -> Pools \cup {NULL}]
    BY Types
  <2>3. ASSUME NEW p \in Pools, CreatesRoot(t, p) PROVE TreeOK(r, o)'
    <3>1. /\ state' = [state EXCEPT ![p] = "live"] /\ parent' = [parent EXCEPT ![p] = NULL]
          /\ UNCHANGED <<stack, raced>>
      BY <2>3 DEF CreatesRoot, Creates
    <3>2. p = r
      BY <1>6, <2>1, <2>2, <3>1 DEF Used
    <3>3. \A z \in Pools : z # r /\ Used(z)' => Used(z)
      BY <2>2, <3>1, <3>2 DEF Used
    <3>4. parent'[r] = NULL
      BY <2>2, <3>1, <3>2
    <3> QED BY <1>4, <1>6, <3>1, <3>3, <3>4, TreeFresh
  <2>4. ASSUME NEW par \in Pools, NEW p \in Pools, CreatesChild(t, par, p) PROVE FALSE
    <3>1. /\ state' = [state EXCEPT ![p] = "live"] /\ mutex' = [mutex EXCEPT ![p] = mutex[par]]
          /\ Live(par)
      BY <2>4 DEF CreatesChild, Creates
    <3>2. p = r
      BY <1>6, <2>1, <2>2, <3>1 DEF Used
    <3>3. mutex[par] = r
      BY <2>1, <2>2, <3>1, <3>2
    <3> QED BY <1>6, <3>1, <3>3, LiveUsed DEF ShapeInv
  <2>5. ASSUME UNCHANGED state PROVE FALSE
    BY <1>6, <2>1, <2>5 DEF Used
  <2>6. ASSUME NEW f \in Frame, stack[t] # <<>>, f = stack[t][1], Goes(t, f) PROVE FALSE
    <3>1. Destroyed(t, f)
      BY <2>5, <2>6, GoesKeeps
    <3>2. state' = [state EXCEPT ![f.pool] = "freed"] /\ Used(f.pool)
      BY <2>6, <3>1, TopFrame DEF Destroyed, FrameOK
    <3> QED BY <1>6, <2>1, <2>2, <3>2 DEF Used
  <2> QED BY <2>3, <2>4, <2>5, <2>6 DEF Takes, Calls
<1> QED BY <1>5, <1>6

LEMMA CleanIdle ==
  ASSUME CleanInv,
         UNCHANGED <<state, owner, mutex, parent, brother, stack, done, mixed, raced>>
  PROVE  CleanInv'
BY SMTT(30) DEF CleanInv, CleanRoot, Clean, Members, Used, TreeOK, VisitsOK, VisitOK, ToVisit, Finished,
       InTree, Destroying

LEMMA CleanInit == Init => CleanInv
BY DEF Init, CleanInv, CleanRoot, Used

LEMMA CleanAlways == Spec => [](BaseInv /\ CreateInv /\ CleanInv)
<1>1. Init => BaseInv /\ CreateInv /\ CleanInv
  BY BaseInit, CreateInvInit, CleanInit
<1>2. BaseInv /\ CreateInv /\ CleanInv /\ [Next]_vars => (BaseInv /\ CreateInv /\ CleanInv)'
  <2> SUFFICES ASSUME BaseInv, CreateInv, CleanInv, [Next]_vars
               PROVE  (BaseInv /\ CreateInv /\ CleanInv)'
    OBVIOUS
  <2>1. TypeOK /\ ShapeInv /\ StacksInv
    BY DEF BaseInv
  <2>2. BaseInv' /\ TypeOK' /\ ShapeInv' /\ StacksInv'
    BY BaseNext DEF BaseInv
  <2>3. CASE Idle
    <3>1. UNCHANGED <<state, owner, mutex, parent, child, brother, stack, done, mixed, raced>>
      BY <2>3 DEF Idle
    <3> QED BY <2>2, <3>1, CreateInvIdle, CleanIdle
  <2>4. ASSUME NEW t \in Threads, Takes(t) PROVE CreateInv' /\ CleanInv'
    BY <2>1, <2>2, <2>4, CreateInvKept, CleanKept
  <2> QED BY <2>1, <2>2, <2>3, <2>4, NextTakes
<1> QED BY <1>1, <1>2, PTL DEF Spec

-----------------------------------------------------------------------------
(* Nothing of such a tree is used after it was freed.                      *)

(* When the root is freed, everything is: of the pools that are not freed  *)
(* the one created first would have a parent that is not freed either.     *)
LEMMA AllFreed ==
  ASSUME TypeOK, ShapeInv, NEW r \in Pools, NEW o, TreeOK(r, o), state[r] = "freed"
  PROVE  \A p \in Pools : Used(p) /\ mutex[p] = r => state[p] = "freed"
<1> DEFINE S == {p \in Pools : Used(p) /\ mutex[p] = r /\ state[p] # "freed"}
           N == {n \in Nat : \A p \in S : p > n}
<1>1. \A p \in Pools : p \in Nat /\ p > 0
  BY PoolFacts
<1>2. ASSUME NEW p \in S PROVE parent[p] \in S /\ parent[p] < p
  <2>1. p \in Pools /\ Used(p) /\ mutex[p] = r /\ state[p] # "freed"
    OBVIOUS
  <2>2. parent[p] # NULL
    BY <2>1 DEF ShapeInv
  <2>3. parent[p] \in Pools
    BY <2>1, <2>2, Types
  <2>4. Used(parent[p]) /\ parent[p] < p /\ mutex[parent[p]] = r
    BY <2>1, <2>2 DEF ShapeInv
  <2>5. state[parent[p]] # "freed"
    BY <2>1, <2>2 DEF TreeOK
  <2> QED BY <2>3, <2>4, <2>5
<1>3. \A p \in S : p \in Nat /\ p > 0
  BY <1>1
<1>4. 0 \in N
  BY <1>3
<1>5. ASSUME NEW n \in N PROVE n + 1 \in N
  <2>1. n \in Nat /\ \A p \in S : p > n
    OBVIOUS
  <2>2. ASSUME NEW p \in S PROVE p > n + 1
    <3>1. parent[p] \in S /\ parent[p] < p
      BY <1>2
    <3>2. parent[p] \in Nat /\ p \in Nat /\ parent[p] > n
      BY <1>3, <2>1, <3>1
    <3> QED BY <2>1, <3>1, <3>2
  <2> HIDE DEF S
  <2> QED BY <2>1, <2>2
<1>6. N = Nat
  <2>1. N \in SUBSET Nat
    OBVIOUS
  <2> HIDE DEF N
  <2> QED BY <1>4, <1>5, <2>1, SetInduction
<1>7. S = {}
  <2>1. SUFFICES ASSUME NEW p \in S PROVE FALSE
    OBVIOUS
  <2>2. p \in Nat /\ p \in N
    BY <1>3, <1>6
  <2>3. p > p
    BY <2>1, <2>2
  <2> QED BY <2>2, <2>3
<1> QED BY <1>7

(* The tree that a pool is in.                                             *)
LEMMA TreeOf ==
  ASSUME TypeOK, ShapeInv, CleanInv, NEW p \in Pools, Used(p), Clean(mutex[p])
  PROVE  mutex[p] \in Pools /\ CleanRoot(mutex[p]) /\ TreeOK(mutex[p], owner[mutex[p]])
<1>1. mutex[p] \in Pools /\ Used(mutex[p]) /\ mutex[mutex[p]] = mutex[p]
  BY DEF ShapeInv
<1> QED BY <1>1 DEF CleanRoot, CleanInv

(* What a step of thread t goes to is alive.                               *)
LEMMA ReachedAlive ==
  ASSUME TypeOK, ShapeInv, StacksInv, CleanInv, NEW t \in Threads, stack[t] # <<>>,
         NEW f \in Frame, f = stack[t][1], Clean(mutex[f.pool])
  PROVE  /\ Live(f.pool) /\ Live(mutex[f.pool])
         /\ f.op = "create" => Live(parent[f.pool])
         /\ f.pc = "walk" /\ f.temp # NULL => Live(f.temp)
<1>1. /\ f.pool \in Pools /\ FrameOK(t, f) /\ Used(f.pool) /\ f.temp \in Pools \cup {NULL}
      /\ 1 \in 1..Len(stack[t])
  BY TopFrame DEF FrameOK, Depth
<1>2. PICK r, o : r = mutex[f.pool] /\ o = owner[r]
  OBVIOUS
<1>3. r \in Pools /\ CleanRoot(r) /\ TreeOK(r, o)
  BY <1>1, <1>2, TreeOf
<1>4. InTree(stack[t], r)
  BY <1>2 DEF InTree
<1>5. t = o
  BY <1>3, <1>4 DEF TreeOK
<1>6. VisitOK(t, stack[t], 1)
  BY <1>1, <1>3, <1>4, <1>5 DEF TreeOK, VisitsOK
<1>7. Live(f.pool)
  BY <1>1, <1>6, StateValues DEF VisitOK
<1>8. Live(r)
  <2>1. state[r] # "freed"
    BY <1>1, <1>2, <1>3, <1>7, AllFreed DEF Live
  <2> QED BY <1>3, <2>1, StateValues DEF CleanRoot
<1>9. ASSUME f.op = "create" PROVE Live(parent[f.pool])
  <2>1. parent[f.pool] \in Pools
    BY <1>1, <1>9, Types DEF FrameOK
  <2>2. state[parent[f.pool]] = "live"
    BY <1>6, <1>9 DEF VisitOK
  <2> QED BY <2>1, <2>2, StateValues
<1>10. ASSUME f.pc = "walk", f.temp # NULL PROVE Live(f.temp)
  <2>1. PICK n, l : ToVisit(t, stack[t], 1, n, l)
    BY <1>6, <1>10 DEF VisitOK
  <2>2. n \in Nat /\ f.temp = IF n = 0 THEN 0 ELSE l[1]
    BY <2>1 DEF ToVisit, IsList
  <2>3. n # 0 /\ f.temp = l[1]
    BY <1>10, <2>2 DEF NULL
  <2>4. f.temp \in Elems(n, l)
    BY <2>2, <2>3 DEF Elems
  <2>5. state[f.temp] = "live" /\ f.temp \in Pools
    BY <1>1, <1>10, <2>1, <2>4 DEF ToVisit
  <2> QED BY <2>5, StateValues
<1> QED BY <1>2, <1>7, <1>8, <1>9, <1>10

LEMMA TouchedNotClean ==
  ASSUME TypeOK, ShapeInv, StacksInv, CleanInv, NEW t \in Threads, Step(t), fault' # NULL
  PROVE  ~ Clean(Root(fault))'
<1>1. fault = NULL /\ stack[t] # <<>>
  BY DEF Step, add_child, add_brother, enter, walk, clear_finish, destroy_finish, At
<1>2. PICK f : f = stack[t][1]
  OBVIOUS
<1>3. /\ Top(t) = f /\ f \in Frame /\ FrameOK(t, f) /\ f.pool \in Pools
      /\ f.temp \in Pools \cup {NULL} /\ Used(f.pool)
  BY <1>1, <1>2, TopFrame DEF FrameOK
<1>4. /\ mutex[f.pool] \in Pools /\ mutex[mutex[f.pool]] = mutex[f.pool]
      /\ parent[f.pool] # NULL => mutex[parent[f.pool]] = mutex[f.pool]
  BY <1>3 DEF ShapeInv
<1>5. ASSUME NEW p, Touches(p), mutex[p] = mutex[f.pool], ~ Clean(mutex[f.pool])
      PROVE  ~ Clean(Root(fault))'
  <2>1. fault' = p /\ UNCHANGED <<state, owner, mutex, mixed>>
    BY <1>5 DEF Touches, fields, ghosts
  <2>2. Root(fault)' = mutex[f.pool]
    BY <1>5, <2>1 DEF Root
  <2>3. Clean(Root(fault))' <=> Clean(mutex[f.pool])
    BY <2>1, <2>2 DEF Clean, Members
  <2> QED BY <1>5, <2>3
<1>6. Clean(mutex[f.pool]) => /\ Live(f.pool) /\ Live(mutex[f.pool])
                              /\ f.op = "create" => Live(parent[f.pool])
                              /\ f.pc = "walk" /\ f.temp # NULL => Live(f.temp)
  BY <1>1, <1>2, <1>3, ReachedAlive
<1>7. CASE add_child(t)
  <2>1. ~ Live(parent[f.pool]) /\ Touches(parent[f.pool]) /\ f.pc = "child"
    BY <1>1, <1>3, <1>7 DEF add_child, At
  <2>2. f.op = "create" /\ parent[f.pool] # NULL
    BY <1>3, <2>1 DEF FrameOK
  <2> QED BY <1>4, <1>5, <1>6, <2>1, <2>2
<1>8. CASE enter(t)
  <2>1. \/ ~ Live(f.pool) /\ Touches(f.pool)
        \/ ~ Live(mutex[f.pool]) /\ Touches(mutex[f.pool])
    BY <1>1, <1>3, <1>8 DEF enter, Root
  <2> QED BY <1>4, <1>5, <1>6, <2>1
<1>9. CASE walk(t)
  <2>1. ~ Live(f.temp) /\ Touches(f.temp) /\ f.pc = "walk" /\ f.temp # NULL
    BY <1>1, <1>3, <1>9 DEF walk, At
  <2>2. parent[f.temp] = f.pool /\ f.temp \in Pools
    BY <1>3, <2>1 DEF FrameOK
  <2>3. mutex[f.temp] = mutex[f.pool]
    BY <1>3, <2>2, PoolFacts DEF ShapeInv
  <2> QED BY <1>5, <1>6, <2>1, <2>3
<1>10. CASE clear_finish(t)
  <2>1. ~ Live(mutex[f.pool]) /\ Touches(mutex[f.pool])
    BY <1>1, <1>3, <1>10 DEF clear_finish, Root
  <2> QED BY <1>4, <1>5, <1>6, <2>1
<1> QED BY <1>1, <1>7, <1>8, <1>9, <1>10 DEF Step, add_brother, destroy_finish

(***************************************************************************)
(* No call on a tree that one thread has created and used alone, and of    *)
(* which it has destroyed no part before, touches a pool that was freed,   *)
(* and destroying its root frees all of it: spr_pool_destroy reads the     *)
(* brother of a child before it destroys the child, and frees a pool only  *)
(* after what is below it.                                                 *)
(***************************************************************************)
THEOREM TreeFreedOnce == Spec => []FreedOnce
<1>1. BaseInv /\ CleanInv => WholeTreeFreed
  <2> SUFFICES ASSUME BaseInv, CleanInv, NEW r \in Pools, state[r] = "freed", Root(r) = r, Clean(r),
                      NEW p \in Members(r)
               PROVE  state[p] = "freed"
    BY DEF WholeTreeFreed
  <2>1. TypeOK /\ ShapeInv
    BY DEF BaseInv
  <2>2. CleanRoot(r)
    BY DEF CleanRoot, Root, Used
  <2>3. TreeOK(r, owner[r])
    BY <2>2 DEF CleanInv
  <2> QED BY <2>1, <2>3, AllFreed DEF Members, Used
<1>2. BaseInv /\ CleanInv /\ NoFreedAccess /\ [Next]_vars => NoFreedAccess'
  <2> SUFFICES ASSUME BaseInv, CleanInv, NoFreedAccess, [Next]_vars, fault' # NULL
               PROVE  ~ Clean(Root(fault))'
    BY DEF NoFreedAccess
  <2>1. TypeOK /\ ShapeInv /\ StacksInv
    BY DEF BaseInv
  <2>2. CASE UNCHANGED vars
    <3>1. UNCHANGED <<state, owner, mutex, mixed, fault>>
      BY <2>2 DEF vars, fields, ghosts
    <3>2. ~ Clean(Root(fault))
      BY <3>1 DEF NoFreedAccess
    <3> QED BY <3>1, <3>2 DEF Clean, Root, Members
  <2>3. ASSUME NEW t \in Threads, NEW par, spr_pool_create1(t, par) PROVE FALSE
    BY <2>3 DEF spr_pool_create1
  <2>4. ASSUME NEW t \in Threads, NEW op, NEW p, Call(t, op, p) PROVE FALSE
    BY <2>4 DEF Call
  <2> QED BY <2>1, <2>2, <2>3, <2>4, TouchedNotClean DEF Next
<1>3. Init => NoFreedAccess
  BY DEF Init, NoFreedAccess
<1> QED BY <1>1, <1>2, <1>3, CleanAlways, PTL DEF Spec, FreedOnce

-----------------------------------------------------------------------------
(* What is below a pool.                                                   *)

IsBelow(w, p, n) ==
  w = [k \in 0..n |-> IF k = 0 THEN {p} ELSE w[k - 1] \cup {q \in Pools : parent[q] \in w[k - 1]}]

LEMMA BelowExists ==
  ASSUME NEW p, NEW n \in Nat
  PROVE  \E w : IsBelow(w, p, n)
<1> DEFINE S == {m \in Nat : \E w : IsBelow(w, p, m)}
<1>1. 0 \in S
  <2> DEFINE w == [k \in 0..0 |-> {p}]
  <2>1. IsBelow(w, p, 0)
    BY DEF IsBelow
  <2> QED BY <2>1
<1>2. ASSUME NEW m \in S PROVE m + 1 \in S
  <2>1. PICK w : IsBelow(w, p, m)
    OBVIOUS
  <2>2. m \in Nat
    OBVIOUS
  <2>3. PICK e : e = w[m] \cup {q \in Pools : parent[q] \in w[m]}
    OBVIOUS
  <2> DEFINE v == [k \in 0..(m + 1) |-> IF k = m + 1 THEN e ELSE w[k]]
  <2>4. ASSUME NEW k \in 0..(m + 1)
        PROVE  v[k] = IF k = 0 THEN {p} ELSE v[k - 1] \cup {q \in Pools : parent[q] \in v[k - 1]}
    <3>1. CASE k = m + 1
      <4>1. v[k] = e /\ v[k - 1] = w[m] /\ k # 0
        BY <2>2, <3>1
      <4> HIDE DEF v
      <4> QED BY <2>3, <4>1
    <3>2. CASE k = 0
      <4>1. v[k] = w[k] /\ k \in 0..m
        BY <2>2, <3>2
      <4>2. w[k] = {p}
        BY <2>1, <3>2, <4>1 DEF IsBelow
      <4> HIDE DEF v
      <4> QED BY <3>2, <4>1, <4>2
    <3>3. CASE k # 0 /\ k # m + 1
      <4>1. v[k] = w[k] /\ v[k - 1] = w[k - 1] /\ k \in 0..m
        BY <2>2, <3>3
      <4>2. w[k] = w[k - 1] \cup {q \in Pools : parent[q] \in w[k - 1]}
        BY <2>1, <3>3, <4>1 DEF IsBelow
      <4> HIDE DEF v
      <4> QED BY <3>3, <4>1, <4>2
    <3> QED BY <3>1, <3>2, <3>3
  <2>5. v = [k \in 0..(m + 1) |-> v[k]]
    OBVIOUS
  <2>6. IsBelow(v, p, m + 1)
    <3> HIDE DEF v
    <3> QED BY <2>4, <2>5 DEF IsBelow
  <2> QED BY <2>2, <2>6
<1>3. S \in SUBSET Nat
  OBVIOUS
<1>4. S = Nat
  <2> HIDE DEF S
  <2> QED BY <1>1, <1>2, <1>3, SetInduction
<1> QED BY <1>4

(* A set that has p and the children of each of its members has all pools  *)
(* below p.                                                                *)
LEMMA BelowIn ==
  ASSUME NEW p, NEW D, p \in D, \A q \in Pools : parent[q] \in D => q \in D
  PROVE  Below(p) \subseteq D
<1> DEFINE w == CHOOSE w : IsBelow(w, p, MaxPools)
<1>1. MaxPools \in Nat
  BY PoolFacts
<1>2. IsBelow(w, p, MaxPools)
  BY <1>1, BelowExists
<1>3. Below(p) = w[MaxPools]
  BY DEF Below, IsBelow
<1> HIDE DEF w
<1> DEFINE S == {n \in Nat : n <= MaxPools => w[n] \subseteq D}
<1>4. w[0] = {p} /\ \A k \in 1..MaxPools : w[k] = w[k - 1] \cup {q \in Pools : parent[q] \in w[k - 1]}
  BY <1>1, <1>2 DEF IsBelow
<1>5. 0 \in S
  BY <1>4
<1>6. ASSUME NEW n \in S PROVE n + 1 \in S
  <2>1. SUFFICES ASSUME n + 1 <= MaxPools PROVE w[n + 1] \subseteq D
    OBVIOUS
  <2>2. w[n] \subseteq D
    BY <1>1, <2>1
  <2>3. w[n + 1] = w[n] \cup {q \in Pools : parent[q] \in w[n]}
    <3>1. n + 1 \in 1..MaxPools /\ (n + 1) - 1 = n
      BY <1>1, <2>1
    <3>2. w[n + 1] = w[(n + 1) - 1] \cup {q \in Pools : parent[q] \in w[(n + 1) - 1]}
      BY <1>4, <3>1
    <3> QED BY <3>1, <3>2
  <2> QED BY <2>2, <2>3
<1>7. S = Nat
  <2>1. S \in SUBSET Nat
    OBVIOUS
  <2> HIDE DEF S
  <2> QED BY <1>5, <1>6, <2>1, SetInduction
<1>8. MaxPools \in S
  BY <1>1, <1>7
<1>9. w[MaxPools] \subseteq D
  BY <1>1, <1>8
<1> QED BY <1>3, <1>9

(* The last step of spr_pool_clear.                                        *)
LEMMA ClearReturns ==
  ASSUME BaseInv, CleanInv, [Next]_vars, NEW t \in Threads, Len(stack[t]) = 1,
         Top(t).op = "clear", stack'[t] = <<>>, NEW p, p = Top(t).pool, owner[p] = t, Clean(Root(p))
  PROVE  Below(p) \subseteq done'[t]
<1>1. TypeOK /\ ShapeInv /\ StacksInv
  BY DEF BaseInv
<1>2. stack[t] \in Seq(Frame) /\ stack[t] # <<>> /\ Len(stack'[t]) = 0
  <2>1. stack[t] \in Seq(Frame)
    BY <1>1, Types
  <2>2. Len(stack[t]) # 0 /\ Len(<<>>) = 0
    OBVIOUS
  <2>3. stack[t] # <<>>
    BY <2>2
  <2> QED BY <2>1, <2>2, <2>3
<1>3. PICK u \in Threads : Takes(u)
  <2>1. ~ Idle
    BY <1>2 DEF Idle
  <2> QED BY <1>1, <2>1, NextTakes
<1>4. u = t
  BY <1>2, <1>3 DEF Takes, Only
<1>5. Only(t) /\ stack' \in [Threads -> Seq(Frame)]
  BY <1>3, <1>4 DEF Takes
<1>6. PICK f \in Frame : f = stack[t][1] /\ Goes(t, f)
  BY <1>2, <1>3, <1>4 DEF Takes, CreatesRoot, CreatesChild, Creates, Calls
<1>7. f = Top(t) /\ f.op = "clear" /\ f.pool = p /\ p \in Pools /\ Used(p)
  BY <1>1, <1>2, <1>6, TopFrame DEF FrameOK
<1>8. Cleared(t, f)
  <2>1. ASSUME NEW g, Replaced(stack[t], stack'[t], g) PROVE FALSE
    BY <1>2, <2>1 DEF Replaced
  <2>2. ASSUME NEW e, NEW g, Grown(stack[t], stack'[t], e, g) PROVE FALSE
    BY <1>2, <2>2 DEF Grown
  <2>3. ~ LinksChild(t, f) /\ ~ Begins(t, f)
    BY <2>1 DEF LinksChild, Begins
  <2>4. ~ Visits(t, f)
    BY <2>2 DEF Visits
  <2>5. ~ LinksBrother(t, f) /\ ~ Refused(t, f) /\ ~ Destroyed(t, f)
    BY <1>7 DEF LinksBrother, Refused, Owned, Destroyed
  <2> QED BY <1>6, <2>3, <2>4, <2>5 DEF Goes
<1>9. PICK r, o : r = mutex[p] /\ o = owner[r]
  OBVIOUS
<1>10. r \in Pools /\ CleanRoot(r) /\ TreeOK(r, o)
  BY <1>1, <1>7, <1>9, TreeOf DEF Root
<1>11. t = o
  BY <1>2, <1>6, <1>7, <1>9, <1>10 DEF TreeOK, InTree
<1>12. \A y \in Pools : mutex[y] = r /\ parent[y] \in done'[t] => y \in done'[t]
  BY <1>1, <1>2, <1>5, <1>6, <1>7, <1>8, <1>9, <1>10, <1>11, TreeCleared
<1>13. p \in done'[t]
  BY <1>1, <1>7, <1>8, Types DEF Cleared
<1> DEFINE D == {y \in done'[t] : y \in Pools /\ mutex[y] = r}
<1>14. p \in D
  BY <1>7, <1>9, <1>13
<1>15. ASSUME NEW q \in Pools, parent[q] \in D PROVE q \in D
  <2>1. parent[q] \in Pools /\ mutex[parent[q]] = r /\ parent[q] \in done'[t]
    BY <1>15
  <2>2. mutex[q] = r
    BY <1>1, <2>1, PoolFacts DEF ShapeInv
  <2> QED BY <1>12, <2>1, <2>2
<1>16. Below(p) \subseteq D
  <2> HIDE DEF D
  <2> QED BY <1>14, <1>15, BelowIn
<1> QED BY <1>16

(* Only a thread that passes the owner check frees a pool, and in a tree   *)
(* of one thread that is its creator on Win32 too.                         *)
LEMMA OwnerFrees ==
  BaseInv /\ CleanInv /\ [Next]_vars =>
    [\A p \in Pools :
       /\ state[p] = "live" /\ state'[p] = "freed"
       /\ system = "posix" \/ Clean(Root(p))
       => stack'[owner[p]] # stack[owner[p]]]_vars
<1> SUFFICES ASSUME BaseInv, CleanInv, [Next]_vars, NEW p \in Pools, state[p] = "live",
                    state'[p] = "freed", system = "posix" \/ Clean(Root(p))
             PROVE  stack'[owner[p]] # stack[owner[p]]
  OBVIOUS
<1>1. TypeOK /\ ShapeInv /\ StacksInv
  BY DEF BaseInv
<1>2. state \in [Pools -> {"unused", "live", "freed"}] /\ ~ Idle
  BY <1>1, Types DEF Idle
<1>3. PICK t \in Threads : Takes(t)
  BY <1>1, <1>2, NextTakes
<1>4. ASSUME NEW x \in Pools, state' = [state EXCEPT ![x] = "live"] PROVE FALSE
  BY <1>2, <1>4
<1>5. PICK f \in Frame : stack[t] # <<>> /\ f = stack[t][1] /\ Goes(t, f)
  <2>1. ASSUME NEW x \in Pools, CreatesRoot(t, x) PROVE FALSE
    BY <1>4, <2>1 DEF CreatesRoot, Creates
  <2>2. ASSUME NEW par \in Pools, NEW x \in Pools, CreatesChild(t, par, x) PROVE FALSE
    BY <1>4, <2>2 DEF CreatesChild, Creates
  <2>3. ASSUME NEW op \in {"clear", "destroy"}, NEW x \in Pools, Calls(t, op, x) PROVE FALSE
    BY <2>3 DEF Calls
  <2> QED BY <1>3, <2>1, <2>2, <2>3 DEF Takes
<1>6. Destroyed(t, f)
  BY <1>5, GoesKeeps
<1>7. f.pool = p /\ f.pc = "walk" /\ Popped(stack[t], stack'[t])
  BY <1>2, <1>6 DEF Destroyed
<1>8. owner[p] = t
  <2>1. Owned(t, p) /\ Used(p)
    BY <1>1, <1>5, <1>7, TopFrame DEF FrameOK
  <2>2. CASE system = "posix"
    BY <2>1, <2>2 DEF Owned
  <2>3. CASE Clean(mutex[p])
    <3>1. TreeOK(mutex[p], owner[mutex[p]])
      BY <1>1, <2>1, <2>3, TreeOf
    <3>2. InTree(stack[t], mutex[p])
      BY <1>5, <1>7 DEF InTree
    <3>3. p \in Members(mutex[p])
      BY <2>1 DEF Members, Used
    <3> QED BY <2>3, <3>1, <3>2, <3>3 DEF TreeOK, Clean
  <2> QED BY <2>2, <2>3 DEF Root
<1>9. Len(stack[t]) \in Nat /\ Len(stack'[t]) # Len(stack[t])
  <2>1. Len(stack[t]) \in Nat
    BY <1>1, Types, LenProperties
  <2> QED BY <1>7, <2>1 DEF Popped
<1> QED BY <1>8, <1>9

(***************************************************************************)
(* No pool is freed but by a step of the thread that has created it,       *)
(* whoever calls spr_pool_destroy and on whichever tree: the owner check   *)
(* is made anew at each level of the recursion.  On Win32, where the check *)
(* lets everybody through, that is so for the trees that one thread has    *)
(* created and used alone.                                                 *)
(***************************************************************************)
THEOREM OnlyOwnerFrees == Spec => FreedByOwner
<1> QED BY CleanAlways, OwnerFrees, PTL DEF Spec, FreedByOwner

(***************************************************************************)
(* When spr_pool_clear returns to its client, it has cleared the pool and  *)
(* every pool below it, if the tree was created and used by the caller     *)
(* alone.  And no step but one of its creator's frees a pool: on any tree  *)
(* on the POSIX systems, and on Win32, where the owner check passes for    *)
(* all threads, on the trees that one thread alone has created and used.   *)
(***************************************************************************)
THEOREM RecursionVisitsAll == Spec => RecursionRight
<1>1. BaseInv /\ CleanInv /\ [Next]_vars =>
        [\A t \in Threads :
           Len(stack[t]) = 1 /\ Top(t).op = "clear" /\ stack'[t] = <<>> =>
             LET p == Top(t).pool
             IN  owner[p] = t /\ Clean(Root(p)) => Below(p) \subseteq done'[t]]_vars
  BY ClearReturns
<1>2. Spec => ClearReachesAll
  BY <1>1, CleanAlways, PTL DEF Spec, ClearReachesAll
<1> QED BY <1>2, OnlyOwnerFrees DEF RecursionRight
=============================================================================
