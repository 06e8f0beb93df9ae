---------------------------- MODULE SprDataProofs ---------------------------
(***************************************************************************)
(* What the operations on data compute, for data of any size.              *)
(*                                                                         *)
(* For every number of nodes and every chunk size, spr_list.c keeps its    *)
(* list linked backwards, loses no node and uses none twice, and, as long  *)
(* as the list stays Linked, changes the sequence it stands for as its     *)
(* functions are meant to.                                                 *)
(*                                                                         *)
(* For texts and buffers of every length, the functions on strings return  *)
(* what their definitions say, write their copies whole and inside their   *)
(* blocks, and paths mean the same after their conversion.                 *)
(***************************************************************************)
EXTENDS SprList, SprText, PointersProofs, SequenceTheorems

(* From h along nx, and from t back along pv, there are the nodes s[1],    *)
(* ..., s[n].  What is before the first and after the last is left open.   *)
Chain(h, t, n, s, nx, pv) ==
  /\ n \in Nat /\ s \in [1..n -> Node]
  /\ \A i, j \in 1..n : s[i] = s[j] => i = j
  /\ n # 0 => h = s[1] /\ t = s[n]
  /\ \A i \in 1..(n - 1) : nx[s[i]] = s[i + 1] /\ pv[s[i + 1]] = s[i]

(* The nodes 1..u are those of the list s and those of the free list r.    *)
Shared(n, s, c, r, u) ==
  /\ Elems(n, s) \cap Elems(c, r) = {}
  /\ Elems(n, s) \cup Elems(c, r) = 1..u

Kept(s, r) ==
  /\ Chain(head, tail, size, s, next, prev)
  /\ IsList(free_nodes, capacity, r, next, Node)
  /\ Shared(size, s, capacity, r, used)

IInv == TypeOK /\ \E s, r : Kept(s, r)

-----------------------------------------------------------------------------
(* Numbers and nodes.                                                      *)

LEMMA NodeFacts ==
  /\ MaxNodes \in Nat /\ Node = 1..MaxNodes /\ NULL = 0 /\ 0 \notin Node
  /\ IsFiniteSet(Node) /\ Cardinality(Node) = MaxNodes /\ Wild \notin Node
<1>1. MaxNodes \in Nat
  BY ListAssumption
<1>2. 0 \notin Node /\ Wild \notin Node
  BY <1>1 DEF Node, Wild
<1>3. IsFiniteSet(1..MaxNodes) /\ Cardinality(1..MaxNodes) = MaxNodes
  BY <1>1, FS_Interval
<1> QED BY <1>1, <1>2, <1>3 DEF Node, NULL

(* A set of numbers that is not empty has a smallest one, which Min gives. *)
LEMMA MinIsLeast ==
  ASSUME NEW S \in SUBSET Nat, S # {}
  PROVE  Min(S) \in S /\ \A y \in S : Min(S) <= y
<1> DEFINE T == {n \in Nat : \A y \in S : n <= y}
<1>1. 0 \in T
  OBVIOUS
<1>2. T # Nat
  <2>1. PICK y \in S : TRUE
    OBVIOUS
  <2>2. y + 1 \notin T
    BY <2>1
  <2> QED BY <2>1, <2>2
<1>3. T \in SUBSET Nat
  OBVIOUS
<1>4. PICK n \in T : n + 1 \notin T
  <2> HIDE DEF T
  <2> QED BY <1>1, <1>2, <1>3, SetInduction
<1>5. n \in Nat /\ \A y \in S : n <= y
  BY <1>4
<1>6. n \in S
  <2>1. PICK y \in S : ~ (n + 1 <= y)
    BY <1>4
  <2>2. y = n
    BY <1>5, <2>1
  <2> QED BY <2>2
<1>7. \E x \in S : \A y \in S : x <= y
  BY <1>5, <1>6
<1> QED BY <1>7 DEF Min

(* A chain that ends with NULL is a list.                                  *)
LEMMA ChainIsList ==
  ASSUME NEW h, NEW t, NEW n, NEW s, NEW nx, NEW pv, Chain(h, t, n, s, nx, pv),
         IF n = 0 THEN h = 0 ELSE nx[t] = 0
  PROVE  IsList(h, n, s, nx, Node)
<1>1. n \in Nat /\ s \in [1..n -> Node]
  BY DEF Chain
<1>2. ASSUME NEW i \in 1..n PROVE nx[s[i]] = IF i = n THEN 0 ELSE s[i + 1]
  <2>1. CASE i = n
    BY <1>1, <2>1 DEF Chain
  <2>2. CASE i # n
    <3>1. i \in 1..(n - 1)
      BY <1>1, <2>2
    <3> QED BY <2>2, <3>1 DEF Chain
  <2> QED BY <2>1, <2>2
<1> QED BY <1>1, <1>2 DEF Chain, IsList

(* A chain is not longer than there are nodes.                             *)
LEMMA ChainFits ==
  ASSUME NEW n \in Nat, NEW s \in [1..n -> Node], \A i, j \in 1..n : s[i] = s[j] => i = j
  PROVE  n <= MaxNodes /\ Cardinality(Elems(n, s)) = n
<1>1. IsFiniteSet(1..n) /\ Cardinality(1..n) = n
  BY FS_Interval
<1>2. Elems(n, s) \subseteq Node
  BY DEF Elems
<1>3. s \in Bijection(1..n, Elems(n, s))
  BY DEF Bijection, Injection, Surjection, IsInjective, Elems
<1>4. ExistsBijection(1..n, Elems(n, s))
  BY <1>3 DEF ExistsBijection
<1>5. Cardinality(Elems(n, s)) = n
  BY <1>1, <1>4, FS_Bijection
<1>6. Cardinality(Elems(n, s)) <= Cardinality(Node)
  BY <1>2, NodeFacts, FS_Subset
<1> QED BY <1>5, <1>6, NodeFacts

-----------------------------------------------------------------------------
(* What the inductive invariant says.                                      *)

LEMMA KeptBack ==
  ASSUME TypeOK, NEW s, NEW r, Kept(s, r)
  PROVE  BackLinked
<1>1. /\ size \in Nat /\ s \in [1..size -> Node]
      /\ \A i, j \in 1..size : s[i] = s[j] => i = j
      /\ size # 0 => head = s[1] /\ tail = s[size]
      /\ \A i \in 1..(size - 1) : next[s[i]] = s[i + 1] /\ prev[s[i + 1]] = s[i]
  BY DEF Kept, Chain
<1>2. SUFFICES ASSUME size # 0
               PROVE  /\ size <= MaxNodes
                      /\ \A k \in 0..(size - 1) : Way(tail, prev, MaxNodes)[k] \in Node
                      /\ \A k \in 1..(size - 1) :
                           next[Way(tail, prev, MaxNodes)[k]] = Way(tail, prev, MaxNodes)[k - 1]
                      /\ Way(tail, prev, MaxNodes)[size - 1] = head
  BY DEF BackLinked
<1>3. size <= MaxNodes
  BY <1>1, ChainFits
<1> DEFINE e == [k \in 0..(size - 1) |-> s[size - k]]
           b == Way(tail, prev, MaxNodes)
<1>4. e[0] = tail
  BY <1>1, <1>2
<1>5. DOMAIN prev = Node
  BY DEF TypeOK
<1>6. ASSUME NEW k \in 1..(size - 1) PROVE e[k] = After(prev, e[k - 1]) /\ next[e[k]] = e[k - 1]
  <2>1. size - k \in 1..(size - 1) /\ (size - k) + 1 = size - (k - 1) /\ k - 1 \in 0..(size - 1)
        /\ size - (k - 1) \in 1..size
    BY <1>1
  <2>2. e[k] = s[size - k] /\ e[k - 1] = s[size - (k - 1)]
    BY <2>1
  <2>3. prev[s[size - (k - 1)]] = s[size - k] /\ next[s[size - k]] = s[size - (k - 1)]
    BY <1>1, <2>1
  <2>4. s[size - (k - 1)] \in Node
    BY <1>1, <2>1
  <2> QED BY <1>5, <2>2, <2>3, <2>4 DEF After
<1>7. \A k \in 0..(size - 1) : b[k] = e[k]
  <2>1. size - 1 \in 0..MaxNodes
    BY <1>1, <1>2, <1>3, NodeFacts
  <2>2. MaxNodes \in Nat
    BY NodeFacts
  <2>3. \A k \in 1..(size - 1) : e[k] = After(prev, e[k - 1])
    BY <1>6
  <2> DEFINE m == size - 1
  <2> HIDE DEF e, m
  <2>4. e[0] = tail /\ m \in 0..MaxNodes /\ \A k \in 1..m : e[k] = After(prev, e[k - 1])
    BY <1>4, <2>1, <2>3 DEF m
  <2>5. \A k \in 0..m : b[k] = e[k]
    BY SMTT(30), <2>2, <2>4, WayFollows
  <2> QED BY <2>5 DEF m
<1>8. \A k \in 0..(size - 1) : e[k] \in Node
  BY <1>1
<1>9. e[size - 1] = head
  BY <1>1, <1>2
<1>10. \A k \in 1..(size - 1) : k \in 0..(size - 1) /\ k - 1 \in 0..(size - 1)
  BY <1>1
<1>11. size - 1 \in 0..(size - 1)
  BY <1>1, <1>2
<1> HIDE DEF e, b
<1>12. \A k \in 1..(size - 1) : next[b[k]] = b[k - 1]
  BY <1>6, <1>7, <1>10
<1>13. (\A k \in 0..(size - 1) : b[k] \in Node) /\ b[size - 1] = head
  BY <1>7, <1>8, <1>9, <1>11
<1> QED BY <1>3, <1>12, <1>13 DEF b

(* The walk from head meets the nodes of the list.                         *)
LEMMA KeptForth ==
  ASSUME TypeOK, NEW s, NEW r, Kept(s, r)
  PROVE  \A k \in 0..(size - 1) : Way(head, next, MaxNodes)[k] = s[k + 1]
<1>1. /\ size \in Nat /\ s \in [1..size -> Node]
      /\ \A i, j \in 1..size : s[i] = s[j] => i = j
      /\ size # 0 => head = s[1] /\ tail = s[size]
      /\ \A i \in 1..(size - 1) : next[s[i]] = s[i + 1] /\ prev[s[i + 1]] = s[i]
  BY DEF Kept, Chain
<1>2. CASE size = 0
  BY <1>1, <1>2
<1>3. CASE size # 0
  <2>1. size <= MaxNodes
    BY <1>1, ChainFits
  <2> DEFINE e == [k \in 0..(size - 1) |-> s[k + 1]]
  <2>2. e[0] = head
    BY <1>1, <1>3
  <2>3. DOMAIN next = Node
    BY DEF TypeOK
  <2>4. ASSUME NEW k \in 1..(size - 1) PROVE e[k] = After(next, e[k - 1])
    <3>1. k - 1 \in 0..(size - 1) /\ e[k] = s[k + 1] /\ e[k - 1] = s[k] /\ s[k] \in Node
      BY <1>1
    <3>2. next[s[k]] = s[k + 1]
      BY <1>1
    <3> QED BY <2>3, <3>1, <3>2 DEF After
  <2>5. \A k \in 0..(size - 1) : Way(head, next, MaxNodes)[k] = e[k]
    <3>1. size - 1 \in 0..MaxNodes
      BY <1>1, <1>3, <2>1, NodeFacts
    <3>2. MaxNodes \in Nat
      BY NodeFacts
    <3> DEFINE m == size - 1
    <3> HIDE DEF e, m
    <3>4. e[0] = head /\ m \in 0..MaxNodes /\ \A k \in 1..m : e[k] = After(next, e[k - 1])
      BY <2>2, <2>4, <3>1 DEF m
    <3>5. \A k \in 0..m : Way(head, next, MaxNodes)[k] = e[k]
      BY <3>2, <3>4, WayFollows
    <3> QED BY <3>5 DEF m
  <2> QED BY <2>5
<1> QED BY <1>2, <1>3

LEMMA KeptCounted ==
  ASSUME TypeOK, NEW s, NEW r, Kept(s, r)
  PROVE  FreeNodesCounted
<1> DEFINE f      == Way(free_nodes, next, MaxNodes)
           free   == {k \in 0..MaxNodes : f[k] \in Node}
           listed == {Way(head, next, MaxNodes)[k] : k \in 0..(size - 1)}
<1>0. /\ IsList(free_nodes, capacity, r, next, Node)
      /\ capacity \in Nat /\ r \in [1..capacity -> Node]
      /\ \A i, j \in 1..capacity : r[i] = r[j] => i = j
      /\ size \in Nat
  BY DEF Kept, IsList, Chain
<1>1. /\ capacity <= MaxNodes
      /\ \A k \in 0..MaxNodes : f[k] = IF k < capacity THEN r[k + 1] ELSE 0
  <2>1. DOMAIN next = Node
    BY DEF TypeOK
  <2>2. MaxNodes >= Cardinality(Node)
    BY NodeFacts
  <2> QED BY <1>0, <2>1, <2>2, NodeFacts, ListWay
<1>2. listed = Elems(size, s)
  <2>1. \A k \in 0..(size - 1) : Way(head, next, MaxNodes)[k] = s[k + 1] /\ k + 1 \in 1..size
    BY <1>0, KeptForth
  <2>2. \A i \in 1..size : i - 1 \in 0..(size - 1) /\ (i - 1) + 1 = i
    BY <1>0
  <2> QED BY <2>1, <2>2 DEF Elems
<1> HIDE DEF f, listed
<1>3. \A k \in 0..MaxNodes : f[k] \in Node <=> k < capacity
  BY <1>0, <1>1, NodeFacts
<1>4. free = 0..(capacity - 1)
  BY <1>0, <1>1, <1>3, NodeFacts
<1>5. {f[k] : k \in free} = Elems(capacity, r)
  <2> HIDE DEF free
  <2>1. \A k \in 0..(capacity - 1) : f[k] = r[k + 1] /\ k + 1 \in 1..capacity
    BY <1>0, <1>1, NodeFacts
  <2>2. \A i \in 1..capacity : i - 1 \in 0..(capacity - 1) /\ (i - 1) + 1 = i
    BY <1>0
  <2> QED BY <1>4, <2>1, <2>2 DEF Elems
<1>6. Cardinality(free) = capacity
  <2>1. capacity - 1 \in Int
    BY <1>0
  <2>2. Cardinality(0..(capacity - 1)) = IF 0 > capacity - 1 THEN 0 ELSE (capacity - 1) - 0 + 1
    BY <2>1, FS_Interval
  <2> HIDE DEF free
  <2> QED BY <1>0, <1>4, <2>2
<1>7. Cardinality({f[k] : k \in free}) = capacity
  BY <1>0, <1>5, ChainFits
<1>8. /\ {f[k] : k \in free} \cap listed = {}
      /\ {f[k] : k \in free} \cup listed = 1..used
  <2> HIDE DEF free
  <2> QED BY <1>2, <1>5 DEF Kept, Shared
<1> QED BY <1>6, <1>7, <1>8 DEF FreeNodesCounted, f, listed

-----------------------------------------------------------------------------
(* What the calls do to a chain and to the list of free nodes.             *)

(* The pointers between the nodes of s are the same in both.               *)
SameLinks(n, s, nx, pv, nx2, pv2) ==
  \A i \in 1..(n - 1) : nx2[s[i]] = nx[s[i]] /\ pv2[s[i + 1]] = pv[s[i + 1]]

Appended(c, n, s) == [i \in 1..(n + 1) |-> IF i = n + 1 THEN c ELSE s[i]]

EndsAppend(c, n, h, t, g, nx2, pv2) ==
  /\ n = 0 => g = c
  /\ n # 0 => g = h /\ nx2[t] = c /\ pv2[c] = t

LEMMA ChainAppend ==
  ASSUME NEW h, NEW t, NEW n, NEW s, NEW nx, NEW pv, Chain(h, t, n, s, nx, pv),
         NEW c \in Node, c \notin Elems(n, s), NEW g, NEW nx2, NEW pv2,
         EndsAppend(c, n, h, t, g, nx2, pv2),
         SameLinks(n, s, nx, pv, nx2, pv2)
  PROVE  /\ Chain(g, c, n + 1, Appended(c, n, s), nx2, pv2)
         /\ Elems(n + 1, Appended(c, n, s)) = Elems(n, s) \cup {c}
<1> DEFINE v == Appended(c, n, s)
<1>1. /\ n \in Nat /\ s \in [1..n -> Node]
      /\ \A i, j \in 1..n : s[i] = s[j] => i = j
      /\ \A i \in 1..n : c # s[i]
      /\ n # 0 => h = s[1] /\ t = s[n]
      /\ \A i \in 1..(n - 1) : nx[s[i]] = s[i + 1] /\ pv[s[i + 1]] = s[i]
  BY DEF Chain, Elems
<1>2. v[n + 1] = c /\ \A i \in 1..n : v[i] = s[i]
  BY <1>1 DEF Appended
<1>3. v \in [1..(n + 1) -> Node]
  BY <1>1 DEF Appended
<1>4. \A i \in 1..(n + 1) : i = n + 1 \/ i \in 1..n
  BY <1>1
<1> HIDE DEF v
<1>5. \A i, j \in 1..(n + 1) : v[i] = v[j] => i = j
  <2>1. SUFFICES ASSUME NEW i \in 1..(n + 1), NEW j \in 1..(n + 1), v[i] = v[j] PROVE i = j
    OBVIOUS
  <2>2. CASE i = n + 1 \/ j = n + 1
    BY <1>1, <1>2, <1>4, <2>1, <2>2
  <2>3. CASE i # n + 1 /\ j # n + 1
    <3>1. i \in 1..n /\ j \in 1..n
      BY <1>4, <2>3
    <3> QED BY <1>1, <1>2, <2>1, <3>1
  <2> QED BY <2>2, <2>3
<1>6. g = v[1] /\ c = v[n + 1]
  <2>1. CASE n = 0
    BY <1>2, <2>1 DEF EndsAppend
  <2>2. CASE n # 0
    <3>1. 1 \in 1..n
      BY <1>1, <2>2
    <3> QED BY <1>1, <1>2, <2>2, <3>1 DEF EndsAppend
  <2> QED BY <2>1, <2>2
<1>7. ASSUME NEW i \in 1..((n + 1) - 1) PROVE nx2[v[i]] = v[i + 1] /\ pv2[v[i + 1]] = v[i]
  <2>0. i \in 1..n /\ n # 0
    BY <1>1
  <2>1. CASE i = n
    BY <1>1, <1>2, <2>0, <2>1 DEF EndsAppend
  <2>2. CASE i # n
    <3>1. i \in 1..(n - 1) /\ i + 1 \in 1..n
      BY <1>1, <2>0, <2>2
    <3> QED BY <1>1, <1>2, <2>0, <3>1 DEF SameLinks
  <2> QED BY <2>1, <2>2
<1>8. Elems(n + 1, v) = Elems(n, s) \cup {c}
  <2>1. \A i \in 1..n : i \in 1..(n + 1)
    BY <1>1
  <2>2. n + 1 \in 1..(n + 1)
    BY <1>1
  <2> QED BY <1>2, <1>4, <2>1, <2>2 DEF Elems
<1>9. n + 1 \in Nat
  BY <1>1
<1> QED BY <1>3, <1>5, <1>6, <1>7, <1>8, <1>9 DEF Chain, v

EndsPush(c, n, h, t, u, nx2, pv2) ==
  /\ n = 0 => u = c
  /\ n # 0 => u = t /\ nx2[c] = h /\ pv2[h] = c

LEMMA ChainPush ==
  ASSUME NEW h, NEW t, NEW n, NEW s, NEW nx, NEW pv, Chain(h, t, n, s, nx, pv),
         NEW c \in Node, c \notin Elems(n, s), NEW u, NEW nx2, NEW pv2,
         EndsPush(c, n, h, t, u, nx2, pv2),
         SameLinks(n, s, nx, pv, nx2, pv2)
  PROVE  /\ Chain(c, u, n + 1, Pushed(c, n, s), nx2, pv2)
         /\ Elems(n + 1, Pushed(c, n, s)) = Elems(n, s) \cup {c}
<1> DEFINE v == Pushed(c, n, s)
<1>1. /\ n \in Nat /\ s \in [1..n -> Node]
      /\ \A i, j \in 1..n : s[i] = s[j] => i = j
      /\ \A i \in 1..n : c # s[i]
      /\ n # 0 => h = s[1] /\ t = s[n]
      /\ \A i \in 1..(n - 1) : nx[s[i]] = s[i + 1] /\ pv[s[i + 1]] = s[i]
  BY DEF Chain, Elems
<1>2. v[1] = c /\ \A i \in 1..n : v[i + 1] = s[i]
  BY <1>1 DEF Pushed
<1>3. v \in [1..(n + 1) -> Node]
  BY <1>1 DEF Pushed
<1>4. \A i \in 1..(n + 1) : i = 1 \/ (i - 1 \in 1..n /\ v[i] = s[i - 1])
  <2>1. \A i \in 1..(n + 1) : i = 1 \/ (i - 1 \in 1..n /\ (i - 1) + 1 = i)
    BY <1>1
  <2> QED BY <1>2, <2>1 DEF Pushed
<1> HIDE DEF v
<1>5. \A i, j \in 1..(n + 1) : v[i] = v[j] => i = j
  <2>1. SUFFICES ASSUME NEW i \in 1..(n + 1), NEW j \in 1..(n + 1), v[i] = v[j] PROVE i = j
    OBVIOUS
  <2>2. CASE i = 1 \/ j = 1
    BY <1>1, <1>2, <1>4, <2>1, <2>2
  <2>3. CASE i # 1 /\ j # 1
    <3>1. i - 1 = j - 1
      BY <1>1, <1>4, <2>1, <2>3
    <3> QED BY <3>1
  <2> QED BY <2>2, <2>3
<1>6. c = v[1] /\ u = v[n + 1]
  <2>1. CASE n = 0
    BY <1>2, <2>1 DEF EndsPush
  <2>2. CASE n # 0
    <3>1. n \in 1..n
      BY <1>1, <2>2
    <3> QED BY <1>1, <1>2, <2>2, <3>1 DEF EndsPush
  <2> QED BY <2>1, <2>2
<1>7. ASSUME NEW i \in 1..((n + 1) - 1) PROVE nx2[v[i]] = v[i + 1] /\ pv2[v[i + 1]] = v[i]
  <2>0. i \in 1..n /\ n # 0
    BY <1>1
  <2>1. CASE i = 1
    BY <1>1, <1>2, <2>0, <2>1 DEF EndsPush
  <2>2. CASE i # 1
    <3> DEFINE j == i - 1
    <3>1. j \in 1..(n - 1) /\ j \in 1..n /\ j + 1 = i
      BY <1>1, <2>0, <2>2
    <3> HIDE DEF j
    <3>2. v[i] = s[j] /\ v[i + 1] = s[j + 1]
      BY <1>2, <2>0, <3>1
    <3> QED BY <1>1, <3>1, <3>2 DEF SameLinks
  <2> QED BY <2>1, <2>2
<1>8. Elems(n + 1, v) = Elems(n, s) \cup {c}
  <2>1. \A i \in 1..n : i + 1 \in 1..(n + 1)
    BY <1>1
  <2>2. 1 \in 1..(n + 1)
    BY <1>1
  <2>3. ASSUME NEW x \in Elems(n + 1, v) PROVE x \in Elems(n, s) \cup {c}
    BY <1>2, <1>4 DEF Elems
  <2>4. ASSUME NEW x \in Elems(n, s) \cup {c} PROVE x \in Elems(n + 1, v)
    BY <1>2, <2>1, <2>2 DEF Elems
  <2> QED BY <2>3, <2>4
<1>9. n + 1 \in Nat
  BY <1>1
<1> QED BY <1>3, <1>5, <1>6, <1>7, <1>8, <1>9 DEF Chain, v

EndsDrop(k, n, s, h, t, g, u) ==
  n > 1 => /\ g = IF k = 1 THEN s[2] ELSE h
           /\ u = IF k = n THEN s[n - 1] ELSE t

LinksDrop(k, n, s, nx, pv, nx2, pv2) ==
  /\ \A i \in 1..(n - 1) : i # k /\ i + 1 # k =>
        nx2[s[i]] = nx[s[i]] /\ pv2[s[i + 1]] = pv[s[i + 1]]
  /\ 1 < k /\ k < n => nx2[s[k - 1]] = s[k + 1] /\ pv2[s[k + 1]] = s[k - 1]

LEMMA ChainDrop ==
  ASSUME NEW h, NEW t, NEW n, NEW s, NEW nx, NEW pv, Chain(h, t, n, s, nx, pv),
         NEW k \in 1..n, NEW g, NEW u, NEW nx2, NEW pv2,
         EndsDrop(k, n, s, h, t, g, u), LinksDrop(k, n, s, nx, pv, nx2, pv2)
  PROVE  /\ Chain(g, u, n - 1, Dropped(k, n, s), nx2, pv2)
         /\ Elems(n - 1, Dropped(k, n, s)) = Elems(n, s) \ {s[k]}
<1> DEFINE v == Dropped(k, n, s)
<1>1. /\ n \in Nat /\ s \in [1..n -> Node]
      /\ \A i, j \in 1..n : s[i] = s[j] => i = j
      /\ n # 0 => h = s[1] /\ t = s[n]
      /\ \A i \in 1..(n - 1) : nx[s[i]] = s[i + 1] /\ pv[s[i + 1]] = s[i]
  BY DEF Chain
<1>2. k \in Nat /\ n >= 1 /\ n - 1 \in Nat
  BY <1>1
<1>3. /\ \A i \in 1..(n - 1) : i < k => v[i] = s[i]
      /\ \A i \in 1..(n - 1) : ~ (i < k) => v[i] = s[i + 1]
  BY DEF Dropped
<1>4. \A i \in 1..(n - 1) : i \in 1..n /\ i + 1 \in 1..n
  BY <1>1
<1>5. v \in [1..(n - 1) -> Node]
  BY <1>1, <1>4 DEF Dropped
<1> HIDE DEF v
<1>6. \A i, j \in 1..(n - 1) : v[i] = v[j] => i = j
  <2>1. SUFFICES ASSUME NEW i \in 1..(n - 1), NEW j \in 1..(n - 1), v[i] = v[j] PROVE i = j
    OBVIOUS
  <2> QED BY <1>1, <1>2, <1>3, <1>4, <2>1
<1>7. ASSUME n - 1 # 0 PROVE g = v[1] /\ u = v[n - 1]
  <2>1. n > 1 /\ 1 \in 1..(n - 1) /\ n - 1 \in 1..(n - 1) /\ (n - 1) + 1 = n /\ n # 0 /\ 1 + 1 = 2
    BY <1>1, <1>2, <1>7
  <2>2. g = v[1]
    <3>1. CASE k = 1
      <4>1. ~ (1 < k)
        BY <3>1
      <4> QED BY <1>3, <2>1, <3>1, <4>1 DEF EndsDrop
    <3>2. CASE k # 1
      <4>1. 1 < k
        BY <1>2, <3>2
      <4> QED BY <1>1, <1>3, <2>1, <3>2, <4>1 DEF EndsDrop
    <3> QED BY <3>1, <3>2
  <2>3. u = v[n - 1]
    <3>1. CASE k = n
      <4>1. n - 1 < k
        BY <1>1, <3>1
      <4> QED BY <1>3, <2>1, <3>1, <4>1 DEF EndsDrop
    <3>2. CASE k # n
      <4>1. ~ (n - 1 < k)
        BY <1>1, <3>2
      <4> QED BY <1>1, <1>3, <2>1, <3>2, <4>1 DEF EndsDrop
    <3> QED BY <3>1, <3>2
  <2> QED BY <2>2, <2>3
<1>8. ASSUME NEW i \in 1..((n - 1) - 1) PROVE nx2[v[i]] = v[i + 1] /\ pv2[v[i + 1]] = v[i]
  <2>0. i \in 1..(n - 1) /\ i + 1 \in 1..(n - 1) /\ i \in Nat /\ i + 1 # n
    BY <1>1
  <2>1. CASE i + 1 < k
    <3>0. i < k
      BY <1>2, <2>0, <2>1
    <3>1. v[i] = s[i] /\ v[i + 1] = s[i + 1] /\ i # k /\ i + 1 # k
      BY <1>2, <1>3, <2>0, <2>1, <3>0
    <3> QED BY <1>1, <2>0, <3>1 DEF LinksDrop
  <2>2. CASE i + 1 = k
    <3>0. i < k /\ ~ (i + 1 < k) /\ 1 < k /\ k < n /\ k - 1 = i /\ (i + 1) + 1 = k + 1
      BY <1>1, <1>2, <2>0, <2>2
    <3>1. v[i] = s[i] /\ v[i + 1] = s[(i + 1) + 1]
      BY <1>3, <2>0, <3>0
    <3> QED BY <3>0, <3>1 DEF LinksDrop
  <2>3. CASE ~ (i + 1 < k) /\ i + 1 # k
    <3> DEFINE j == i + 1
    <3>0. ~ (i < k) /\ j \in 1..(n - 1) /\ j # k /\ j + 1 # k /\ ~ (j < k)
      BY <1>2, <2>0, <2>3
    <3>1. v[i] = s[j] /\ v[j] = s[j + 1]
      BY <1>3, <2>0, <3>0
    <3> HIDE DEF j
    <3>2. nx2[v[i]] = v[j] /\ pv2[v[j]] = v[i]
      BY <1>1, <3>0, <3>1 DEF LinksDrop
    <3> QED BY <3>2 DEF j
  <2> QED BY <2>1, <2>2, <2>3
<1>9. Elems(n - 1, v) = Elems(n, s) \ {s[k]}
  <2>1. ASSUME NEW x \in Elems(n - 1, v) PROVE x \in Elems(n, s) \ {s[k]}
    <3>1. PICK i \in 1..(n - 1) : x = v[i]
      BY DEF Elems
    <3>2. CASE i < k
      <4>1. x = s[i] /\ i # k /\ i \in 1..n
        BY <1>2, <1>3, <1>4, <3>1, <3>2
      <4> QED BY <1>1, <4>1 DEF Elems
    <3>3. CASE ~ (i < k)
      <4>1. x = s[i + 1] /\ i + 1 # k /\ i + 1 \in 1..n
        BY <1>2, <1>3, <1>4, <3>1, <3>3
      <4> QED BY <1>1, <4>1 DEF Elems
    <3> QED BY <3>2, <3>3
  <2>2. ASSUME NEW x \in Elems(n, s) \ {s[k]} PROVE x \in Elems(n - 1, v)
    <3>1. PICK i \in 1..n : x = s[i] /\ i # k
      BY DEF Elems
    <3>2. CASE i < k
      <4>1. i \in 1..(n - 1) /\ v[i] = x
        BY <1>1, <1>2, <1>3, <3>1, <3>2
      <4> QED BY <4>1 DEF Elems
    <3>3. CASE ~ (i < k)
      <4>1. i - 1 \in 1..(n - 1) /\ ~ (i - 1 < k) /\ (i - 1) + 1 = i
        BY <1>1, <1>2, <3>1, <3>3
      <4>2. v[i - 1] = x
        BY <1>3, <3>1, <4>1
      <4> QED BY <4>1, <4>2 DEF Elems
    <3> QED BY <3>2, <3>3
  <2> QED BY <2>1, <2>2
<1> QED BY <1>2, <1>5, <1>6, <1>7, <1>8, <1>9 DEF Chain, v

(* The nodes a + 1 .. a + m put in front of the free ones, one by one.     *)
Extended(a, m, c, r) == [i \in 1..(c + m) |-> IF i <= m THEN a + m + 1 - i ELSE r[i - m]]

InFront(a, m, f, nx, nx2) ==
  \A p \in Node : nx2[p] = IF p \notin (a + 1)..(a + m) THEN nx[p]
                           ELSE IF p = a + 1 THEN f ELSE p - 1

Apart(a, m, c, r) == (a + 1)..(a + m) \cap Elems(c, r) = {}

LEMMA ChunkList ==
  ASSUME NEW f, NEW c, NEW r, NEW nx, IsList(f, c, r, nx, Node),
         NEW a \in Nat, NEW m \in Nat, a + m <= MaxNodes,
         Apart(a, m, c, r), NEW nx2, InFront(a, m, f, nx, nx2),
         NEW g, g = IF m = 0 THEN f ELSE a + m
  PROVE  /\ IsList(g, c + m, Extended(a, m, c, r), nx2, Node)
         /\ Elems(c + m, Extended(a, m, c, r)) = Elems(c, r) \cup (a + 1)..(a + m)
<1> DEFINE v == Extended(a, m, c, r)
<1>1. /\ c \in Nat /\ r \in [1..c -> Node]
      /\ \A i, j \in 1..c : r[i] = r[j] => i = j
      /\ f = IF c = 0 THEN 0 ELSE r[1]
      /\ \A i \in 1..c : nx[r[i]] = IF i = c THEN 0 ELSE r[i + 1]
      /\ \A i \in 1..c : r[i] \notin (a + 1)..(a + m)
  BY DEF IsList, Elems, Apart
<1>2. c + m \in Nat /\ c + m - m = c
  BY <1>1
<1>3. \A i \in 1..m : v[i] = a + m + 1 - i /\ v[i] \in (a + 1)..(a + m)
  BY <1>1 DEF Extended
<1>4. \A i \in 1..c : v[i + m] = r[i] /\ i + m \in 1..(c + m)
  <2>1. \A i \in 1..c : i + m \in 1..(c + m) /\ ~ (i + m <= m) /\ (i + m) - m = i
    BY <1>1
  <2> QED BY <2>1 DEF Extended
<1>5. \A i \in 1..(c + m) : i \in 1..m \/ (i - m \in 1..c /\ (i - m) + m = i)
  BY <1>1
<1>6. (a + 1)..(a + m) \subseteq Node
  BY NodeFacts
<1>7. v \in [1..(c + m) -> Node]
  <2>1. ASSUME NEW i \in 1..(c + m) PROVE v[i] \in Node
    <3>1. CASE i \in 1..m
      BY <1>3, <1>6, <3>1
    <3>2. CASE i \notin 1..m
      <4>1. i - m \in 1..c /\ (i - m) + m = i
        BY <1>5, <3>2
      <4>2. v[i] = r[i - m]
        BY <1>4, <4>1
      <4> QED BY <1>1, <4>1, <4>2
    <3> QED BY <3>1, <3>2
  <2>2. v = [i \in 1..(c + m) |-> v[i]]
    BY DEF Extended
  <2> HIDE DEF v
  <2> QED BY <2>1, <2>2
<1> HIDE DEF v
<1>8. \A i, j \in 1..(c + m) : v[i] = v[j] => i = j
  <2>1. SUFFICES ASSUME NEW i \in 1..(c + m), NEW j \in 1..(c + m), v[i] = v[j] PROVE i = j
    OBVIOUS
  <2>2. CASE i \in 1..m /\ j \in 1..m
    BY <1>3, <2>1, <2>2
  <2>3. ASSUME NEW x \in 1..(c + m), x \notin 1..m PROVE x - m \in 1..c /\ v[x] = r[x - m]
    <3>1. x - m \in 1..c /\ (x - m) + m = x
      BY <1>5, <2>3
    <3> QED BY <1>4, <3>1
  <2>4. CASE i \in 1..m /\ j \notin 1..m
    BY <1>1, <1>3, <2>1, <2>3, <2>4
  <2>5. CASE i \notin 1..m /\ j \in 1..m
    BY <1>1, <1>3, <2>1, <2>3, <2>5
  <2>6. CASE i \notin 1..m /\ j \notin 1..m
    <3>1. i - m = j - m
      BY <1>1, <2>1, <2>3, <2>6
    <3> QED BY <3>1
  <2> QED BY <2>2, <2>4, <2>5, <2>6
<1>9. g = IF c + m = 0 THEN 0 ELSE v[1]
  <2>1. CASE m = 0
    <3>1. CASE c = 0
      BY <1>1, <2>1, <3>1
    <3>2. CASE c # 0
      <4>1. 1 \in 1..c /\ 1 + m = 1 /\ c + m # 0
        BY <1>1, <2>1, <3>2
      <4>2. v[1 + m] = r[1]
        BY <1>4, <4>1
      <4> QED BY <1>1, <2>1, <3>2, <4>1, <4>2
    <3> QED BY <3>1, <3>2
  <2>2. CASE m # 0
    <3>1. 1 \in 1..m /\ a + m + 1 - 1 = a + m /\ c + m # 0
      BY <1>1, <2>2
    <3> QED BY <1>3, <2>2, <3>1
  <2> QED BY <2>1, <2>2
<1>10. ASSUME NEW i \in 1..(c + m) PROVE nx2[v[i]] = IF i = c + m THEN 0 ELSE v[i + 1]
  <2>0. v[i] \in Node
    BY <1>7
  <2>1. CASE i \in 1..m
    <3>1. v[i] = a + m + 1 - i /\ v[i] \in (a + 1)..(a + m)
      BY <1>3, <2>1
    <3>2. CASE i = m
      <4>1. v[i] = a + 1
        BY <3>1, <3>2
      <4>2. nx2[v[i]] = f
        BY <2>0, <3>1, <4>1 DEF InFront
      <4>3. CASE c = 0
        BY <1>1, <3>2, <4>2, <4>3
      <4>4. CASE c # 0
        <5>1. 1 \in 1..c /\ 1 + m = i + 1 /\ i # c + m
          BY <1>1, <2>1, <3>2, <4>4
        <5>2. v[1 + m] = r[1]
          BY <1>4, <5>1
        <5> QED BY <1>1, <4>2, <4>4, <5>1, <5>2
      <4> QED BY <4>3, <4>4
    <3>3. CASE i # m
      <4>1. i + 1 \in 1..m /\ i # c + m /\ a + m + 1 - (i + 1) = (a + m + 1 - i) - 1
            /\ a + m + 1 - i # a + 1
        BY <1>1, <2>1, <3>3
      <4>2. v[i + 1] = (a + m + 1 - i) - 1
        BY <1>3, <4>1
      <4>3. nx2[v[i]] = v[i] - 1
        BY <2>0, <3>1, <4>1 DEF InFront
      <4> QED BY <3>1, <4>1, <4>2, <4>3
    <3> QED BY <3>2, <3>3
  <2>2. CASE i \notin 1..m
    <3> DEFINE j == i - m
    <3>1. j \in 1..c /\ j + m = i /\ (j = c <=> i = c + m)
      BY <1>1, <1>5, <2>2
    <3>2. j # c => j + 1 \in 1..c /\ (j + 1) + m = i + 1
      BY <1>1, <3>1
    <3> HIDE DEF j
    <3>3. v[i] = r[j] /\ r[j] \notin (a + 1)..(a + m)
      BY <1>1, <1>4, <3>1
    <3>4. nx2[v[i]] = nx[r[j]]
      BY <2>0, <3>3 DEF InFront
    <3>5. nx[r[j]] = IF j = c THEN 0 ELSE r[j + 1]
      BY <1>1, <3>1
    <3>6. j # c => v[i + 1] = r[j + 1]
      BY <1>4, <3>2
    <3> QED BY <3>1, <3>4, <3>5, <3>6
  <2> QED BY <2>1, <2>2
<1>11. Elems(c + m, v) = Elems(c, r) \cup (a + 1)..(a + m)
  <2>1. ASSUME NEW x \in Elems(c + m, v) PROVE x \in Elems(c, r) \cup (a + 1)..(a + m)
    <3>1. PICK i \in 1..(c + m) : x = v[i]
      BY DEF Elems
    <3>2. CASE i \in 1..m
      BY <1>3, <3>1, <3>2
    <3>3. CASE i \notin 1..m
      <4>1. i - m \in 1..c /\ (i - m) + m = i
        BY <1>5, <3>3
      <4>2. x = r[i - m]
        BY <1>4, <3>1, <4>1
      <4> QED BY <4>1, <4>2 DEF Elems
    <3> QED BY <3>2, <3>3
  <2>2. ASSUME NEW x \in Elems(c, r) PROVE x \in Elems(c + m, v)
    BY <1>4 DEF Elems
  <2>3. ASSUME NEW x \in (a + 1)..(a + m) PROVE x \in Elems(c + m, v)
    <3> DEFINE i == a + m + 1 - x
    <3>1. i \in 1..m /\ i \in 1..(c + m) /\ a + m + 1 - i = x
      BY <1>1
    <3> HIDE DEF i
    <3>2. v[i] = x
      BY <1>3, <3>1
    <3> QED BY <3>1, <3>2 DEF Elems
  <2> QED BY <2>1, <2>2, <2>3
<1>12. IsList(g, c + m, v, nx2, Node)
  BY <1>2, <1>7, <1>8, <1>9, <1>10 DEF IsList
<1> QED BY <1>11, <1>12 DEF v

-----------------------------------------------------------------------------
(* The calls.                                                              *)

(* A node is taken: it is not one of the list's, and the others are.       *)
LEMMA TakeParts ==
  ASSUME TypeOK, NEW s, NEW r, Kept(s, r), TakeNode
  PROVE  /\ Taken \in Node /\ Taken \notin Elems(size, s)
         /\ Links \in [Node -> Ptr]
         /\ \A x \in Elems(size, s) : Links[x] = next[x]
         /\ used' \in 0..MaxNodes /\ capacity' \in Nat /\ free_nodes' \in Ptr
         /\ \E q : /\ IsList(free_nodes', capacity', q, Links, Node)
                   /\ Taken \notin Elems(capacity', q)
                   /\ Elems(size, s) \cap Elems(capacity', q) = {}
                   /\ Elems(size, s) \cup Elems(capacity', q) \cup {Taken} = 1..(used')
<1>1. /\ IsList(free_nodes, capacity, r, next, Node)
      /\ capacity \in Nat /\ r \in [1..capacity -> Node]
      /\ free_nodes = IF capacity = 0 THEN 0 ELSE r[1]
      /\ size \in Nat /\ s \in [1..size -> Node]
  BY DEF Kept, IsList, Chain
<1>2. /\ Elems(size, s) \cap Elems(capacity, r) = {}
      /\ Elems(size, s) \cup Elems(capacity, r) = 1..used
      /\ used \in 0..MaxNodes /\ next \in [Node -> Ptr]
  BY DEF Kept, Shared, TypeOK
<1>3. CASE free_nodes # NULL
  <2>1. free_nodes' = next[free_nodes] /\ capacity' = capacity - 1 /\ used' = used
    BY <1>3 DEF TakeNode
  <2>2. capacity # 0 /\ 1 \in 1..capacity /\ free_nodes = r[1]
    BY <1>1, <1>3, NodeFacts
  <2>3. Taken = r[1] /\ Links = next
    BY <1>3, <2>2 DEF Taken, Links
  <2>4. r[1] \in Elems(capacity, r)
    BY <2>2 DEF Elems
  <2>5. /\ IsList(free_nodes', capacity - 1, Dropped(1, capacity, r), next, Node)
        /\ Elems(capacity - 1, Dropped(1, capacity, r)) = Elems(capacity, r) \ {r[1]}
    <3>1. free_nodes' = IF 1 = 1 THEN next[r[1]] ELSE free_nodes
      BY <2>1, <2>2
    <3>2. \A x \in Elems(capacity, r) :
             next[x] = IF 1 > 1 /\ x = r[1 - 1] THEN next[r[1]] ELSE next[x]
      OBVIOUS
    <3> QED BY <1>1, <2>2, <3>1, <3>2, ListDrop
  <2>6. r[1] \in Node /\ next[r[1]] \in Ptr
    BY <1>1, <1>2, <2>2
  <2>7. capacity - 1 \in Nat
    BY <1>1, <2>2
  <2>8. r[1] \notin Elems(size, s)
    BY <1>2, <2>4
  <2> DEFINE q == Dropped(1, capacity, r)
  <2> HIDE DEF q
  <2>9. /\ IsList(free_nodes', capacity', q, Links, Node)
        /\ Taken \notin Elems(capacity', q)
        /\ Elems(size, s) \cap Elems(capacity', q) = {}
        /\ Elems(size, s) \cup Elems(capacity', q) \cup {Taken} = 1..(used')
    BY <1>2, <2>1, <2>3, <2>4, <2>5 DEF q
  <2>10. Taken \in Node /\ Taken \notin Elems(size, s) /\ Links \in [Node -> Ptr]
    BY <1>2, <2>3, <2>6, <2>8
  <2>11. \A x \in Elems(size, s) : Links[x] = next[x]
    BY <2>3
  <2>12. used' \in 0..MaxNodes /\ capacity' \in Nat /\ free_nodes' \in Ptr
    BY <1>2, <2>1, <2>2, <2>6, <2>7
  <2> QED BY <2>9, <2>10, <2>11, <2>12
<1>4. CASE free_nodes = NULL
  <2> DEFINE m == SPR_LIST_INITIAL_SIZE - 1
             a == used + 1
             q == Extended(a, m, capacity, r)
  <2>1. /\ free_nodes' = used' /\ used' = used + SPR_LIST_INITIAL_SIZE
        /\ used + SPR_LIST_INITIAL_SIZE <= MaxNodes
        /\ capacity' = SPR_LIST_INITIAL_SIZE - 1
    BY <1>4 DEF TakeNode
  <2>2. capacity = 0
    BY <1>1, <1>4, NodeFacts
  <2>3. Taken = used + 1 /\ Links = Chained(used + 2, used + SPR_LIST_INITIAL_SIZE)
    BY <1>4 DEF Taken, Links
  <2>4. SPR_LIST_INITIAL_SIZE \in Nat /\ SPR_LIST_INITIAL_SIZE > 1 /\ used \in Nat /\ MaxNodes \in Nat
    BY <1>2, ListAssumption
  <2>5. /\ a \in Nat /\ m \in Nat /\ m # 0 /\ a + m = used + SPR_LIST_INITIAL_SIZE
        /\ a + 1 = used + 2 /\ a + m <= MaxNodes /\ capacity + m = m
    BY <2>1, <2>2, <2>4
  <2>6. \A p \in Node : Links[p] = IF p \notin (a + 1)..(a + m) THEN next[p]
                                   ELSE IF p = a + 1 THEN free_nodes ELSE p - 1
    <3>1. \A p \in Node : Links[p] =
             IF p \notin (used + 2)..(used + SPR_LIST_INITIAL_SIZE) THEN next[p]
             ELSE IF p = used + 2 THEN free_nodes ELSE p - 1
      BY <2>3 DEF Chained
    <3> HIDE DEF a, m
    <3> QED BY <2>5, <3>1
  <2>7. Elems(capacity, r) = {}
    BY <2>2 DEF Elems
  <2>8. /\ IsList(a + m, capacity + m, q, Links, Node)
        /\ Elems(capacity + m, q) = Elems(capacity, r) \cup (a + 1)..(a + m)
    <3>1. Apart(a, m, capacity, r)
      BY <2>7 DEF Apart
    <3>2. a \in Nat /\ m \in Nat /\ a + m <= MaxNodes /\ a + m = IF m = 0 THEN free_nodes ELSE a + m
      BY <2>5
    <3>3. IsList(free_nodes, capacity, r, next, Node)
      BY <1>1
    <3> HIDE DEF a, m
    <3> DEFINE nx2 == Links
    <3>4. InFront(a, m, free_nodes, next, nx2)
      BY <2>6 DEF InFront
    <3> HIDE DEF nx2
    <3> DEFINE g == a + m
    <3>5. g = IF m = 0 THEN free_nodes ELSE a + m
      BY <3>2
    <3> HIDE DEF g
    <3>6. IsList(g, capacity + m, Extended(a, m, capacity, r), nx2, Node)
      BY <3>1, <3>2, <3>3, <3>4, <3>5, ChunkList
    <3>7. Elems(capacity + m, Extended(a, m, capacity, r)) = Elems(capacity, r) \cup (a + 1)..(a + m)
      BY <3>1, <3>2, <3>3, <3>4, <3>5, ChunkList
    <3> QED BY <3>6, <3>7 DEF nx2, g
  <2>9. /\ IsList(free_nodes', capacity', q, Links, Node)
        /\ Elems(capacity', q) = (used + 2)..(used + SPR_LIST_INITIAL_SIZE)
    <3>1. capacity + m = capacity' /\ a + m = free_nodes'
      BY <2>1, <2>5
    <3> HIDE DEF a, m, q
    <3> QED BY <2>5, <2>7, <2>8, <3>1
  <2>10. Elems(size, s) = 1..used
    BY <1>2, <2>7
  <2>11. Taken \in Node /\ Taken \notin Elems(size, s)
    BY <2>1, <2>3, <2>4, <2>10, NodeFacts
  <2>12. Links \in [Node -> Ptr]
    <3>1. \A p \in Node : p - 1 \in Ptr
      BY NodeFacts DEF Ptr
    <3>2. NULL \in Ptr
      BY DEF Ptr
    <3> QED BY <1>2, <1>4, <2>3, <3>1, <3>2 DEF Chained
  <2>13. ASSUME NEW x \in Elems(size, s) PROVE Links[x] = next[x]
    <3>1. x \in 1..used /\ x \in Node /\ x \notin (used + 2)..(used + SPR_LIST_INITIAL_SIZE)
      BY <1>2, <2>4, <2>10, NodeFacts
    <3> QED BY <2>3, <3>1 DEF Chained
  <2>14. used' \in 0..MaxNodes /\ capacity' \in Nat /\ free_nodes' \in Ptr
    BY <2>1, <2>4, NodeFacts DEF Ptr
  <2> HIDE DEF q
  <2>15. /\ Taken \notin Elems(capacity', q)
         /\ Elems(size, s) \cap Elems(capacity', q) = {}
         /\ Elems(size, s) \cup Elems(capacity', q) \cup {Taken} = 1..(used')
    <3>1. used + 1 \notin (used + 2)..(used + SPR_LIST_INITIAL_SIZE)
      BY <2>4
    <3>2. 1..used \cap (used + 2)..(used + SPR_LIST_INITIAL_SIZE) = {}
      BY <2>4
    <3>3. 1..used \cup (used + 2)..(used + SPR_LIST_INITIAL_SIZE) \cup {used + 1}
             = 1..(used + SPR_LIST_INITIAL_SIZE)
      BY <2>4
    <3> QED BY <2>1, <2>3, <2>9, <2>10, <3>1, <3>2, <3>3
  <2> QED BY <2>9, <2>11, <2>12, <2>13, <2>14, <2>15
<1> QED BY <1>3, <1>4

(* What Linked adds to the invariant.                                      *)
LEMMA LinkedEnds ==
  ASSUME TypeOK, NEW s, NEW r, Kept(s, r), Linked
  PROVE  /\ size = 0 <=> head = NULL
         /\ size = 0 <=> tail = NULL
         /\ size # 0 => head = s[1] /\ tail = s[size] /\ head \in Node /\ tail \in Node
         /\ IsList(head, size, s, next, Node)
<1>1. Chain(head, tail, size, s, next, prev) /\ size \in Nat /\ s \in [1..size -> Node]
  BY DEF Kept, Chain
<1>2. IF size = 0 THEN head = NULL /\ tail = NULL ELSE next[tail] = NULL
  BY DEF Linked
<1>3. size # 0 => head = s[1] /\ tail = s[size] /\ head \in Node /\ tail \in Node
  <2>1. size # 0 => 1 \in 1..size /\ size \in 1..size
    BY <1>1
  <2> QED BY <1>1, <2>1 DEF Chain
<1>4. IsList(head, size, s, next, Node)
  BY <1>1, <1>2, NodeFacts, ChainIsList
<1> QED BY <1>2, <1>3, <1>4, NodeFacts

(* A push changes nothing or adds the node it takes at one end.            *)
LEMMA PushBackKept ==
  ASSUME TypeOK, NEW s, NEW r, Kept(s, r), NEW d \in Data, spr_list_push_back(d)
  PROVE  \/ UNCHANGED vars
         \/ /\ TypeOK' /\ \E v, q : v = Appended(Taken, size, s) /\ Kept(v, q)'
            /\ Taken \in Node /\ Taken \notin Elems(size, s) /\ size' = size + 1
            /\ data' = [data EXCEPT ![Taken] = d]
<1>1. Linked /\ (NoMemory \/ ~ NoMemory)
  BY DEF spr_list_push_back, Callable
<1>2. CASE NoMemory
  BY <1>2 DEF NoMemory
<1>3. CASE ~ NoMemory
  <2> DEFINE c == Taken
             L == Links
  <2>1. /\ TakeNode /\ data' = [data EXCEPT ![c] = d] /\ tail' = c /\ size' = size + 1
        /\ fault' = fault
        /\ \/ /\ tail # NULL /\ next' = [L EXCEPT ![c] = NULL, ![tail] = c]
              /\ prev' = [prev EXCEPT ![c] = tail] /\ head' = head
           \/ /\ tail = NULL /\ next' = [L EXCEPT ![c] = NULL]
              /\ head' = c /\ prev' = prev
    BY <1>3 DEF spr_list_push_back
  <2>2. /\ c \in Node /\ c \notin Elems(size, s) /\ L \in [Node -> Ptr]
        /\ \A x \in Elems(size, s) : L[x] = next[x]
        /\ used' \in 0..MaxNodes /\ capacity' \in Nat /\ free_nodes' \in Ptr
    BY <2>1, TakeParts
  <2>3. PICK q : /\ IsList(free_nodes', capacity', q, L, Node)
                 /\ c \notin Elems(capacity', q)
                 /\ Elems(size, s) \cap Elems(capacity', q) = {}
                 /\ Elems(size, s) \cup Elems(capacity', q) \cup {c} = 1..(used')
    BY <2>1, TakeParts
  <2> HIDE DEF c, L
  <2>4. /\ size = 0 <=> head = NULL
        /\ size = 0 <=> tail = NULL
        /\ size # 0 => head = s[1] /\ tail = s[size] /\ head \in Node /\ tail \in Node
    BY <1>1, LinkedEnds
  <2>5. /\ Chain(head, tail, size, s, next, prev)
        /\ size \in Nat /\ s \in [1..size -> Node]
        /\ \A i, j \in 1..size : s[i] = s[j] => i = j
    BY DEF Kept, Chain
  <2>6. /\ \A i \in 1..size : s[i] \in Elems(size, s) /\ s[i] # c /\ s[i] \in Node
        /\ \A i \in 1..(size - 1) : i \in 1..size /\ i + 1 \in 1..size /\ i # size
        /\ size # 0 => size \in 1..size
    BY <2>2, <2>5 DEF Elems
  <2>7. head \in Ptr /\ tail \in Ptr /\ NULL \in Ptr /\ Node \subseteq Ptr
        /\ prev \in [Node -> Ptr] /\ data \in [Node -> Data \cup {Wild}]
    BY DEF TypeOK, Ptr
  <2>8. next' \in [Node -> Ptr] /\ prev' \in [Node -> Ptr] /\ head' \in Ptr /\ tail' \in Ptr
    BY <2>1, <2>2, <2>7
  <2>9. TypeOK'
    <3>1. data' \in [Node -> Data \cup {Wild}] /\ size' \in Nat /\ fault' \in BOOLEAN
      BY <2>1, <2>2, <2>5, <2>7 DEF TypeOK
    <3> QED BY <2>2, <2>8, <3>1 DEF TypeOK
  <2>10. size = 0 => head' = c
    BY <2>1, <2>4
  <2>11. size # 0 => head' = head /\ next'[tail] = c /\ prev'[c] = tail
    BY <2>1, <2>2, <2>4, <2>7
  <2>12. ASSUME NEW i \in 1..(size - 1)
         PROVE  next'[s[i]] = next[s[i]] /\ prev'[s[i + 1]] = prev[s[i + 1]]
    <3>1. size # 0 /\ tail = s[size] /\ s[i] # tail /\ s[i] # c /\ s[i + 1] # c
      BY <2>4, <2>5, <2>6
    <3>2. next'[s[i]] = L[s[i]]
      BY <2>1, <2>2, <2>6, <3>1
    <3>3. prev'[s[i + 1]] = prev[s[i + 1]]
      BY <2>1, <2>2, <2>6, <2>7, <3>1
    <3> QED BY <2>2, <2>6, <3>2, <3>3
  <2> PICK v : v = Appended(c, size, s)
    OBVIOUS
  <2>13. /\ Chain(head', c, size + 1, v, next', prev')
         /\ Elems(size + 1, v) = Elems(size, s) \cup {c}
    <3>1. SameLinks(size, s, next, prev, next', prev')
      BY <2>12 DEF SameLinks
    <3>2. EndsAppend(c, size, head, tail, head', next', prev')
      BY <2>10, <2>11 DEF EndsAppend
    <3>3. c \in Node /\ c \notin Elems(size, s) /\ Chain(head, tail, size, s, next, prev)
      BY <2>2, <2>5
    <3>4. /\ Chain(head', c, size + 1, Appended(c, size, s), next', prev')
          /\ Elems(size + 1, Appended(c, size, s)) = Elems(size, s) \cup {c}
      BY <3>1, <3>2, <3>3, ChainAppend
    <3> QED BY <3>4
  <2>14. \A x \in Elems(capacity', q) : next'[x] = L[x]
    <3>1. \A x \in Elems(capacity', q) : x \in Node /\ x # c /\ x # tail
      <4>1. Elems(capacity', q) \subseteq Node
        BY <2>3 DEF IsList, Elems
      <4>2. tail = NULL \/ tail \in Elems(size, s)
        BY <2>4, <2>6
      <4> QED BY <2>3, <4>1, <4>2, NodeFacts
    <3> QED BY <2>1, <2>2, <3>1
  <2>15. IsList(free_nodes', capacity', q, next', Node)
    BY <2>3, <2>14, ListFrame
  <2>16. Kept(v, q)'
    <3>1. Chain(head', tail', size', v, next', prev')
      BY <2>1, <2>13
    <3>2. Shared(size', v, capacity', q, used')
      BY <2>1, <2>3, <2>13 DEF Shared
    <3> QED BY <2>15, <3>1, <3>2 DEF Kept
  <2> QED BY <2>1, <2>2, <2>9, <2>16 DEF c
<1> QED BY <1>1, <1>2, <1>3

LEMMA PushFrontKept ==
  ASSUME TypeOK, NEW s, NEW r, Kept(s, r), NEW d \in Data, spr_list_push_front(d)
  PROVE  \/ UNCHANGED vars
         \/ /\ TypeOK' /\ \E v, q : v = Pushed(Taken, size, s) /\ Kept(v, q)'
            /\ Taken \in Node /\ Taken \notin Elems(size, s) /\ size' = size + 1
            /\ data' = [data EXCEPT ![Taken] = d]
<1>1. Linked /\ (NoMemory \/ ~ NoMemory)
  BY DEF spr_list_push_front, Callable
<1>2. CASE NoMemory
  BY <1>2 DEF NoMemory
<1>3. CASE ~ NoMemory
  <2> DEFINE c == Taken
             L == Links
  <2>1. /\ TakeNode /\ data' = [data EXCEPT ![c] = d] /\ head' = c /\ size' = size + 1
        /\ fault' = fault
        /\ \/ /\ head # NULL /\ prev' = [prev EXCEPT ![c] = NULL, ![head] = c]
              /\ next' = [L EXCEPT ![c] = head] /\ tail' = tail
           \/ /\ head = NULL /\ prev' = [prev EXCEPT ![c] = NULL]
              /\ next' = L /\ tail' = c
    BY <1>3 DEF spr_list_push_front
  <2>2. /\ c \in Node /\ c \notin Elems(size, s) /\ L \in [Node -> Ptr]
        /\ \A x \in Elems(size, s) : L[x] = next[x]
        /\ used' \in 0..MaxNodes /\ capacity' \in Nat /\ free_nodes' \in Ptr
    BY <2>1, TakeParts
  <2>3. PICK q : /\ IsList(free_nodes', capacity', q, L, Node)
                 /\ c \notin Elems(capacity', q)
                 /\ Elems(size, s) \cap Elems(capacity', q) = {}
                 /\ Elems(size, s) \cup Elems(capacity', q) \cup {c} = 1..(used')
    BY <2>1, TakeParts
  <2> HIDE DEF c, L
  <2>4. /\ size = 0 <=> head = NULL
        /\ size = 0 <=> tail = NULL
        /\ size # 0 => head = s[1] /\ tail = s[size] /\ head \in Node /\ tail \in Node
    BY <1>1, LinkedEnds
  <2>5. /\ Chain(head, tail, size, s, next, prev)
        /\ size \in Nat /\ s \in [1..size -> Node]
        /\ \A i, j \in 1..size : s[i] = s[j] => i = j
    BY DEF Kept, Chain
  <2>6. /\ \A i \in 1..size : s[i] \in Elems(size, s) /\ s[i] # c /\ s[i] \in Node
        /\ \A i \in 1..(size - 1) : i \in 1..size /\ i + 1 \in 1..size /\ i + 1 # 1
        /\ size # 0 => 1 \in 1..size
    BY <2>2, <2>5 DEF Elems
  <2>7. head \in Ptr /\ tail \in Ptr /\ NULL \in Ptr /\ Node \subseteq Ptr
        /\ prev \in [Node -> Ptr] /\ data \in [Node -> Data \cup {Wild}]
    BY DEF TypeOK, Ptr
  <2>8. next' \in [Node -> Ptr] /\ prev' \in [Node -> Ptr] /\ head' \in Ptr /\ tail' \in Ptr
    BY <2>1, <2>2, <2>7
  <2>9. TypeOK'
    <3>1. data' \in [Node -> Data \cup {Wild}] /\ size' \in Nat /\ fault' \in BOOLEAN
      BY <2>1, <2>2, <2>5, <2>7 DEF TypeOK
    <3> QED BY <2>2, <2>8, <3>1 DEF TypeOK
  <2>10. size = 0 => tail' = c
    BY <2>1, <2>4
  <2>11. size # 0 => tail' = tail /\ next'[c] = head /\ prev'[head] = c
    BY <2>1, <2>2, <2>4, <2>7
  <2>12. ASSUME NEW i \in 1..(size - 1)
         PROVE  next'[s[i]] = next[s[i]] /\ prev'[s[i + 1]] = prev[s[i + 1]]
    <3>1. size # 0 /\ head = s[1] /\ s[i + 1] # head /\ s[i] # c /\ s[i + 1] # c
      BY <2>4, <2>5, <2>6
    <3>2. next'[s[i]] = L[s[i]]
      BY <2>1, <2>2, <2>6, <3>1
    <3>3. prev'[s[i + 1]] = prev[s[i + 1]]
      BY <2>1, <2>2, <2>6, <2>7, <3>1
    <3> QED BY <2>2, <2>6, <3>2, <3>3
  <2> PICK v : v = Pushed(c, size, s)
    OBVIOUS
  <2>13. /\ Chain(c, tail', size + 1, v, next', prev')
         /\ Elems(size + 1, v) = Elems(size, s) \cup {c}
    <3>1. SameLinks(size, s, next, prev, next', prev')
      BY <2>12 DEF SameLinks
    <3>2. EndsPush(c, size, head, tail, tail', next', prev')
      BY <2>10, <2>11 DEF EndsPush
    <3>3. c \in Node /\ c \notin Elems(size, s) /\ Chain(head, tail, size, s, next, prev)
      BY <2>2, <2>5
    <3>4. /\ Chain(c, tail', size + 1, Pushed(c, size, s), next', prev')
          /\ Elems(size + 1, Pushed(c, size, s)) = Elems(size, s) \cup {c}
      BY <3>1, <3>2, <3>3, ChainPush
    <3> QED BY <3>4
  <2>14. \A x \in Elems(capacity', q) : next'[x] = L[x]
    <3>1. \A x \in Elems(capacity', q) : x \in Node /\ x # c
      <4>1. Elems(capacity', q) \subseteq Node
        BY <2>3 DEF IsList, Elems
      <4> QED BY <2>3, <4>1
    <3> QED BY <2>1, <2>2, <3>1
  <2>15. IsList(free_nodes', capacity', q, next', Node)
    BY <2>3, <2>14, ListFrame
  <2>16. Kept(v, q)'
    <3>1. Chain(head', tail', size', v, next', prev')
      BY <2>1, <2>13
    <3>2. Shared(size', v, capacity', q, used')
      BY <2>1, <2>3, <2>13 DEF Shared
    <3> QED BY <2>15, <3>1, <3>2 DEF Kept
  <2> QED BY <2>1, <2>2, <2>9, <2>16 DEF c
<1> QED BY <1>1, <1>2, <1>3

(* spr_list_reserve leaves the list alone.                                 *)
LEMMA ReserveKept ==
  ASSUME TypeOK, NEW s, NEW r, Kept(s, r), NEW n \in 0..MaxReserve, spr_list_reserve(n)
  PROVE  \/ UNCHANGED vars
         \/ /\ TypeOK' /\ \E q : Kept(s, q)'
            /\ size' = size /\ data' = data
<1>1. CASE UNCHANGED vars
  BY <1>1
<1>2. CASE ~ UNCHANGED vars
  <2>1. /\ used + n <= MaxNodes
        /\ next' = Chained(used + 1, used + n)
        /\ free_nodes' = IF n = 0 THEN free_nodes ELSE used + n
        /\ used' = used + n
        /\ capacity' = capacity + n
        /\ UNCHANGED <<head, tail, size, prev, data, fault>>
    BY <1>2 DEF spr_list_reserve
  <2>2. n \in Nat /\ used \in Nat /\ MaxNodes \in Nat /\ used + n \in 0..MaxNodes
    BY <2>1, ListAssumption DEF TypeOK
  <2>3. /\ IsList(free_nodes, capacity, r, next, Node) /\ capacity \in Nat
        /\ Elems(size, s) \cap Elems(capacity, r) = {}
        /\ Elems(size, s) \cup Elems(capacity, r) = 1..used
        /\ next \in [Node -> Ptr] /\ free_nodes \in Ptr
    BY DEF Kept, IsList, Shared, TypeOK
  <2>4. next' \in [Node -> Ptr] /\ free_nodes' \in Ptr
    <3>1. \A p \in Node : p - 1 \in Ptr
      BY NodeFacts DEF Ptr
    <3>2. n # 0 => used + n \in Ptr
      BY <2>2, NodeFacts DEF Ptr
    <3> QED BY <2>1, <2>3, <3>1, <3>2 DEF Chained
  <2>5. TypeOK'
    <3>1. used' \in 0..MaxNodes /\ capacity' \in Nat
      BY <2>1, <2>2, <2>3
    <3> QED BY <2>1, <2>4, <3>1 DEF TypeOK
  <2>6. InFront(used, n, free_nodes, next, next')
    <3>1. \A p \in Node : next'[p] = IF p \notin (used + 1)..(used + n) THEN next[p]
                                     ELSE IF p = used + 1 THEN free_nodes ELSE p - 1
      BY <2>1 DEF Chained
    <3> QED BY <3>1 DEF InFront
  <2>7. Apart(used, n, capacity, r)
    <3>1. \A x \in Elems(capacity, r) : x \in 1..used
      BY <2>3
    <3> QED BY <2>2, <3>1 DEF Apart
  <2> PICK q : q = Extended(used, n, capacity, r)
    OBVIOUS
  <2>8. /\ IsList(free_nodes', capacity + n, q, next', Node)
        /\ Elems(capacity + n, q) = Elems(capacity, r) \cup (used + 1)..(used + n)
    <3>1. free_nodes' = IF n = 0 THEN free_nodes ELSE used + n
      BY <2>1
    <3>2. /\ IsList(free_nodes', capacity + n, Extended(used, n, capacity, r), next', Node)
          /\ Elems(capacity + n, Extended(used, n, capacity, r)) =
               Elems(capacity, r) \cup (used + 1)..(used + n)
      BY <2>1, <2>2, <2>3, <2>6, <2>7, <3>1, ChunkList
    <3> QED BY <3>2
  <2>9. Shared(size', s, capacity', q, used')
    <3>1. 1..used \cup (used + 1)..(used + n) = 1..(used + n)
      BY <2>2
    <3>2. 1..used \cap (used + 1)..(used + n) = {}
      BY <2>2
    <3> QED BY <2>1, <2>3, <2>8, <3>1, <3>2 DEF Shared
  <2>10. Chain(head', tail', size', s, next', prev')
    <3>1. Chain(head, tail, size, s, next, prev) /\ size \in Nat /\ s \in [1..size -> Node]
      BY DEF Kept, Chain
    <3>2. ASSUME NEW i \in 1..(size - 1) PROVE next'[s[i]] = next[s[i]]
      <4>1. i \in 1..size /\ s[i] \in Node
        BY <3>1
      <4>2. s[i] \in 1..used
        BY <2>3, <4>1 DEF Elems
      <4>3. s[i] \notin (used + 1)..(used + n)
        BY <2>2, <4>2
      <4> QED BY <2>6, <4>1, <4>3 DEF InFront
    <3> QED BY <2>1, <3>1, <3>2 DEF Chain
  <2>11. Kept(s, q)'
    BY <2>1, <2>8, <2>9, <2>10 DEF Kept
  <2> QED BY <2>1, <2>5, <2>11
<1> QED BY <1>1, <1>2

(* The k-th element is taken out and its node is free.                     *)
Took(k, s) ==
  /\ TypeOK' /\ \E v, q : v = Dropped(k, size, s) /\ Kept(v, q)'
  /\ size' = size - 1 /\ data' = data

FreeSame(c, r, nx, nx2) == \A x \in Elems(c, r) : nx2[x] = nx[x]

LEMMA ReleaseKept ==
  ASSUME TypeOK, NEW s, NEW r, Kept(s, r), NEW k \in 1..size,
         NEW links \in [Node -> Ptr], Release(s[k], links),
         FreeSame(capacity, r, next, links),
         EndsDrop(k, size, s, head, tail, head', tail'),
         LinksDrop(k, size, s, next, prev, next', prev'),
         prev' \in [Node -> Ptr], head' \in Ptr, tail' \in Ptr
  PROVE  Took(k, s)
<1>1. /\ Chain(head, tail, size, s, next, prev) /\ size \in Nat /\ s \in [1..size -> Node]
      /\ IsList(free_nodes, capacity, r, next, Node) /\ capacity \in Nat
      /\ Elems(size, s) \cap Elems(capacity, r) = {}
      /\ Elems(size, s) \cup Elems(capacity, r) = 1..used
      /\ r \in [1..capacity -> Node]
  BY DEF Kept, Chain, IsList, Shared
<1>2. /\ next' = [links EXCEPT ![s[k]] = free_nodes]
      /\ free_nodes' = s[k] /\ size' = size - 1 /\ capacity' = capacity + 1
      /\ data' = data /\ used' = used /\ fault' = fault
  BY DEF Release
<1>3. s[k] \in Node /\ s[k] \in Elems(size, s) /\ size - 1 \in Nat
  BY <1>1 DEF Elems
<1>4. TypeOK'
  <2>1. free_nodes \in Ptr /\ Node \subseteq Ptr
    BY DEF TypeOK, Ptr
  <2>2. next' \in [Node -> Ptr] /\ free_nodes' \in Ptr
    BY <1>2, <1>3, <2>1
  <2>3. size' \in Nat /\ capacity' \in Nat
    BY <1>1, <1>2, <1>3
  <2> QED BY <1>2, <2>2, <2>3 DEF TypeOK
<1> PICK v : v = Dropped(k, size, s)
  OBVIOUS
<1> PICK q : q = Pushed(s[k], capacity, r)
  OBVIOUS
<1>5. /\ Chain(head', tail', size - 1, v, next', prev')
      /\ Elems(size - 1, v) = Elems(size, s) \ {s[k]}
  <2>1. /\ Chain(head', tail', size - 1, Dropped(k, size, s), next', prev')
        /\ Elems(size - 1, Dropped(k, size, s)) = Elems(size, s) \ {s[k]}
    <3>1. Chain(head, tail, size, s, next, prev)
      BY <1>1
    <3> QED BY <3>1, ChainDrop
  <2> QED BY <2>1
<1>6. /\ IsList(s[k], capacity + 1, q, next', Node)
      /\ Elems(capacity + 1, q) = Elems(capacity, r) \cup {s[k]}
  <2>1. s[k] \notin Elems(capacity, r)
    BY <1>1, <1>3
  <2>2. \A x \in Elems(capacity, r) : next'[x] = next[x]
    <3>1. Elems(capacity, r) \subseteq Node
      BY <1>1 DEF Elems
    <3> QED BY <1>2, <2>1, <3>1 DEF FreeSame
  <2>3. IsList(free_nodes, capacity, r, next', Node)
    BY <1>1, <2>2, ListFrame
  <2>4. next'[s[k]] = free_nodes
    BY <1>2, <1>3
  <2>5. /\ IsList(s[k], capacity + 1, Pushed(s[k], capacity, r), next', Node)
        /\ Elems(capacity + 1, Pushed(s[k], capacity, r)) = Elems(capacity, r) \cup {s[k]}
    BY <1>3, <2>1, <2>3, <2>4, ListPush
  <2> QED BY <2>5
<1>7. Shared(size', v, capacity', q, used')
  BY <1>1, <1>2, <1>3, <1>5, <1>6 DEF Shared
<1>8. Kept(v, q)'
  BY <1>2, <1>5, <1>6, <1>7 DEF Kept
<1> QED BY <1>2, <1>4, <1>8 DEF Took

LEMMA RemoveHeadKept ==
  ASSUME TypeOK, NEW s, NEW r, Kept(s, r), Linked, size # 0, RemoveHead
  PROVE  1 \in 1..size /\ s[1] = head /\ Took(1, s)
<1>1. /\ size \in Nat /\ s \in [1..size -> Node]
      /\ \A i, j \in 1..size : s[i] = s[j] => i = j
      /\ \A i \in 1..(size - 1) : next[s[i]] = s[i + 1] /\ prev[s[i + 1]] = s[i]
      /\ Elems(size, s) \cap Elems(capacity, r) = {}
  BY DEF Kept, Chain, Shared
<1>2. 1 \in 1..size /\ head = s[1] /\ s[1] \in Node
  BY <1>1, LinkedEnds
<1>3. /\ Release(s[1], next)
      /\ prev' = IF next[head] = NULL THEN prev ELSE [prev EXCEPT ![next[head]] = NULL]
      /\ head' = next[head] /\ tail' = tail
      /\ next' = [next EXCEPT ![s[1]] = free_nodes]
  BY <1>2 DEF RemoveHead, Release
<1>4. next \in [Node -> Ptr] /\ prev \in [Node -> Ptr] /\ tail \in Ptr /\ NULL \in Ptr
  BY DEF TypeOK, Ptr
<1>5. prev' \in [Node -> Ptr] /\ head' \in Ptr /\ tail' \in Ptr
  BY <1>2, <1>3, <1>4
<1>6. EndsDrop(1, size, s, head, tail, head', tail')
  <2>1. SUFFICES ASSUME size > 1 PROVE head' = s[2] /\ tail' = tail /\ size # 1
    BY DEF EndsDrop
  <2>2. 1 \in 1..(size - 1) /\ 1 + 1 = 2
    BY <1>1, <2>1
  <2> QED BY <1>1, <1>2, <1>3, <2>1, <2>2
<1>7. LinksDrop(1, size, s, next, prev, next', prev')
  <2>1. SUFFICES ASSUME NEW i \in 1..(size - 1), i # 1
                 PROVE  next'[s[i]] = next[s[i]] /\ prev'[s[i + 1]] = prev[s[i + 1]]
    BY DEF LinksDrop
  <2>2. i \in 1..size /\ i + 1 \in 1..size /\ i + 1 # 2 /\ 2 \in 1..size /\ 1 \in 1..(size - 1) /\ 1 + 1 = 2
    BY <1>1, <2>1
  <2>3. s[i] # s[1] /\ s[i + 1] # s[2] /\ s[i] \in Node /\ s[i + 1] \in Node /\ next[head] = s[2]
    BY <1>1, <1>2, <2>1, <2>2
  <2> QED BY <1>3, <1>4, <2>3
<1>8. FreeSame(capacity, r, next, next)
  BY DEF FreeSame
<1>9. Took(1, s)
  BY <1>2, <1>3, <1>4, <1>5, <1>6, <1>7, <1>8, ReleaseKept
<1> QED BY <1>2, <1>9

LEMMA RemoveTailKept ==
  ASSUME TypeOK, NEW s, NEW r, Kept(s, r), Linked, size # 0, head # tail, RemoveTail
  PROVE  size \in 1..size /\ s[size] = tail /\ Took(size, s)
<1>1. /\ size \in Nat /\ s \in [1..size -> Node]
      /\ \A i, j \in 1..size : s[i] = s[j] => i = j
      /\ \A i \in 1..(size - 1) : next[s[i]] = s[i + 1] /\ prev[s[i + 1]] = s[i]
      /\ Elems(size, s) \cap Elems(capacity, r) = {}
      /\ r \in [1..capacity -> Node]
  BY DEF Kept, Chain, Shared, IsList
<1>2. size \in 1..size /\ head = s[1] /\ tail = s[size] /\ s[size] \in Node
  BY <1>1, LinkedEnds
<1>3. size > 1 /\ size - 1 \in 1..(size - 1) /\ size - 1 \in 1..size /\ (size - 1) + 1 = size
  <2>1. size # 1
    BY <1>2
  <2> QED BY <1>1, <2>1
<1>4. prev[tail] = s[size - 1] /\ s[size - 1] \in Node /\ s[size - 1] # s[size] /\ size - 1 # size
  BY <1>1, <1>2, <1>3
<1> PICK links : links = [next EXCEPT ![s[size - 1]] = NULL]
  OBVIOUS
<1>5. /\ Release(s[size], links)
      /\ prev' = prev /\ head' = head /\ tail' = s[size - 1]
      /\ next' = [links EXCEPT ![s[size]] = free_nodes]
  BY <1>2, <1>4 DEF RemoveTail, Release
<1>6. /\ next \in [Node -> Ptr] /\ prev \in [Node -> Ptr] /\ head \in Ptr /\ NULL \in Ptr
      /\ Node \subseteq Ptr
  BY DEF TypeOK, Ptr
<1>7. links \in [Node -> Ptr] /\ prev' \in [Node -> Ptr] /\ head' \in Ptr /\ tail' \in Ptr
  BY <1>4, <1>5, <1>6
<1>8. EndsDrop(size, size, s, head, tail, head', tail')
  BY <1>3, <1>5 DEF EndsDrop
<1>9. LinksDrop(size, size, s, next, prev, next', prev')
  <2> ~ (1 < size /\ size < size)
    BY <1>3
  <2>1. SUFFICES ASSUME NEW i \in 1..(size - 1), i + 1 # size
                 PROVE  next'[s[i]] = next[s[i]] /\ prev'[s[i + 1]] = prev[s[i + 1]]
    BY Zenon DEF LinksDrop
  <2>2. i \in 1..size /\ i # size /\ i # size - 1
    BY <1>1, <2>1
  <2>3. s[i] # s[size] /\ s[i] # s[size - 1] /\ s[i] \in Node
    BY <1>1, <1>2, <1>3, <2>2
  <2>4. links[s[i]] = next[s[i]]
    BY <1>6, <2>3
  <2> QED BY <1>5, <1>7, <2>3, <2>4
<1>10. FreeSame(capacity, r, next, links)
  <2>1. Elems(capacity, r) \subseteq Node
    BY <1>1 DEF Elems
  <2>2. s[size - 1] \in Elems(size, s)
    BY <1>3 DEF Elems
  <2>3. s[size - 1] \notin Elems(capacity, r)
    BY <1>1, <2>2
  <2> QED BY <1>6, <2>1, <2>3 DEF FreeSame
<1>11. Took(size, s)
  BY <1>2, <1>5, <1>7, <1>8, <1>9, <1>10, ReleaseKept
<1> QED BY <1>2, <1>11

LEMMA RemoveMiddleKept ==
  ASSUME TypeOK, NEW s, NEW r, Kept(s, r), Linked, NEW k \in 1..size,
         k # 1, k # size, RemoveMiddle(s[k])
  PROVE  Took(k, s)
<1>1. /\ size \in Nat /\ s \in [1..size -> Node]
      /\ \A i, j \in 1..size : s[i] = s[j] => i = j
      /\ \A i \in 1..(size - 1) : next[s[i]] = s[i + 1] /\ prev[s[i + 1]] = s[i]
      /\ Elems(size, s) \cap Elems(capacity, r) = {}
      /\ r \in [1..capacity -> Node]
  BY DEF Kept, Chain, Shared, IsList
<1>2. /\ k \in Nat /\ 1 < k /\ k < size /\ k - 1 \in 1..(size - 1) /\ k - 1 \in 1..size
      /\ (k - 1) + 1 = k /\ k \in 1..(size - 1) /\ k + 1 \in 1..size /\ size > 1
  BY <1>1
<1>3. /\ prev[s[k]] = s[k - 1] /\ next[s[k]] = s[k + 1]
      /\ s[k] \in Node /\ s[k - 1] \in Node /\ s[k + 1] \in Node
      /\ s[k - 1] # s[k]
  BY <1>1, <1>2
<1> PICK links : links = [next EXCEPT ![s[k - 1]] = s[k + 1]]
  OBVIOUS
<1>4. /\ Release(s[k], links)
      /\ prev' = [prev EXCEPT ![s[k + 1]] = s[k - 1]] /\ head' = head /\ tail' = tail
      /\ next' = [links EXCEPT ![s[k]] = free_nodes]
  BY <1>3 DEF RemoveMiddle, Release
<1>5. /\ next \in [Node -> Ptr] /\ prev \in [Node -> Ptr] /\ head \in Ptr /\ tail \in Ptr
      /\ Node \subseteq Ptr
  BY DEF TypeOK, Ptr
<1>6. links \in [Node -> Ptr] /\ prev' \in [Node -> Ptr] /\ head' \in Ptr /\ tail' \in Ptr
  BY <1>3, <1>4, <1>5
<1>7. EndsDrop(k, size, s, head, tail, head', tail')
  BY <1>4 DEF EndsDrop
<1>8. LinksDrop(k, size, s, next, prev, next', prev')
  <2>1. ASSUME NEW i \in 1..(size - 1), i # k, i + 1 # k
        PROVE  next'[s[i]] = next[s[i]] /\ prev'[s[i + 1]] = prev[s[i + 1]]
    <3>2. i \in 1..size /\ i + 1 \in 1..size /\ i # k - 1 /\ i + 1 # k + 1
      BY <1>1, <1>2, <2>1
    <3>3. s[i] # s[k] /\ s[i] # s[k - 1] /\ s[i + 1] # s[k + 1] /\ s[i] \in Node /\ s[i + 1] \in Node
      BY <1>1, <1>2, <2>1, <3>2
    <3>4. links[s[i]] = next[s[i]]
      BY <1>5, <3>3
    <3> QED BY <1>4, <1>5, <1>6, <3>3, <3>4
  <2>2. next'[s[k - 1]] = s[k + 1] /\ prev'[s[k + 1]] = s[k - 1]
    BY <1>3, <1>4, <1>5, <1>6
  <2> QED BY <2>1, <2>2 DEF LinksDrop
<1>9. FreeSame(capacity, r, next, links)
  <2>1. Elems(capacity, r) \subseteq Node
    BY <1>1 DEF Elems
  <2>2. s[k - 1] \in Elems(size, s)
    BY <1>2 DEF Elems
  <2>3. s[k - 1] \notin Elems(capacity, r)
    BY <1>1, <2>2
  <2> QED BY <1>5, <2>1, <2>3 DEF FreeSame
<1> QED BY <1>4, <1>6, <1>7, <1>8, <1>9, ReleaseKept

(* Where the search stops: at the first of the elements after the head     *)
(* that is in ms or the tail, or behind the list.                          *)
LEMMA SoughtAt ==
  ASSUME TypeOK, NEW s, NEW r, Kept(s, r), Linked, NEW ms \in SUBSET Node, MaxNodes # 0
  PROVE  \E m \in 1..MaxNodes :
           /\ Sought(ms) = IF m < size THEN s[m + 1] ELSE 0
           /\ m < size => s[m + 1] \in ms \/ s[m + 1] = tail
           /\ \A k \in 1..(m - 1) : k < size /\ s[k + 1] \notin ms
<1> DEFINE w    == Way(head, next, MaxNodes)
           ends == {k \in 1..MaxNodes : \/ w[k] \notin Node \/ w[k] \in ms
                                        \/ k > 1 /\ w[k] = tail}
<1>1. IsList(head, size, s, next, Node) /\ size \in Nat /\ s \in [1..size -> Node]
  BY LinkedEnds DEF IsList
<1>2. size <= MaxNodes /\ \A k \in 0..MaxNodes : w[k] = IF k < size THEN s[k + 1] ELSE 0
  <2>1. DOMAIN next = Node
    BY DEF TypeOK
  <2>2. MaxNodes >= Cardinality(Node)
    BY NodeFacts
  <2> QED BY <1>1, <2>1, <2>2, NodeFacts, ListWay
<1>3. Sought(ms) = w[Min(ends)]
  BY DEF Sought
<1> HIDE DEF w
<1>4. ends \in SUBSET Nat /\ ends # {}
  <2> DEFINE j == IF size = 0 THEN 1 ELSE size
  <2>1. j \in 1..MaxNodes /\ j \in 0..MaxNodes /\ ~ (j < size)
    BY <1>1, <1>2, NodeFacts
  <2>2. w[j] = 0
    BY <1>2, <2>1
  <2>3. j \in ends
    BY <2>1, <2>2, NodeFacts
  <2> QED BY <2>3
<1> DEFINE m == Min(ends)
<1>5. m \in ends /\ \A y \in ends : m <= y
  <2> HIDE DEF ends
  <2> QED BY <1>4, MinIsLeast
<1> HIDE DEF m
<1>6. m \in 1..MaxNodes /\ m \in 0..MaxNodes /\ (w[m] \notin Node \/ w[m] \in ms \/ w[m] = tail)
  BY <1>5, NodeFacts
<1>7. w[m] = IF m < size THEN s[m + 1] ELSE 0
  BY <1>2, <1>6
<1>8. m < size => s[m + 1] \in Node
  BY <1>1, <1>6
<1>9. ASSUME NEW k \in 1..(m - 1) PROVE k < size /\ s[k + 1] \notin ms
  <2>1. k \in 1..MaxNodes /\ k \in 0..MaxNodes /\ ~ (m <= k)
    BY <1>6, NodeFacts
  <2>2. k \notin ends
    BY <1>5, <2>1
  <2>3. w[k] \in Node /\ w[k] \notin ms
    BY <2>1, <2>2
  <2> QED BY <1>2, <2>1, <2>3, NodeFacts
<1>10. Sought(ms) = w[m]
  BY <1>3 DEF m
<1> HIDE DEF ends
<1> QED BY <1>6, <1>7, <1>8, <1>9, <1>10

(* A remove takes out an element of ms, or there is none and the nodes     *)
(* stay as they are.                                                       *)
LEMMA RemoveKept ==
  ASSUME TypeOK, NEW s, NEW r, Kept(s, r), Linked, NEW ms \in SUBSET Node, RemoveNodes(ms)
  PROVE  \/ \E k \in 1..size : s[k] \in ms /\ Took(k, s)
         \/ /\ UNCHANGED <<list, nodes, used>> /\ fault' \in BOOLEAN
            /\ \A k \in 1..size : s[k] \notin ms
<1>1. /\ size \in Nat /\ s \in [1..size -> Node]
      /\ \A i, j \in 1..size : s[i] = s[j] => i = j
      /\ (size = 0 <=> head = NULL) /\ (size = 0 <=> tail = NULL)
      /\ size # 0 => head = s[1] /\ tail = s[size] /\ head \in Node /\ tail \in Node
  BY LinkedEnds DEF Kept, Chain
<1>2. NULL \notin ms /\ MaxNodes \in Nat /\ Node = 1..MaxNodes /\ 0 \notin Node
  BY NodeFacts
<1>3. CASE head \in ms /\ RemoveHead
  <2>1. size # 0
    BY <1>1, <1>2, <1>3
  <2>2. 1 \in 1..size /\ s[1] = head /\ Took(1, s)
    BY <1>3, <2>1, RemoveHeadKept
  <2> QED BY <1>3, <2>2
<1>4. CASE head \notin ms /\ tail \in ms /\ RemoveTail
  <2>1. size # 0 /\ head # tail
    BY <1>1, <1>2, <1>4
  <2>2. size \in 1..size /\ s[size] = tail /\ Took(size, s)
    BY <1>4, <2>1, RemoveTailKept
  <2> QED BY <1>4, <2>2
<1>5. ASSUME {head, tail} \cap ms = {}, NEW node \in Node \ {tail},
             node = Sought(ms), RemoveMiddle(node)
      PROVE  \E k \in 1..size : s[k] \in ms /\ Took(k, s)
  <2>1. MaxNodes # 0
    BY <1>2
  <2>2. PICK m \in 1..MaxNodes :
           /\ node = IF m < size THEN s[m + 1] ELSE 0
           /\ m < size => s[m + 1] \in ms \/ s[m + 1] = tail
    BY <1>5, <2>1, SoughtAt
  <2>3. m < size /\ node = s[m + 1] /\ s[m + 1] \in ms
    BY <1>2, <2>2
  <2>4. m \in Nat /\ m + 1 \in 1..size /\ m + 1 # 1 /\ size # 0
    BY <1>1, <2>3
  <2>5. m + 1 # size
    BY <1>1, <2>3, <2>4
  <2>6. Took(m + 1, s)
    BY <1>5, <2>3, <2>4, <2>5, RemoveMiddleKept
  <2> QED BY <2>3, <2>4, <2>6
<1>6. ASSUME Missed(ms)
      PROVE  /\ UNCHANGED <<list, nodes, used>> /\ fault' \in BOOLEAN
             /\ \A k \in 1..size : s[k] \notin ms
  <2>1. UNCHANGED <<list, nodes, used>> /\ fault' \in BOOLEAN
    BY <1>6 DEF Missed, TypeOK, vars
  <2>2. ASSUME NEW i \in 1..size, s[i] \in ms PROVE FALSE
    <3>1. size # 0 /\ MaxNodes # 0 /\ i \in Nat
      BY <1>1, <1>2, <2>2
    <3>2. s[1] \notin ms /\ s[size] \notin ms
      BY <1>1, <1>6, <3>1 DEF Missed
    <3>3. i # 1 /\ i # size
      BY <2>2, <3>2
    <3>4. PICK m \in 1..MaxNodes :
             /\ Sought(ms) = IF m < size THEN s[m + 1] ELSE 0
             /\ \A k \in 1..(m - 1) : k < size /\ s[k + 1] \notin ms
      BY <3>1, SoughtAt
    <3>5. Sought(ms) = tail \/ Sought(ms) \notin Node
      BY <1>6 DEF Missed
    <3>6. size - 1 <= m
      <4>1. CASE m < size
        <5>1. m + 1 \in 1..size /\ size \in 1..size
          BY <1>1, <3>1, <4>1
        <5>2. s[m + 1] = s[size]
          BY <1>1, <3>1, <3>4, <3>5, <4>1, <5>1
        <5>3. m + 1 = size
          BY <1>1, <5>1, <5>2
        <5> QED BY <1>1, <5>3
      <4>2. CASE ~ (m < size)
        BY <1>1, <4>2
      <4> QED BY <4>1, <4>2
    <3>7. i - 1 \in 1..(m - 1) /\ (i - 1) + 1 = i
      BY <1>1, <3>1, <3>3, <3>6
    <3> QED BY <2>2, <3>4, <3>7
  <2> QED BY <2>1, <2>2
<1> QED BY <1>3, <1>4, <1>5, <1>6 DEF RemoveNodes

-----------------------------------------------------------------------------
(* The sequence that the list stands for.                                  *)

LEMMA FunIsSeq ==
  ASSUME NEW S, NEW n \in Nat, NEW f \in [1..n -> S]
  PROVE  f \in Seq(S) /\ Len(f) = n
OBVIOUS

(* Two sequences of n elements that are the same element by element.       *)
LEMMA SameSeq ==
  ASSUME NEW S, NEW n \in Nat, NEW f \in [1..n -> S], NEW g \in Seq(S), Len(g) = n,
         \A i \in 1..n : g[i] = f[i]
  PROVE  g = f
<1>1. f \in Seq(S) /\ Len(f) = n
  BY FunIsSeq
<1> QED BY <1>1, SeqEqual

LEMMA AppendedSeq ==
  ASSUME NEW S, NEW n \in Nat, NEW f \in [1..n -> S], NEW d \in S,
         NEW g \in [1..(n + 1) -> S], g[n + 1] = d, \A i \in 1..n : g[i] = f[i]
  PROVE  g = Append(f, d)
<1>1. f \in Seq(S) /\ Len(f) = n
  BY FunIsSeq
<1>2. /\ Append(f, d) \in Seq(S) /\ Len(Append(f, d)) = n + 1
      /\ \A i \in 1..n : Append(f, d)[i] = f[i] /\ Append(f, d)[n + 1] = d
  BY <1>1, AppendProperties
<1>3. \A i \in 1..(n + 1) : i \in 1..n \/ i = n + 1
  OBVIOUS
<1>4. \A i \in 1..(n + 1) : Append(f, d)[i] = g[i]
  <2>1. CASE n = 0
    BY <1>1, <1>3, <2>1, AppendProperties
  <2>2. CASE n # 0
    <3>1. Append(f, d)[n + 1] = d
      BY <1>1, AppendProperties
    <3> QED BY <1>2, <1>3, <3>1
  <2> QED BY <2>1, <2>2
<1>5. n + 1 \in Nat
  OBVIOUS
<1> QED BY <1>2, <1>4, <1>5, SameSeq

LEMMA PushedSeq ==
  ASSUME NEW S, NEW n \in Nat, NEW f \in [1..n -> S], NEW d \in S,
         NEW g \in [1..(n + 1) -> S], g[1] = d, \A i \in 1..n : g[i + 1] = f[i]
  PROVE  g = <<d>> \o f
<1>1. f \in Seq(S) /\ Len(f) = n
  BY FunIsSeq
<1>2. <<d>> \in Seq(S) /\ Len(<<d>>) = 1 /\ <<d>>[1] = d
  OBVIOUS
<1> DEFINE e == <<d>>
           c == e \o f
<1> HIDE DEF e
<1>3. /\ c \in Seq(S) /\ Len(c) = 1 + n
      /\ \A i \in 1..(1 + n) : c[i] = IF i <= 1 THEN e[i] ELSE f[i - 1]
  BY <1>1, <1>2, ConcatProperties DEF e
<1>4. ASSUME NEW i \in 1..(n + 1) PROVE c[i] = g[i]
  <2>1. CASE i = 1
    BY <1>2, <1>3, <2>1 DEF e
  <2>2. CASE i # 1
    <3>1. i - 1 \in 1..n /\ (i - 1) + 1 = i /\ ~ (i <= 1) /\ i \in 1..(1 + n)
      BY <2>2
    <3>2. g[i] = f[i - 1]
      BY <3>1
    <3> QED BY <1>3, <3>1, <3>2
  <2> QED BY <2>1, <2>2
<1>5. n + 1 \in Nat /\ Len(c) = n + 1
  BY <1>3
<1> HIDE DEF c
<1>6. c = g
  BY <1>3, <1>4, <1>5, SameSeq
<1> QED BY <1>6 DEF c, e

(* g is f without its k-th element.                                        *)
LacksOne(n, k, f, g) ==
  \A i \in 1..(n - 1) : g[i] = IF i < k THEN f[i] ELSE f[i + 1]

LEMMA DroppedSeq ==
  ASSUME NEW S, NEW n \in Nat, NEW f \in [1..n -> S], NEW k \in 1..n,
         NEW g \in [1..(n - 1) -> S], LacksOne(n, k, f, g)
  PROVE  g = Without(f, k)
<1>1. f \in Seq(S) /\ Len(f) = n
  BY FunIsSeq
<1> DEFINE a == SubSeq(f, 1, k - 1)
           b == SubSeq(f, k + 1, n)
           c == a \o b
<1>2. /\ a \in Seq(S) /\ Len(a) = k - 1
      /\ \A i \in 1..(k - 1) : a[i] = f[i]
  <2>1. \A i \in 1..(k - 1) : f[i] \in S
    OBVIOUS
  <2>2. /\ a \in Seq(S) /\ Len(a) = IF 1 <= k - 1 THEN (k - 1) - 1 + 1 ELSE 0
        /\ \A i \in 1..((k - 1) - 1 + 1) : a[i] = f[1 + i - 1]
    BY <2>1, SubSeqProperties
  <2> QED BY <2>2
<1>3. /\ b \in Seq(S) /\ Len(b) = n - k
      /\ \A i \in 1..(n - k) : b[i] = f[k + i]
  <2>1. \A i \in (k + 1)..n : f[i] \in S
    OBVIOUS
  <2>2. /\ b \in Seq(S) /\ Len(b) = IF k + 1 <= n THEN n - (k + 1) + 1 ELSE 0
        /\ \A i \in 1..(n - (k + 1) + 1) : b[i] = f[(k + 1) + i - 1]
    BY <2>1, SubSeqProperties
  <2> QED BY <2>2
<1> HIDE DEF a, b
<1>4. /\ c \in Seq(S) /\ Len(c) = (k - 1) + (n - k)
      /\ \A i \in 1..((k - 1) + (n - k)) : c[i] = IF i <= k - 1 THEN a[i] ELSE b[i - (k - 1)]
  <2>1. a \in Seq(S) /\ b \in Seq(S)
    BY <1>2, <1>3
  <2>2. /\ c \in Seq(S) /\ Len(c) = Len(a) + Len(b)
        /\ \A i \in 1..(Len(a) + Len(b)) : c[i] = IF i <= Len(a) THEN a[i] ELSE b[i - Len(a)]
    BY <2>1, ConcatProperties
  <2>3. Len(a) = k - 1 /\ Len(b) = n - k
    BY <1>2, <1>3
  <2> HIDE DEF c
  <2> QED BY <2>2, <2>3
<1>5. n - 1 \in Nat /\ (k - 1) + (n - k) = n - 1
  OBVIOUS
<1>6. ASSUME NEW i \in 1..(n - 1) PROVE c[i] = g[i]
  <2>1. CASE i < k
    <3>1. i <= k - 1 /\ i \in 1..(k - 1) /\ i \in 1..((k - 1) + (n - k))
      BY <1>5, <2>1
    <3> QED BY <1>2, <1>4, <2>1, <3>1 DEF LacksOne
  <2>2. CASE ~ (i < k)
    <3> DEFINE j == i - (k - 1)
    <3>1. ~ (i <= k - 1) /\ j \in 1..(n - k) /\ k + j = i + 1 /\ i \in 1..((k - 1) + (n - k))
      BY <1>5, <2>2
    <3>2. c[i] = b[j]
      BY <1>4, <3>1
    <3> HIDE DEF j
    <3>3. b[j] = f[i + 1]
      BY <1>3, <3>1
    <3> QED BY <2>2, <3>2, <3>3 DEF LacksOne
  <2> QED BY <2>1, <2>2
<1>7. c = g
  <2> HIDE DEF c
  <2> QED BY <1>4, <1>5, <1>6, SameSeq
<1>8. Without(f, k) = c
  BY <1>1 DEF Without, a, b
<1> QED BY <1>7, <1>8

LEMMA ContentsAre ==
  ASSUME TypeOK, NEW s, NEW r, Kept(s, r), Linked
  PROVE  Contents = [k \in 1..size |-> data[s[k]]]
<1> DEFINE w == Way(head, next, MaxNodes)
           N == {k \in DOMAIN w : w[k] \in Node}
<1>1. IsList(head, size, s, next, Node) /\ size \in Nat /\ s \in [1..size -> Node]
  BY LinkedEnds DEF IsList
<1>2. size <= MaxNodes /\ \A k \in 0..MaxNodes : w[k] = IF k < size THEN s[k + 1] ELSE 0
  <2>1. DOMAIN next = Node
    BY DEF TypeOK
  <2>2. MaxNodes >= Cardinality(Node)
    BY NodeFacts
  <2> QED BY <1>1, <2>1, <2>2, NodeFacts, ListWay
<1>3. DOMAIN w = 0..MaxNodes
  <2>1. w = [k \in 0..MaxNodes |-> w[k]]
    BY NodeFacts, WayIsWay DEF IsWay
  <2> HIDE DEF w
  <2> QED BY <2>1
<1>4. Contents = [k \in 1..Cardinality(N) |-> data[w[k - 1]]]
  BY DEF Contents
<1> HIDE DEF w
<1>5. \A k \in 0..MaxNodes : w[k] \in Node <=> k < size
  BY <1>1, <1>2, NodeFacts
<1>6. N = 0..(size - 1)
  BY <1>1, <1>2, <1>3, <1>5, NodeFacts
<1>7. Cardinality(N) = size
  <2>1. size - 1 \in Int
    BY <1>1
  <2>2. Cardinality(0..(size - 1)) = IF 0 > size - 1 THEN 0 ELSE (size - 1) - 0 + 1
    BY <2>1, FS_Interval
  <2> HIDE DEF N
  <2> QED BY <1>1, <1>6, <2>2
<1>8. \A k \in 1..size : k - 1 \in 0..MaxNodes /\ k - 1 < size /\ (k - 1) + 1 = k
  BY <1>1, <1>2, NodeFacts
<1>9. \A k \in 1..size : w[k - 1] = s[k]
  BY <1>2, <1>8
<1> HIDE DEF N
<1> QED BY <1>4, <1>7, <1>9

-----------------------------------------------------------------------------
(* Every call keeps the invariant.                                         *)

LEMMA InitKept ==
  ASSUME Init
  PROVE  IInv
<1> DEFINE e == [i \in 1..0 |-> 0]
<1>1. TypeOK
  <2>1. /\ {head, tail, free_nodes} \subseteq Ptr
        /\ next \in [Node -> Ptr] /\ prev \in [Node -> Ptr]
        /\ data \in [Node -> Data \cup {Wild}]
    BY DEF Init, Ptr
  <2>2. size \in Nat /\ capacity \in Nat /\ used \in 0..MaxNodes
    BY NodeFacts DEF Init
  <2>3. fault \in BOOLEAN
    BY DEF Init
  <2> QED BY <2>1, <2>2, <2>3 DEF TypeOK
<1>2. IsList(0, 0, e, next, Node) /\ Elems(0, e) = {}
  BY ListEmpty
<1>3. Chain(head, tail, 0, e, next, prev)
  BY DEF Chain
<1> HIDE DEF e
<1>4. 1..0 = {}
  OBVIOUS
<1>5. Shared(0, e, 0, e, 0)
  BY <1>2, <1>4 DEF Shared
<1>6. Kept(e, e)
  BY <1>2, <1>3, <1>5 DEF Init, Kept, NULL
<1> QED BY <1>1, <1>6 DEF IInv

(* Kept and TypeOK depend on these variables only.                         *)
LEMMA KeptFrame ==
  ASSUME TypeOK, NEW s, NEW r, Kept(s, r), UNCHANGED <<list, nodes, used>>, fault' \in BOOLEAN
  PROVE  TypeOK' /\ Kept(s, r)'
BY DEF TypeOK, Kept, list, nodes

LEMMA NextKept ==
  ASSUME IInv, [Next]_vars
  PROVE  IInv'
<1>1. TypeOK
  BY DEF IInv
<1>2. PICK s, r : Kept(s, r)
  BY DEF IInv
<1>3. ASSUME UNCHANGED vars PROVE IInv'
  <2>1. UNCHANGED <<list, nodes, used>> /\ fault' \in BOOLEAN
    BY <1>1, <1>3 DEF vars, TypeOK
  <2>2. TypeOK' /\ Kept(s, r)'
    BY <1>1, <1>2, <2>1, KeptFrame
  <2> QED BY <2>2 DEF IInv
<1>4. ASSUME NEW d \in Data, spr_list_push_back(d) PROVE IInv'
  BY <1>1, <1>2, <1>3, <1>4, PushBackKept DEF IInv
<1>5. ASSUME NEW d \in Data, spr_list_push_front(d) PROVE IInv'
  BY <1>1, <1>2, <1>3, <1>5, PushFrontKept DEF IInv
<1>6. ASSUME NEW n \in 0..MaxReserve, spr_list_reserve(n) PROVE IInv'
  BY <1>1, <1>2, <1>3, <1>6, ReserveKept DEF IInv
<1>7. ASSUME Linked, NEW ms \in SUBSET Node, RemoveNodes(ms) PROVE IInv'
  <2>1. \/ \E k \in 1..size : s[k] \in ms /\ Took(k, s)
        \/ UNCHANGED <<list, nodes, used>> /\ fault' \in BOOLEAN
    BY <1>1, <1>2, <1>7, RemoveKept
  <2>2. ASSUME NEW k \in 1..size, Took(k, s) PROVE IInv'
    BY <2>2 DEF Took, IInv
  <2>3. ASSUME UNCHANGED <<list, nodes, used>> /\ fault' \in BOOLEAN PROVE IInv'
    <3>1. TypeOK' /\ Kept(s, r)'
      BY <1>1, <1>2, <2>3, KeptFrame
    <3> QED BY <3>1 DEF IInv
  <2> QED BY <2>1, <2>2, <2>3
<1>8. ASSUME NEW d \in Data, spr_list_remove(d) PROVE IInv'
  BY <1>7, <1>8 DEF spr_list_remove, Callable
<1>9. ASSUME NEW node \in Node, spr_list_remove1(node) PROVE IInv'
  BY <1>7, <1>9 DEF spr_list_remove1, Callable
<1>10. ASSUME spr_list_clear PROVE IInv'
  <2>1. Linked /\ RemoveNodes({})
    BY <1>10 DEF spr_list_clear, Callable, RemoveNodes
  <2> QED BY <1>7, <2>1
<1> QED BY <1>3, <1>4, <1>5, <1>6, <1>8, <1>9, <1>10 DEF Next

-----------------------------------------------------------------------------

(* A client who starts at spr_list_last and follows prev sees the whole    *)
(* list, whatever calls were made: the way back is never lost, even where  *)
(* the next field of a first node is left as it was.                       *)
THEOREM WayBack == Spec => []BackLinked
<1>1. Init => IInv
  BY InitKept
<1>2. IInv /\ [Next]_vars => IInv'
  BY NextKept
<1>3. IInv => BackLinked
  BY KeptBack DEF IInv
<1> QED BY <1>1, <1>2, <1>3, PTL DEF Spec

(* No node that the pool has supplied to spr_list_push_back,               *)
(* spr_list_push_front or spr_list_reserve is lost or used twice, and      *)
(* spr_list_capacity is the number of free ones.                           *)
THEOREM NoNodeLost == Spec => []NodesKept
<1>1. Init => IInv
  BY InitKept
<1>2. IInv /\ [Next]_vars => IInv'
  BY NextKept
<1>3. IInv => NodesKept
  BY KeptCounted DEF IInv, NodesKept
<1> QED BY <1>1, <1>2, <1>3, PTL DEF Spec

(* Contents in the state that a step leads to.                             *)
LEMMA ContentsNext ==
  \A v, q : TypeOK' /\ Kept(v, q)' /\ Linked' => Contents' = [k \in 1..(size') |-> data'[v[k]]]
<1>1. \A v, q : TypeOK /\ Kept(v, q) /\ Linked => Contents = [k \in 1..size |-> data[v[k]]]
  BY ContentsAre
<1>2. (\A v, q : TypeOK /\ Kept(v, q) /\ Linked => Contents = [k \in 1..size |-> data[v[k]]])'
  BY <1>1, PTL
<1> QED BY <1>2

(* What a step that changes something does to the contents.                *)
LEMMA ContentsStep ==
  ASSUME IInv, Linked', ~ UNCHANGED vars
  PROVE  /\ \A d \in Data :
              /\ spr_list_push_back(d) => Contents' = Append(Contents, d)
              /\ spr_list_push_front(d) => Contents' = <<d>> \o Contents
              /\ spr_list_remove(d) =>
                   \/ \E k \in DOMAIN Contents :
                        Contents[k] = d /\ Contents' = Without(Contents, k)
                   \/ /\ \A k \in DOMAIN Contents : Contents[k] # d
                      /\ Contents' = Contents
         /\ \A n \in 0..MaxReserve : spr_list_reserve(n) => Contents' = Contents
<1> DEFINE S == Data \cup {Wild}
<1>1. TypeOK
  BY DEF IInv
<1>2. PICK s, r : Kept(s, r)
  BY DEF IInv
<1>3. size \in Nat /\ s \in [1..size -> Node] /\ data \in [Node -> S]
  BY <1>1, <1>2 DEF Kept, Chain, TypeOK
<1> PICK f : f = [k \in 1..size |-> data[s[k]]]
  OBVIOUS
<1>4. f \in [1..size -> S]
  BY <1>3
<1>5. Linked => Contents = f
  BY <1>1, <1>2, ContentsAre
<1>6. \A i \in 1..size : s[i] \in Node /\ s[i] \in Elems(size, s) /\ f[i] = data[s[i]]
  BY <1>3 DEF Elems
<1>7. ASSUME NEW d \in Data, spr_list_push_back(d) PROVE Contents' = Append(Contents, d)
  <2>0. Contents = f
    BY <1>5, <1>7 DEF spr_list_push_back, Callable
  <2>1. /\ TypeOK' /\ \E v, q : v = Appended(Taken, size, s) /\ Kept(v, q)'
        /\ Taken \in Node /\ Taken \notin Elems(size, s) /\ size' = size + 1
        /\ data' = [data EXCEPT ![Taken] = d]
    BY <1>1, <1>2, <1>7, PushBackKept
  <2>2. PICK v, q : v = Appended(Taken, size, s) /\ Kept(v, q)'
    BY <2>1
  <2> PICK c : c = Taken
    OBVIOUS
  <2>3. Contents' = [k \in 1..(size + 1) |-> data'[v[k]]]
    BY <2>1, <2>2, ContentsNext
  <2> PICK g : g = [k \in 1..(size + 1) |-> data'[v[k]]]
    OBVIOUS
  <2>4. v[size + 1] = c /\ \A i \in 1..size : v[i] = s[i] /\ i \in 1..(size + 1)
    BY <1>3, <2>2 DEF Appended
  <2>5. g[size + 1] = d
    BY <1>3, <2>1, <2>4
  <2>6. \A i \in 1..size : g[i] = f[i]
    BY <1>3, <1>6, <2>1, <2>4
  <2>7. g \in [1..(size + 1) -> S]
    <3>1. \A i \in 1..(size + 1) : i \in 1..size \/ i = size + 1
      BY <1>3
    <3>2. \A i \in 1..(size + 1) : g[i] \in S
      BY <1>4, <2>5, <2>6, <3>1
    <3> QED BY <3>2
  <2>8. g = Append(f, d)
    <3>1. d \in S
      OBVIOUS
    <3> HIDE DEF S
    <3> QED BY ONLY <1>3, <1>4, <2>5, <2>6, <2>7, <3>1, AppendedSeq
  <2> QED BY <2>0, <2>3, <2>8
<1>8. ASSUME NEW d \in Data, spr_list_push_front(d) PROVE Contents' = <<d>> \o Contents
  <2>0. Contents = f
    BY <1>5, <1>8 DEF spr_list_push_front, Callable
  <2>1. /\ TypeOK' /\ \E v, q : v = Pushed(Taken, size, s) /\ Kept(v, q)'
        /\ Taken \in Node /\ Taken \notin Elems(size, s) /\ size' = size + 1
        /\ data' = [data EXCEPT ![Taken] = d]
    BY <1>1, <1>2, <1>8, PushFrontKept
  <2>2. PICK v, q : v = Pushed(Taken, size, s) /\ Kept(v, q)'
    BY <2>1
  <2> PICK c : c = Taken
    OBVIOUS
  <2>3. Contents' = [k \in 1..(size + 1) |-> data'[v[k]]]
    BY <2>1, <2>2, ContentsNext
  <2> PICK g : g = [k \in 1..(size + 1) |-> data'[v[k]]]
    OBVIOUS
  <2>4. v[1] = c /\ 1 \in 1..(size + 1) /\ \A i \in 1..size : v[i + 1] = s[i] /\ i + 1 \in 1..(size + 1)
    BY <1>3, <2>2 DEF Pushed
  <2>5. g[1] = d
    BY <1>3, <2>1, <2>4
  <2>6. \A i \in 1..size : g[i + 1] = f[i]
    BY <1>3, <1>6, <2>1, <2>4
  <2>7. g \in [1..(size + 1) -> S]
    <3>1. \A i \in 1..(size + 1) : i = 1 \/ (i - 1 \in 1..size /\ (i - 1) + 1 = i)
      BY <1>3
    <3>2. \A i \in 1..(size + 1) : g[i] \in S
      BY <1>4, <2>5, <2>6, <3>1
    <3> QED BY <3>2
  <2>8. g = <<d>> \o f
    <3>1. d \in S
      OBVIOUS
    <3> HIDE DEF S
    <3> QED BY ONLY <1>3, <1>4, <2>5, <2>6, <2>7, <3>1, PushedSeq
  <2> QED BY <2>0, <2>3, <2>8
<1>9. ASSUME NEW d \in Data, spr_list_remove(d)
      PROVE  \/ \E k \in DOMAIN Contents : Contents[k] = d /\ Contents' = Without(Contents, k)
             \/ /\ \A k \in DOMAIN Contents : Contents[k] # d
                /\ Contents' = Contents
  <2> PICK ms : ms = {p \in Node : data[p] = d}
    OBVIOUS
  <2>0. Linked /\ Contents = f /\ RemoveNodes(ms) /\ ms \in SUBSET Node
    BY <1>5, <1>9 DEF spr_list_remove, Callable
  <2>1. \A i \in 1..size : s[i] \in ms <=> f[i] = d
    BY <1>6
  <2>2. DOMAIN f = 1..size
    OBVIOUS
  <2>3. ASSUME NEW k \in 1..size, s[k] \in ms, Took(k, s)
        PROVE  f[k] = d /\ Contents' = Without(f, k)
    <3>1. TypeOK' /\ size' = size - 1 /\ data' = data
      BY <2>3 DEF Took
    <3>2. PICK v, q : v = Dropped(k, size, s) /\ Kept(v, q)'
      BY <2>3 DEF Took
    <3>3. Contents' = [i \in 1..(size - 1) |-> data[v[i]]]
      BY <3>1, <3>2, ContentsNext
    <3> PICK g : g = [i \in 1..(size - 1) |-> data[v[i]]]
      OBVIOUS
    <3>4. \A i \in 1..(size - 1) : i \in 1..size /\ i + 1 \in 1..size
      BY <1>3
    <3>5. \A i \in 1..(size - 1) : g[i] = IF i < k THEN f[i] ELSE f[i + 1]
      BY <1>6, <3>2, <3>4 DEF Dropped
    <3>6. g \in [1..(size - 1) -> S]
      BY <1>4, <3>4, <3>5
    <3>7. g = Without(f, k)
      <4>1. k \in 1..size
        OBVIOUS
      <4>2. LacksOne(size, k, f, g)
        BY <3>5 DEF LacksOne
      <4> HIDE DEF S
      <4> QED BY ONLY <1>3, <1>4, <3>6, <4>1, <4>2, DroppedSeq, ZenonT(30)
    <3> QED BY <2>1, <2>3, <3>3, <3>7
  <2>4. ASSUME UNCHANGED <<list, nodes, used>>, fault' \in BOOLEAN PROVE Contents' = f
    <3>1. TypeOK' /\ Kept(s, r)' /\ size' = size /\ data' = data
      BY <1>1, <1>2, <2>4, KeptFrame DEF list, nodes
    <3> QED BY <3>1, ContentsNext
  <2>5. \/ \E k \in 1..size : s[k] \in ms /\ Took(k, s)
        \/ /\ UNCHANGED <<list, nodes, used>> /\ fault' \in BOOLEAN
           /\ \A k \in 1..size : s[k] \notin ms
    BY <1>1, <1>2, <2>0, RemoveKept
  <2>6. CASE \E k \in 1..size : s[k] \in ms /\ Took(k, s)
    BY <2>0, <2>2, <2>3, <2>6
  <2>7. CASE /\ UNCHANGED <<list, nodes, used>> /\ fault' \in BOOLEAN
             /\ \A k \in 1..size : s[k] \notin ms
    BY <2>0, <2>1, <2>2, <2>4, <2>7
  <2> QED BY <2>5, <2>6, <2>7
<1>10. ASSUME NEW n \in 0..MaxReserve, spr_list_reserve(n) PROVE Contents' = Contents
  <2>0. Contents = f
    BY <1>5, <1>10 DEF spr_list_reserve, Callable
  <2>1. /\ TypeOK' /\ \E q : Kept(s, q)'
        /\ size' = size /\ data' = data
    BY <1>1, <1>2, <1>10, ReserveKept
  <2> QED BY <2>0, <2>1, ContentsNext
<1> QED BY <1>7, <1>8, <1>9, <1>10

(* On the sequence that the list stands for, spr_list_push_back and        *)
(* spr_list_push_front add one element at their end, spr_list_remove takes *)
(* out one that is equal to its argument if there is one, and              *)
(* spr_list_reserve changes nothing, as long as the list stays Linked.     *)
THEOREM ListIsSequence == Spec => SequenceLaws
<1>1. Init => IInv
  BY InitKept
<1>2. IInv /\ [Next]_vars => IInv'
  BY NextKept
<1>3. IInv => [Linked' =>
     /\ \A d \in Data :
          /\ spr_list_push_back(d) => Contents' = Append(Contents, d)
          /\ spr_list_push_front(d) => Contents' = <<d>> \o Contents
          /\ spr_list_remove(d) =>
               \/ \E k \in DOMAIN Contents :
                    Contents[k] = d /\ Contents' = Without(Contents, k)
               \/ /\ \A k \in DOMAIN Contents : Contents[k] # d
                  /\ Contents' = Contents
     /\ \A n \in 0..MaxReserve : spr_list_reserve(n) => Contents' = Contents]_vars
  BY ContentsStep
<1> QED BY <1>1, <1>2, <1>3, PTL DEF Spec, SequenceLaws

-----------------------------------------------------------------------------
(* Loops over text.                                                        *)

(* First is the first member of hits below n, or n.                        *)
FirstOf(n, hits, i) ==
  /\ i \in 0..n
  /\ i = n \/ i \in hits
  /\ \A j \in 0..(i - 1) : j \notin hits

LEMMA FirstIs ==
  ASSUME NEW n \in Nat, NEW hits
  PROVE  FirstOf(n, hits, First(n, hits))
<1> DEFINE Def(f)  == [i \in 0..n |-> IF i = n \/ i \in hits THEN i ELSE f[i + 1]]
           Stop(i) == {k \in i..n : k = n \/ k \in hits}
           g       == [i \in 0..n |-> Min(Stop(i))]
<1>1. ASSUME NEW i \in 0..n
      PROVE  Stop(i) \in SUBSET Nat /\ n \in Stop(i)
  OBVIOUS
<1>2. ASSUME NEW i \in 0..n
      PROVE  Min(Stop(i)) \in Stop(i) /\ \A k \in Stop(i) : Min(Stop(i)) <= k
  <2> HIDE DEF Stop
  <2> QED BY <1>1, MinIsLeast
<1>3. ASSUME NEW i \in 0..n
      PROVE  g[i] = IF i = n \/ i \in hits THEN i ELSE g[i + 1]
  <2>1. g[i] = Min(Stop(i)) /\ (i # n => i + 1 \in 0..n /\ g[i + 1] = Min(Stop(i + 1)))
    <3> HIDE DEF Stop
    <3> QED OBVIOUS
  <2> HIDE DEF g
  <2>2. CASE i = n \/ i \in hits
    <3>1. i \in Stop(i)
      BY <2>2
    <3>2. Min(Stop(i)) <= i /\ Min(Stop(i)) \in i..n
      BY <1>2, <3>1
    <3> QED BY <2>1, <2>2, <3>2
  <2>3. CASE ~ (i = n \/ i \in hits)
    <3>1. Stop(i) = Stop(i + 1)
      BY <2>3
    <3> HIDE DEF Stop
    <3> QED BY <2>1, <2>3, <3>1
  <2> QED BY <2>2, <2>3
<1>4. g = Def(g)
  <2>1. g = [i \in 0..n |-> g[i]]
    OBVIOUS
  <2> HIDE DEF g
  <2> QED BY <1>3, <2>1
<1> DEFINE f == CHOOSE h : h = Def(h)
<1>5. f = Def(f)
  <2> HIDE DEF Def, g
  <2> QED BY <1>4
<1>6. First(n, hits) = f[0]
  BY DEF First
<1> HIDE DEF f, g
<1>7. \A i \in 0..n : f[i] = IF i = n \/ i \in hits THEN i ELSE f[i + 1]
  BY <1>5
<1> HIDE DEF Def
<1> DEFINE Found(i) == f[i] \in i..n /\ (f[i] = n \/ f[i] \in hits)
                         /\ \A j \in i..(f[i] - 1) : j \notin hits
           S == {m \in Nat : m <= n => Found(n - m)}
<1>8. 0 \in S
  <2>1. f[n] = n
    BY <1>7
  <2> QED BY <2>1
<1>9. ASSUME NEW m \in S PROVE m + 1 \in S
  <2>1. SUFFICES ASSUME m + 1 <= n PROVE Found(n - (m + 1))
    OBVIOUS
  <2> DEFINE i == n - (m + 1)
  <2>2. i \in 0..n /\ i # n /\ i + 1 = n - m /\ m \in Nat
    BY <2>1
  <2>3. Found(i + 1)
    BY <2>1, <2>2
  <2>4. f[i] = IF i \in hits THEN i ELSE f[i + 1]
    BY <1>7, <2>2
  <2> HIDE DEF i
  <2>5. Found(i)
    <3>1. CASE i \in hits
      BY <2>2, <2>4, <3>1
    <3>2. CASE i \notin hits
      <4>1. f[i] = f[i + 1]
        BY <2>4, <3>2
      <4>2. \A j \in i..(f[i] - 1) : j = i \/ j \in (i + 1)..(f[i + 1] - 1)
        BY <2>2, <2>3, <4>1
      <4> QED BY <2>2, <2>3, <3>2, <4>1, <4>2
    <3> QED BY <3>1, <3>2
  <2> QED BY <2>5 DEF i
<1>10. S \in SUBSET Nat
  OBVIOUS
<1>11. S = Nat
  <2> HIDE DEF S
  <2> QED BY <1>8, <1>9, <1>10, SetInduction
<1>12. Found(0)
  <2>1. n \in S
    <3> HIDE DEF S
    <3> QED BY <1>11
  <2>2. n <= n /\ n - n = 0
    OBVIOUS
  <2> QED BY <2>1, <2>2
<1> QED BY <1>6, <1>12 DEF FirstOf

(* The first one that is there is found.                                   *)
LEMMA FirstFinds ==
  ASSUME NEW n \in Nat, NEW hits, NEW i \in 0..n, i \in hits
  PROVE  First(n, hits) \in 0..i /\ (First(n, hits) = n \/ First(n, hits) \in hits)
<1>1. FirstOf(n, hits, First(n, hits))
  BY FirstIs
<1> QED BY <1>1 DEF FirstOf

(* There is one first member.                                              *)
LEMMA FirstExact ==
  ASSUME NEW n \in Nat, NEW hits, NEW i, FirstOf(n, hits, i)
  PROVE  First(n, hits) = i
<1> DEFINE k == First(n, hits)
<1>1. FirstOf(n, hits, k)
  BY FirstIs
<1> HIDE DEF k
<1>2. i \in 0..n /\ k \in 0..n
  BY <1>1 DEF FirstOf
<1>3. ~ (i < k) /\ ~ (k < i)
  <2>1. ASSUME i < k PROVE FALSE
    <3>1. i \in 0..(k - 1) /\ i # n
      BY <1>2, <2>1
    <3> QED BY <1>1, <3>1 DEF FirstOf
  <2>2. ASSUME k < i PROVE FALSE
    <3>1. k \in 0..(i - 1) /\ k # n
      BY <1>2, <2>2
    <3> QED BY <1>1, <3>1 DEF FirstOf
  <2> QED BY <2>1, <2>2
<1>4. k = i
  BY <1>2, <1>3
<1> QED BY <1>4 DEF k

-----------------------------------------------------------------------------
(* Strings.                                                                *)

(* s is a string and n the length of its text.                             *)
Ends(s, n) ==
  /\ Len(s) \in Nat /\ DOMAIN s = 1..Len(s) /\ s = [i \in 1..Len(s) |-> s[i]]
  /\ n \in 0..(Len(s) - 1)
  /\ s[n + 1] = 0
  /\ \A i \in 1..n : s[i] # 0

LEMMA StringsAre ==
  ASSUME NEW s \in Strings
  PROVE  /\ s \in Seq(Chars \cup {0}) /\ Len(s) \in 1..(MaxLen + 1) /\ s[Len(s)] = 0
<1> DEFINE C == Chars \cup {0}
<1>1. PICK t \in Upto(C, MaxLen) : s = Append(t, 0)
  BY DEF Strings
<1>2. PICK k \in 0..MaxLen : t \in [1..k -> C]
  BY <1>1 DEF Upto
<1> HIDE DEF C
<1>3. k \in Nat /\ 0 \in C /\ MaxLen \in Nat
  BY <1>2, TextAssumption DEF C
<1>4. t \in Seq(C) /\ Len(t) = k
  BY <1>2, <1>3, FunIsSeq
<1>5. s \in Seq(C) /\ Len(s) = k + 1 /\ s[k + 1] = 0
  BY <1>1, <1>3, <1>4
<1> QED BY <1>2, <1>3, <1>5 DEF C

LEMMA StringEnds ==
  ASSUME NEW s \in Strings
  PROVE  Ends(s, spr_strlen(s))
<1> DEFINE hits == {i \in 0..(Len(s) - 1) : s[i + 1] = 0}
           n    == spr_strlen(s)
<1>1. s \in Seq(Chars \cup {0}) /\ Len(s) \in 1..(MaxLen + 1) /\ s[Len(s)] = 0
  BY StringsAre
<1>2. Len(s) \in Nat /\ Len(s) - 1 \in 0..Len(s) /\ Len(s) - 1 \in hits
  BY <1>1
<1>3. n = First(Len(s), hits)
  BY DEF spr_strlen
<1> HIDE DEF hits, n
<1>4. n \in 0..(Len(s) - 1) /\ n \in hits
  BY <1>1, <1>2, <1>3, FirstFinds
<1>5. \A j \in 0..(n - 1) : j \notin hits
  BY <1>2, <1>3, FirstIs DEF FirstOf
<1>6. \A i \in 1..n : s[i] # 0
  <2> TAKE i \in 1..n
  <2>1. i - 1 \in 0..(n - 1) /\ i - 1 \in 0..(Len(s) - 1) /\ (i - 1) + 1 = i
    BY <1>2, <1>4
  <2> QED BY <1>5, <2>1 DEF hits
<1>7. s = [i \in 1..Len(s) |-> s[i]] /\ DOMAIN s = 1..Len(s)
  BY <1>1
<1> QED BY <1>2, <1>4, <1>6, <1>7 DEF Ends, n, hits

(* No character is one of the marks for other bytes.                       *)
LEMMA CharsAre ==
  ASSUME NEW s \in Strings
  PROVE  \A i \in 1..Len(s) : s[i] # Foreign /\ s[i] # Behind
<1>1. s \in Seq(Chars \cup {0})
  BY StringsAre
<1>2. \A c \in Chars \cup {0} : c # Foreign /\ c # Behind
  BY TextAssumption DEF Foreign, Behind
<1> QED BY <1>1, <1>2

(* TextOf is what is before the first 0.                                   *)
LEMMA TextOfIs ==
  ASSUME NEW s, NEW n, Ends(s, n)
  PROVE  /\ TextOf(s) = SubSeq(s, 1, n) /\ Len(TextOf(s)) = n
         /\ DOMAIN TextOf(s) = 1..n /\ \A i \in 1..n : TextOf(s)[i] = s[i]
<1> DEFINE Z == {i \in DOMAIN s : s[i] = 0}
<1>1. n + 1 \in Z /\ (\A i \in Z : n + 1 <= i) /\ Z \in SUBSET Nat
  BY DEF Ends
<1>2. Min(Z) \in Z /\ \A i \in Z : Min(Z) <= i
  <2> HIDE DEF Z
  <2> QED BY <1>1, MinIsLeast
<1>3. Min(Z) = n + 1
  <2> HIDE DEF Z
  <2>1. Min(Z) \in Nat /\ n \in Nat
    BY <1>1, <1>2 DEF Ends
  <2> QED BY <1>1, <1>2, <2>1
<1>4. TextOf(s) = SubSeq(s, 1, n)
  <2>1. (n + 1) - 1 = n
    BY DEF Ends
  <2> QED BY <1>3, <2>1 DEF TextOf
<1>5. SubSeq(s, 1, n) = [i \in 1..n |-> s[i]]
  <2>1. n \in Nat
    BY DEF Ends
  <2> QED BY <2>1
<1>6. Len([i \in 1..n |-> s[i]]) = n
  BY DEF Ends
<1> QED BY <1>4, <1>5, <1>6

-----------------------------------------------------------------------------
(* Recursive functions.                                                    *)

(* Induction up to n.                                                      *)
LEMMA UpToInduction ==
  ASSUME NEW n \in Nat, NEW S, 0 \in S, \A i \in 0..(n - 1) : i \in S => i + 1 \in S
  PROVE  \A i \in 0..n : i \in S
<1> DEFINE T == {i \in Nat : i <= n => i \in S}
<1>1. 0 \in T
  OBVIOUS
<1>2. ASSUME NEW i \in T PROVE i + 1 \in T
  <2>1. CASE i + 1 <= n
    BY <2>1
  <2>2. CASE ~ (i + 1 <= n)
    BY <2>2
  <2> QED BY <2>1, <2>2
<1>3. T \in SUBSET Nat
  OBVIOUS
<1>4. T = Nat
  <2> HIDE DEF T
  <2> QED BY <1>1, <1>2, <1>3, SetInduction
<1> QED BY <1>4

(* f starts as start at a, and step gives each value from the one before.  *)
Follows(a, n, f, start, step) ==
  f = [i \in a..n |-> IF i = a THEN start ELSE step[i][f[i - 1]]]

LEMMA RecursionExists ==
  ASSUME NEW a \in Nat, NEW n \in Nat, NEW D, NEW start \in D,
         NEW step \in [(a + 1)..n -> [D -> D]]
  PROVE  \E f \in [a..n -> D] : Follows(a, n, f, start, step)
<1> DEFINE Upto1(m, f) == \A i \in a..m : f[i] = IF i = a THEN start ELSE step[i][f[i - 1]]
           S == {m \in Nat : a + m <= n => \E f \in [a..(a + m) -> D] : Upto1(a + m, f)}
<1>1. 0 \in S
  <2> DEFINE f == [i \in a..(a + 0) |-> start]
  <2>1. f \in [a..(a + 0) -> D] /\ Upto1(a + 0, f)
    OBVIOUS
  <2> HIDE DEF f, Upto1
  <2> QED BY <2>1
<1>2. ASSUME NEW m \in S PROVE m + 1 \in S
  <2>1. SUFFICES ASSUME a + (m + 1) <= n
                 PROVE  \E f \in [a..(a + (m + 1)) -> D] : Upto1(a + (m + 1), f)
    <3> HIDE DEF Upto1
    <3> QED OBVIOUS
  <2> DEFINE k == a + (m + 1)
  <2>2. m \in Nat /\ k - 1 = a + m /\ k \in (a + 1)..n
    BY <2>1
  <2>3. PICK f \in [a..(k - 1) -> D] : Upto1(k - 1, f)
    BY <2>1, <2>2
  <2> HIDE DEF k
  <2> DEFINE g == [i \in a..k |-> IF i = k THEN step[k][f[k - 1]] ELSE f[i]]
  <2>4. f[k - 1] \in D
    BY <2>2
  <2>5. step[k][f[k - 1]] \in D
    BY <2>2, <2>4
  <2>6. g \in [a..k -> D]
    BY <2>2, <2>5
  <2>7. ASSUME NEW i \in a..k PROVE g[i] = IF i = a THEN start ELSE step[i][g[i - 1]]
    <3>1. CASE i = k
      <4>1. g[i] = step[k][f[k - 1]] /\ g[i - 1] = f[k - 1] /\ i # a
        BY <2>2, <3>1
      <4> QED BY <3>1, <4>1
    <3>2. CASE i # k
      <4>1. i \in a..(k - 1) /\ g[i] = f[i] /\ (i # a => g[i - 1] = f[i - 1])
        BY <2>2, <3>2
      <4> HIDE DEF g
      <4> QED BY <2>3, <4>1
    <3> QED BY <3>1, <3>2
  <2>8. Upto1(k, g)
    BY <2>7
  <2> HIDE DEF g, Upto1
  <2> QED BY <2>6, <2>8 DEF k
<1>3. S \in SUBSET Nat
  OBVIOUS
<1>4. S = Nat
  <2> HIDE DEF S
  <2> QED BY <1>1, <1>2, <1>3, SetInduction
<1>5. CASE n < a
  <2> DEFINE f == [i \in a..n |-> start]
  <2>1. f \in [a..n -> D] /\ a..n = {}
    BY <1>5
  <2>2. Follows(a, n, f, start, step)
    BY <2>1 DEF Follows
  <2> QED BY <2>1, <2>2
<1>6. CASE a <= n
  <2>1. n - a \in Nat /\ a + (n - a) = n
    BY <1>6
  <2>2. n - a \in S
    <3> HIDE DEF S
    <3> QED BY <1>4, <2>1
  <2>3. PICK f \in [a..n -> D] : Upto1(n, f)
    BY <2>1, <2>2
  <2>4. Follows(a, n, f, start, step)
    BY <2>3 DEF Follows
  <2> QED BY <2>4
<1> QED BY <1>5, <1>6

(* Sequences one behind the other; F has the first of them.                *)
Joined(n, q, F) ==
  /\ F[0] = <<>>
  /\ \A i \in 1..n : F[i] = F[i - 1] \o q[i]

LEMMA FlattenIs ==
  ASSUME NEW S, NEW n \in Nat, NEW q \in [1..n -> Seq(S)]
  PROVE  \E F \in [0..n -> Seq(S)] : Joined(n, q, F) /\ FlattenSeq(q) = F[n]
<1>1. Len(q) = n
  OBVIOUS
<1>2. CASE n = 0
  <2> DEFINE F == [i \in 0..n |-> <<>>]
  <2>1. q = <<>>
    BY <1>2
  <2>2. FlattenSeq(q) = q
    BY <1>1, <1>2 DEF FlattenSeq
  <2>3. F \in [0..n -> Seq(S)] /\ F[0] = <<>> /\ F[n] = <<>>
    OBVIOUS
  <2>4. Joined(n, q, F)
    BY <1>2, <2>3 DEF Joined
  <2> QED BY <2>1, <2>2, <2>3, <2>4
<1>3. CASE n # 0
  <2> DEFINE Def(f) == [i \in 1..n |-> IF i = 1 THEN q[i] ELSE f[i - 1] \o q[i]]
             step   == [i \in (1 + 1)..n |-> [d \in Seq(S) |-> d \o q[i]]]
             w      == CHOOSE f : f = Def(f)
  <2>1. step \in [(1 + 1)..n -> [Seq(S) -> Seq(S)]]
    OBVIOUS
  <2>2. q[1] \in Seq(S)
    BY <1>3
  <2>3. PICK f \in [1..n -> Seq(S)] : Follows(1, n, f, q[1], step)
    <3> HIDE DEF step
    <3> QED BY <2>1, <2>2, RecursionExists
  <2>4. f = Def(f)
    <3>1. ASSUME NEW i \in 1..n, i # 1 PROVE step[i][f[i - 1]] = f[i - 1] \o q[i]
      <4>1. i \in (1 + 1)..n /\ f[i - 1] \in Seq(S)
        BY <3>1
      <4> QED BY <4>1
    <3>2. f = [i \in 1..n |-> IF i = 1 THEN q[1] ELSE step[i][f[i - 1]]]
      BY <2>3 DEF Follows
    <3> HIDE DEF step
    <3> QED BY <3>1, <3>2
  <2>5. w = Def(w)
    <3> HIDE DEF Def
    <3> QED BY <2>4
  <2>6. FlattenSeq(q) = w[n]
    BY <1>1, <1>3 DEF FlattenSeq
  <2> HIDE DEF w
  <2>7. w[1] = q[1] /\ \A i \in 2..n : w[i] = w[i - 1] \o q[i]
    <3>1. \A i \in 1..n : w[i] = IF i = 1 THEN q[i] ELSE w[i - 1] \o q[i]
      BY <2>5
    <3>2. 1 \in 1..n /\ \A i \in 2..n : i \in 1..n /\ i # 1
      BY <1>3
    <3> QED BY <3>1, <3>2
  <2> DEFINE T == {i \in 0..n : i = 0 \/ w[i] \in Seq(S)}
  <2>8. 0 \in T
    OBVIOUS
  <2>9. ASSUME NEW i \in 0..(n - 1), i \in T PROVE i + 1 \in T
    <3>1. CASE i = 0
      BY <2>2, <2>7, <3>1
    <3>2. CASE i # 0
      <4>1. w[i + 1] = w[i] \o q[i + 1] /\ w[i] \in Seq(S) /\ q[i + 1] \in Seq(S)
        <5>1. i + 1 \in 2..n /\ (i + 1) - 1 = i /\ i + 1 \in 1..n
          BY <3>2
        <5> QED BY <2>7, <2>9, <3>2, <5>1
      <4>2. w[i + 1] \in Seq(S)
        BY <4>1
      <4> QED BY <4>2
    <3> QED BY <3>1, <3>2
  <2>10. \A i \in 0..n : i \in T
    <3> HIDE DEF T
    <3> QED BY <2>8, <2>9, UpToInduction
  <2> DEFINE F == [i \in 0..n |-> IF i = 0 THEN <<>> ELSE w[i]]
  <2>11. \A i \in 1..n : w[i] \in Seq(S)
    BY <2>10
  <2>12. F \in [0..n -> Seq(S)] /\ F[0] = <<>> /\ F[n] = w[n]
    BY <1>3, <2>11
  <2>13. ASSUME NEW i \in 1..n PROVE F[i] = F[i - 1] \o q[i]
    <3>1. CASE i = 1
      <4>1. F[i] = q[1] /\ F[i - 1] = <<>>
        BY <2>7, <3>1
      <4>2. <<>> \o q[1] = q[1]
        BY <2>2
      <4> QED BY <3>1, <4>1, <4>2
    <3>2. CASE i # 1
      <4>1. i \in 2..n /\ F[i] = w[i] /\ F[i - 1] = w[i - 1]
        BY <3>2
      <4> QED BY <2>7, <4>1
    <3> QED BY <3>1, <3>2
  <2>14. Joined(n, q, F)
    <3> HIDE DEF F
    <3> QED BY <2>12, <2>13 DEF Joined
  <2> HIDE DEF F
  <2> QED BY <2>6, <2>12, <2>14
<1> QED BY <1>2, <1>3

-----------------------------------------------------------------------------
(* Copies.                                                                 *)

(* m is mem with the l elements of s written to it from at on.             *)
Wrote(m, mem, at, s, l) ==
  /\ DOMAIN m = DOMAIN mem \cup at..(at + l - 1)
  /\ \A k \in at..(at + l - 1) : m[k] = s[k - at + 1]
  /\ \A k \in DOMAIN mem : k \notin at..(at + l - 1) => m[k] = mem[k]

LEMMA PutIs ==
  ASSUME NEW mem, NEW at \in Nat, NEW s, NEW l \in Nat, Len(s) = l
  PROVE  Wrote(Put(mem, at, s), mem, at, s, l)
BY DEF Put, Wrote

(* A write from the first byte on, inside the block.                       *)
LEMMA PutFirst ==
  ASSUME NEW mem, NEW d \in Nat, DOMAIN mem = 0..d,
         NEW s, NEW l \in 0..(d + 1), Len(s) = l, NEW m, m = Put(mem, 0, s)
  PROVE  /\ DOMAIN m = 0..d
         /\ \A k \in 0..(l - 1) : m[k] = s[k + 1]
         /\ \A k \in l..d : m[k] = mem[k]
<1>1. Wrote(m, mem, 0, s, l)
  BY PutIs
<1>2. /\ 0 + l - 1 = l - 1 /\ 0..d \cup 0..(l - 1) = 0..d
      /\ \A k \in 0..(l - 1) : k - 0 + 1 = k + 1
      /\ \A k \in l..d : k \in 0..d /\ k \notin 0..(l - 1)
  OBVIOUS
<1> QED BY <1>1, <1>2 DEF Wrote

(* A 0 written into the block.                                             *)
LEMMA PutZero ==
  ASSUME NEW mem, NEW n \in Nat, n \in DOMAIN mem, NEW m, m = Put(mem, n, << 0 >>)
  PROVE  /\ DOMAIN m = DOMAIN mem
         /\ m[n] = 0
         /\ \A k \in DOMAIN mem : k # n => m[k] = mem[k]
<1>1. Len(<<0>>) = 1 /\ <<0>>[1] = 0 /\ n - n + 1 = 1 /\ n..(n + 1 - 1) = {n}
  OBVIOUS
<1>2. Wrote(m, mem, n, <<0>>, 1)
  BY <1>1, PutIs
<1> QED BY <1>1, <1>2 DEF Wrote

LEMMA BlockIs ==
  ASSUME NEW n \in Nat
  PROVE  DOMAIN Block(n) = 0..n /\ Block(n)[n] = Behind /\ \A k \in 0..(n - 1) : Block(n)[k] = Unset
BY DEF Block

(* The first n elements of a sequence.                                     *)
LEMMA FrontIs ==
  ASSUME NEW s, NEW n \in Nat
  PROVE  /\ Len(SubSeq(s, 1, n)) = n /\ DOMAIN SubSeq(s, 1, n) = 1..n
         /\ \A i \in 1..n : SubSeq(s, 1, n)[i] = s[i]
<1>1. SubSeq(s, 1, n) = [i \in 1..n |-> s[i]]
  OBVIOUS
<1>2. Len([i \in 1..n |-> s[i]]) = n
  OBVIOUS
<1> QED BY <1>1, <1>2

LEMMA MinOfTwo ==
  ASSUME NEW a \in Nat, NEW b \in Nat
  PROVE  Min({a, b}) = IF a <= b THEN a ELSE b
<1>1. Min({a, b}) \in {a, b} /\ \A y \in {a, b} : Min({a, b}) <= y
  <2>1. {a, b} \in SUBSET Nat /\ {a, b} # {}
    OBVIOUS
  <2> QED BY <2>1, MinIsLeast
<1> QED BY <1>1

LEMMA ShortIs ==
  ASSUME NEW t, Len(t) \in Nat, NEW n \in Nat
  PROVE  LET m == IF n <= Len(t) THEN n ELSE Len(t)
         IN  /\ Len(Short(t, n)) = m /\ DOMAIN Short(t, n) = 1..m
             /\ \A i \in 1..m : Short(t, n)[i] = t[i]
<1> DEFINE m == IF n <= Len(t) THEN n ELSE Len(t)
<1>1. Min({n, Len(t)}) = m /\ m \in Nat
  BY MinOfTwo
<1>2. Short(t, n) = SubSeq(t, 1, m)
  BY <1>1 DEF Short
<1> HIDE DEF m
<1>3. /\ Len(Short(t, n)) = m /\ DOMAIN Short(t, n) = 1..m
      /\ \A i \in 1..m : Short(t, n)[i] = t[i]
  BY <1>1, <1>2, FrontIs
<1> QED BY <1>3 DEF m

(* mem holds the n characters at t and a 0 behind them.                    *)
LEMMA HoldsIf ==
  ASSUME NEW mem, NEW t, NEW n \in Nat, Len(t) = n, n \in DOMAIN mem, mem[n] = 0,
         \A k \in 0..(n - 1) : mem[k] = t[k + 1]
  PROVE  Holds(mem, t)
<1>1. \A i \in 1..n : mem[i - 1] = t[i]
  <2> TAKE i \in 1..n
  <2>1. i - 1 \in 0..(n - 1) /\ (i - 1) + 1 = i
    OBVIOUS
  <2> QED BY <2>1
<1> QED BY <1>1 DEF Holds

LEMMA DupWhole ==
  ASSUME NEW s \in Strings
  PROVE  /\ Holds(spr_pstrdup(s), TextOf(s))
         /\ Fits(spr_pstrdup(s), Len(TextOf(s)) + 1)
<1> DEFINE n == spr_strlen(s)
           f == SubSeq(s, 1, n + 1)
           m == spr_pstrdup(s)
<1>1. Ends(s, n)
  BY StringEnds
<1> HIDE DEF n
<1>2. n \in Nat /\ s[n + 1] = 0
  BY <1>1 DEF Ends
<1>3. Len(TextOf(s)) = n /\ \A i \in 1..n : TextOf(s)[i] = s[i]
  BY <1>1, TextOfIs
<1>4. Len(f) = n + 1 /\ \A i \in 1..(n + 1) : f[i] = s[i]
  BY <1>2, FrontIs
<1>5. m = Put(Block(n + 1), 0, f)
  BY DEF spr_pstrdup, n
<1> HIDE DEF f, m
<1>6. DOMAIN Block(n + 1) = 0..(n + 1) /\ Block(n + 1)[n + 1] = Behind
  BY <1>2, BlockIs
<1>7. /\ DOMAIN m = 0..(n + 1)
      /\ \A k \in 0..((n + 1) - 1) : m[k] = f[k + 1]
      /\ \A k \in (n + 1)..(n + 1) : m[k] = Block(n + 1)[k]
  <2>1. n + 1 \in Nat /\ n + 1 \in 0..((n + 1) + 1)
    BY <1>2
  <2> QED BY <1>4, <1>5, <1>6, <2>1, PutFirst
<1>8. DOMAIN m = 0..(n + 1) /\ (\A k \in 0..n : m[k] = s[k + 1]) /\ m[n + 1] = Behind
  <2>1. \A k \in 0..n : m[k] = s[k + 1]
    <3> TAKE k \in 0..n
    <3>1. k \in 0..((n + 1) - 1) /\ k + 1 \in 1..(n + 1)
      BY <1>2
    <3> QED BY <1>4, <1>7, <3>1
  <2>2. m[n + 1] = Behind
    <3>1. n + 1 \in (n + 1)..(n + 1)
      BY <1>2
    <3> QED BY <1>6, <1>7, <3>1
  <2> QED BY <1>7, <2>1, <2>2
<1>9. Fits(m, n + 1)
  BY <1>8 DEF Fits
<1>10. Holds(m, TextOf(s))
  <2>1. n \in DOMAIN m /\ m[n] = 0
    BY <1>2, <1>8
  <2>2. \A k \in 0..(n - 1) : m[k] = TextOf(s)[k + 1]
    <3> TAKE k \in 0..(n - 1)
    <3>1. k \in 0..n /\ k + 1 \in 1..n
      BY <1>2
    <3> QED BY <1>3, <1>8, <3>1
  <2> QED BY <1>2, <1>3, <2>1, <2>2, HoldsIf
<1> QED BY <1>3, <1>9, <1>10 DEF m

LEMMA NdupWhole ==
  ASSUME NEW s \in Strings, NEW n \in Nat
  PROVE  /\ Holds(spr_pstrndup(s, n), Short(TextOf(s), n))
         /\ Fits(spr_pstrndup(s, n), n + 1)
         /\ (\E k \in DOMAIN spr_pstrndup(s, n) : spr_pstrndup(s, n)[k] = Foreign) <=> n > Len(s)
<1> DEFINE len == spr_strlen(s)
           f   == [i \in 1..n |-> IF i <= Len(s) THEN s[i] ELSE Foreign]
           p   == Put(Block(n + 1), 0, f)
           m   == spr_pstrndup(s, n)
           t   == Short(TextOf(s), n)
           c   == IF n <= len THEN n ELSE len
<1>1. Ends(s, len)
  BY StringEnds
<1> HIDE DEF len
<1>2. len \in Nat /\ s[len + 1] = 0 /\ c \in Nat
  BY <1>1 DEF Ends
<1>3. Len(TextOf(s)) = len /\ \A i \in 1..len : TextOf(s)[i] = s[i]
  BY <1>1, TextOfIs
<1>4. /\ Len(f) = n /\ \A i \in 1..n : f[i] = IF i <= Len(s) THEN s[i] ELSE Foreign
      /\ Len(s) \in Nat /\ len + 1 <= Len(s) /\ \A i \in 1..Len(s) : s[i] # Foreign /\ s[i] # Behind
      /\ Foreign # Behind /\ Foreign # 0 /\ Behind # 0
  <2>1. Len(f) = n /\ \A i \in 1..n : f[i] = IF i <= Len(s) THEN s[i] ELSE Foreign
    OBVIOUS
  <2>2. Foreign # Behind /\ Foreign # 0 /\ Behind # 0
    BY DEF Foreign, Behind
  <2> QED BY <1>1, <2>1, <2>2, CharsAre DEF Ends
<1>5. Len(t) = c /\ \A i \in 1..c : t[i] = TextOf(s)[i]
  BY <1>2, <1>3, ShortIs
<1>6. m = Put(p, n, <<0>>)
  BY DEF spr_pstrndup
<1> HIDE DEF f, t, m
<1>7. DOMAIN Block(n + 1) = 0..(n + 1) /\ Block(n + 1)[n + 1] = Behind
  BY BlockIs
<1>8. /\ DOMAIN p = 0..(n + 1)
      /\ \A k \in 0..(n - 1) : p[k] = f[k + 1]
      /\ \A k \in n..(n + 1) : p[k] = Block(n + 1)[k]
  <2>1. n + 1 \in Nat /\ n \in 0..((n + 1) + 1)
    OBVIOUS
  <2> QED BY <1>4, <1>7, <2>1, PutFirst
<1> HIDE DEF p
<1>9. /\ DOMAIN p = 0..(n + 1)
      /\ \A k \in 0..(n - 1) : p[k] = IF k + 1 <= Len(s) THEN s[k + 1] ELSE Foreign
      /\ p[n + 1] = Behind
  <2>1. \A k \in 0..(n - 1) : p[k] = IF k + 1 <= Len(s) THEN s[k + 1] ELSE Foreign
    <3> TAKE k \in 0..(n - 1)
    <3>1. k + 1 \in 1..n
      OBVIOUS
    <3> QED BY <1>4, <1>8, <3>1
  <2>2. p[n + 1] = Behind
    <3>1. n + 1 \in n..(n + 1)
      OBVIOUS
    <3> QED BY <1>7, <1>8, <3>1
  <2> QED BY <1>8, <2>1, <2>2
<1>10. /\ DOMAIN m = DOMAIN p
       /\ m[n] = 0
       /\ \A k \in DOMAIN p : k # n => m[k] = p[k]
  <2>1. n \in DOMAIN p
    BY <1>9
  <2> QED BY <1>6, <2>1, PutZero
<1>11. Fits(m, n + 1)
  <2>1. DOMAIN m = 0..(n + 1)
    BY <1>9, <1>10
  <2>2. m[n + 1] = Behind
    BY <1>9, <1>10
  <2> QED BY <2>1, <2>2 DEF Fits
<1>12. Holds(m, t)
  <2>1. DOMAIN m = 0..(n + 1) /\ c \in 0..n
    BY <1>2, <1>9, <1>10
  <2>2. m[c] = 0
    <3>1. CASE n <= len
      BY <1>10, <3>1
    <3>2. CASE ~ (n <= len)
      <4>1. c = len /\ len \in 0..(n - 1) /\ len # n /\ len \in DOMAIN p /\ len + 1 <= Len(s)
        BY <1>2, <1>4, <1>9, <3>2
      <4> QED BY <1>2, <1>9, <1>10, <4>1
    <3> QED BY <3>1, <3>2
  <2>3. \A k \in 0..(c - 1) : m[k] = t[k + 1]
    <3> TAKE k \in 0..(c - 1)
    <3>1. /\ k \in 0..(n - 1) /\ k # n /\ k \in DOMAIN p /\ k + 1 \in 1..c /\ k + 1 \in 1..len
          /\ k + 1 <= Len(s)
      BY <1>2, <1>4, <1>9
    <3> HIDE DEF c
    <3> QED BY <1>3, <1>5, <1>9, <1>10, <3>1
  <2> HIDE DEF c
  <2> QED BY <1>2, <1>5, <2>1, <2>2, <2>3, HoldsIf
<1>13. (\E k \in DOMAIN m : m[k] = Foreign) <=> n > Len(s)
  <2>1. ASSUME n > Len(s) PROVE \E k \in DOMAIN m : m[k] = Foreign
    <3>1. /\ Len(s) \in 0..(n - 1) /\ Len(s) # n /\ Len(s) \in DOMAIN p
          /\ ~ (Len(s) + 1 <= Len(s))
      BY <1>4, <1>9, <2>1
    <3> QED BY <1>9, <1>10, <3>1
  <2>2. ASSUME ~ (n > Len(s)), NEW k \in DOMAIN m PROVE m[k] # Foreign
    <3>1. k \in 0..(n + 1)
      BY <1>9, <1>10
    <3>2. CASE k = n
      BY <1>4, <1>10, <3>2
    <3>3. CASE k = n + 1
      <4>1. m[k] = Behind
        BY <1>9, <1>10, <3>3
      <4> QED BY <1>4, <4>1
    <3>4. CASE k \in 0..(n - 1)
      <4>1. k # n /\ k \in DOMAIN p /\ k + 1 \in 1..Len(s) /\ k + 1 <= Len(s)
        BY <1>4, <1>9, <2>2, <3>4
      <4> QED BY <1>4, <1>9, <1>10, <3>4, <4>1
    <3> QED BY <3>1, <3>2, <3>3, <3>4
  <2> QED BY <2>1, <2>2
<1> QED BY <1>11, <1>12, <1>13 DEF m, t

(* TotalLen has the length of the first i texts.                           *)
LEMMA TotalIs ==
  ASSUME NEW n \in Nat, NEW args \in [1..n -> Strings]
  PROVE  LET L == TotalLen(args)
         IN  /\ L \in [0..n -> Nat] /\ L[0] = 0
             /\ \A i \in 1..n : L[i] = L[i - 1] + spr_strlen(args[i])
             /\ \A i \in 0..n : L[i] <= L[n]
<1> DEFINE Def(f) == [i \in 0..n |-> IF i = 0 THEN 0 ELSE f[i - 1] + spr_strlen(args[i])]
           step   == [i \in (0 + 1)..n |-> [d \in Nat |-> d + spr_strlen(args[i])]]
           L      == CHOOSE f : f = Def(f)
<1>1. Len(args) = n
  OBVIOUS
<1>2. TotalLen(args) = L
  BY <1>1 DEF TotalLen
<1>3. \A i \in 1..n : spr_strlen(args[i]) \in Nat
  BY StringEnds DEF Ends
<1>4. step \in [(0 + 1)..n -> [Nat -> Nat]]
  BY <1>3
<1>5. PICK f \in [0..n -> Nat] : Follows(0, n, f, 0, step)
  <2> HIDE DEF step
  <2> QED BY <1>4, RecursionExists
<1>6. f = Def(f)
  <2>1. ASSUME NEW i \in 0..n, i # 0 PROVE step[i][f[i - 1]] = f[i - 1] + spr_strlen(args[i])
    <3>1. i \in (0 + 1)..n /\ f[i - 1] \in Nat
      BY <2>1
    <3> QED BY <3>1
  <2>2. f = [i \in 0..n |-> IF i = 0 THEN 0 ELSE step[i][f[i - 1]]]
    BY <1>5 DEF Follows
  <2> HIDE DEF step
  <2> QED BY <2>1, <2>2
<1>7. L = Def(L)
  <2> HIDE DEF Def
  <2> QED BY <1>6
<1> HIDE DEF L
<1>8. /\ L = [i \in 0..n |-> L[i]] /\ L[0] = 0
      /\ \A i \in 1..n : L[i] = L[i - 1] + spr_strlen(args[i])
  BY <1>7
<1> DEFINE S == {i \in 0..n : L[i] \in Nat}
<1>9. 0 \in S
  BY <1>8
<1>10. ASSUME NEW i \in 0..(n - 1), i \in S PROVE i + 1 \in S
  <2>1. i + 1 \in 1..n /\ (i + 1) - 1 = i /\ L[i] \in Nat
    BY <1>10
  <2>2. L[i + 1] = L[i] + spr_strlen(args[i + 1]) /\ spr_strlen(args[i + 1]) \in Nat
    BY <1>3, <1>8, <2>1
  <2> QED BY <2>1, <2>2
<1>11. \A i \in 0..n : i \in S
  <2> HIDE DEF S
  <2> QED BY <1>9, <1>10, UpToInduction
<1>12. \A i \in 0..n : L[i] \in Nat
  BY <1>11
<1> DEFINE T == {i \in 0..n : L[n - i] <= L[n]}
<1>13. 0 \in T
  BY <1>12
<1>14. ASSUME NEW i \in 0..(n - 1), i \in T PROVE i + 1 \in T
  <2>1. n - i \in 1..n /\ n - (i + 1) = (n - i) - 1 /\ n - (i + 1) \in 0..n /\ n \in 0..n
    OBVIOUS
  <2>2. L[n - i] = L[n - (i + 1)] + spr_strlen(args[n - i]) /\ spr_strlen(args[n - i]) \in Nat
    BY <1>3, <1>8, <2>1
  <2>3. L[n - i] \in Nat /\ L[n - (i + 1)] \in Nat /\ L[n] \in Nat /\ L[n - i] <= L[n]
    BY <1>12, <1>14, <2>1
  <2> QED BY <2>1, <2>2, <2>3
<1>15. \A i \in 0..n : i \in T
  <2> HIDE DEF T
  <2> QED BY <1>13, <1>14, UpToInduction
<1>16. ASSUME NEW i \in 0..n PROVE L[i] <= L[n]
  <2>1. n - i \in 0..n /\ n - (n - i) = i
    OBVIOUS
  <2> QED BY <1>15, <2>1
<1> QED BY <1>2, <1>8, <1>12, <1>16

(* What is written up to the i-th argument.                                *)
Catted(m, len, l, t) ==
  /\ DOMAIN m = 0..(len + 1) /\ m[len] = 0 /\ m[len + 1] = Behind
  /\ Len(t) = l /\ \A k \in 0..(l - 1) : m[k] = t[k + 1]

(* One more text.                                                          *)
LEMMA CattedNext ==
  ASSUME NEW m, NEW len \in Nat, NEW l \in Nat, NEW t \in Seq(Int), Catted(m, len, l, t),
         NEW s, NEW k \in Nat, Ends(s, k), TextOf(s) \in Seq(Int), l + k <= len
  PROVE  Catted(Put(m, l, SubSeq(s, 1, k)), len, l + k, t \o TextOf(s))
<1> DEFINE u  == TextOf(s)
           f  == SubSeq(s, 1, k)
           m2 == Put(m, l, f)
<1>1. Len(u) = k /\ \A i \in 1..k : u[i] = s[i]
  BY TextOfIs
<1>2. Len(f) = k /\ \A i \in 1..k : f[i] = s[i]
  BY FrontIs
<1>3. Wrote(m2, m, l, f, k)
  <2> HIDE DEF f
  <2> QED BY <1>2, PutIs
<1> HIDE DEF f, m2, u
<1>4. DOMAIN m = 0..(len + 1) /\ m[len] = 0 /\ m[len + 1] = Behind
  BY DEF Catted
<1>5. DOMAIN m2 = 0..(len + 1)
  <2>1. 0..(len + 1) \cup l..(l + k - 1) = 0..(len + 1)
    OBVIOUS
  <2> QED BY <1>3, <1>4, <2>1 DEF Wrote
<1>6. m2[len] = 0 /\ m2[len + 1] = Behind
  <2>1. /\ len \in 0..(len + 1) /\ len \notin l..(l + k - 1)
        /\ len + 1 \in 0..(len + 1) /\ len + 1 \notin l..(l + k - 1)
    OBVIOUS
  <2> QED BY <1>3, <1>4, <2>1 DEF Wrote
<1>7. u \in Seq(Int) /\ Len(t) = l
  BY DEF Catted, u
<1>8. /\ Len(t \o u) = l + k
      /\ \A i \in 1..l : (t \o u)[i] = t[i]
      /\ \A i \in (l + 1)..(l + k) : (t \o u)[i] = u[i - l]
  <2>1. Len(t \o u) = l + k
    BY <1>1, <1>7, ConcatProperties
  <2>2. \A i \in 1..(l + k) : (t \o u)[i] = IF i <= l THEN t[i] ELSE u[i - l]
    BY <1>1, <1>7, ConcatProperties
  <2> QED BY SMTT(30), <2>1, <2>2
<1>9. ASSUME NEW i \in 0..((l + k) - 1) PROVE m2[i] = (t \o u)[i + 1]
  <2>1. CASE i < l
    <3>1. i \in 0..(l - 1) /\ i + 1 \in 1..l /\ i \in 0..(len + 1) /\ i \notin l..(l + k - 1)
      BY <2>1
    <3>2. m2[i] = m[i] /\ m[i] = t[i + 1]
      BY <1>3, <1>4, <3>1 DEF Wrote, Catted
    <3> QED BY <1>8, <3>1, <3>2
  <2>2. CASE ~ (i < l)
    <3>1. /\ i \in l..(l + k - 1) /\ i - l + 1 \in 1..k
          /\ i + 1 \in (l + 1)..(l + k) /\ (i + 1) - l = i - l + 1
      BY <2>2
    <3>2. m2[i] = f[i - l + 1]
      BY <1>3, <3>1 DEF Wrote
    <3> QED BY <1>1, <1>2, <1>8, <3>1, <3>2
  <2> QED BY <2>1, <2>2
<1>10. Catted(m2, len, l + k, t \o u)
  BY <1>5, <1>6, <1>8, <1>9 DEF Catted
<1> QED BY <1>10 DEF m2, f, u

LEMMA TextTyped ==
  ASSUME NEW s \in Strings
  PROVE  TextOf(s) \in Seq(Int)
<1> DEFINE n == spr_strlen(s)
<1>1. Ends(s, n)
  BY StringEnds
<1>2. s \in Seq(Chars \cup {0}) /\ n \in 0..Len(s)
  BY <1>1, StringsAre DEF Ends
<1>3. TextOf(s) = SubSeq(s, 1, n)
  BY <1>1, TextOfIs
<1>4. s \in Seq(Int)
  BY <1>2, TextAssumption
<1> HIDE DEF n
<1>5. \A i \in 1..n : s[i] \in Int
  BY <1>2, <1>4
<1>6. SubSeq(s, 1, n) = [i \in 1..n |-> s[i]]
  <2>1. n \in Nat
    BY <1>2
  <2> QED BY <2>1
<1>7. [i \in 1..n |-> s[i]] \in [1..n -> Int] /\ n \in Nat
  BY <1>2, <1>5
<1> QED BY <1>3, <1>6, <1>7, FunIsSeq

LEMMA CatWhole ==
  ASSUME NEW n \in Nat, NEW args \in [1..n -> Strings]
  PROVE  LET all == FlattenSeq([i \in DOMAIN args |-> TextOf(args[i])])
         IN  Holds(spr_pstrcat1(args), all) /\ Fits(spr_pstrcat1(args), Len(all) + 1)
<1> DEFINE L       == TotalLen(args)
           q       == [i \in DOMAIN args |-> TextOf(args[i])]
           len     == L[n]
           D       == [0..(len + 1) -> Int]
           start   == Put(Block(len + 1), len, <<0>>)
           More(i, d) == Put(d, L[i - 1], SubSeq(args[i], 1, spr_strlen(args[i])))
           Def(f)  == [i \in 0..n |-> IF i = 0 THEN start ELSE More(i, f[i - 1])]
           step    == [i \in (0 + 1)..n |-> [d \in D |-> More(i, d)]]
           w       == CHOOSE f : f = Def(f)
<1>1. Len(args) = n
  OBVIOUS
<1>2. /\ L \in [0..n -> Nat] /\ L[0] = 0
      /\ \A i \in 1..n : L[i] = L[i - 1] + spr_strlen(args[i])
      /\ \A i \in 0..n : L[i] <= len
  BY TotalIs
<1>3. spr_pstrcat1(args) = w[n]
  BY <1>1 DEF spr_pstrcat1
<1> HIDE DEF L
<1>4. len \in Nat
  BY <1>2
<1>5. q \in [1..n -> Seq(Int)] /\ \A i \in 1..n : q[i] = TextOf(args[i])
  BY TextTyped
<1>6. PICK F \in [0..n -> Seq(Int)] : Joined(n, q, F) /\ FlattenSeq(q) = F[n]
  <2> HIDE DEF q
  <2> QED BY <1>5, FlattenIs
<1> HIDE DEF q, len
<1>7. start \in D /\ Catted(start, len, 0, <<>>)
  <2>1. /\ DOMAIN Block(len + 1) = 0..(len + 1) /\ Block(len + 1)[len + 1] = Behind
        /\ \A k \in 0..((len + 1) - 1) : Block(len + 1)[k] = Unset
    BY <1>4, BlockIs
  <2>2. len \in DOMAIN Block(len + 1)
    BY <1>4, <2>1
  <2>3. /\ DOMAIN start = 0..(len + 1) /\ start[len] = 0
        /\ \A k \in 0..(len + 1) : k # len => start[k] = Block(len + 1)[k]
    BY <1>4, <2>1, <2>2, PutZero
  <2>4. start = [k \in DOMAIN start |-> start[k]]
    BY DEF Put
  <2> HIDE DEF start
  <2>5. \A k \in 0..(len + 1) : start[k] \in Int
    <3> TAKE k \in 0..(len + 1)
    <3>1. Unset \in Int /\ Behind \in Int
      BY DEF Unset, Behind
    <3>2. CASE k = len
      BY <2>3, <3>2
    <3>3. CASE k = len + 1
      <4>1. k # len
        BY <1>4, <3>3
      <4> QED BY <2>1, <2>3, <3>1, <3>3, <4>1
    <3>4. CASE k # len /\ k # len + 1
      <4>1. k \in 0..((len + 1) - 1)
        BY <1>4, <3>4
      <4>2. start[k] = Block(len + 1)[k] /\ Block(len + 1)[k] = Unset
        BY <2>1, <2>3, <3>4, <4>1
      <4> QED BY <3>1, <4>2
    <3> QED BY <3>2, <3>3, <3>4
  <2>6. start \in D
    BY <2>3, <2>4, <2>5
  <2>7. len + 1 # len /\ len + 1 \in 0..(len + 1) /\ Len(<<>>) = 0 /\ 0..(0 - 1) = {}
    BY <1>4
  <2>8. Catted(start, len, 0, <<>>)
    BY <2>1, <2>3, <2>7 DEF Catted
  <2> QED BY <2>6, <2>8
<1>8. ASSUME NEW i \in 1..n PROVE Ends(args[i], spr_strlen(args[i]))
  BY StringEnds
<1>9. ASSUME NEW i \in 1..n, NEW d \in D PROVE More(i, d) \in D
  <2> DEFINE k == spr_strlen(args[i])
             f == SubSeq(args[i], 1, k)
             l == L[i - 1]
  <2>1. i - 1 \in 0..n /\ l \in Nat /\ k \in Nat /\ l + k <= len
    BY <1>2, <1>8 DEF Ends
  <2> HIDE DEF k, l
  <2>2. Len(f) = k /\ \A j \in 1..k : f[j] = args[i][j]
    BY <2>1, FrontIs
  <2>3. \A j \in 1..k : args[i][j] \in Int
    <3>1. args[i] \in Seq(Chars \cup {0}) /\ k \in 0..Len(args[i])
      BY <1>8, StringsAre DEF Ends, k
    <3>2. args[i] \in Seq(Int)
      BY <3>1, TextAssumption
    <3> QED BY <3>1, <3>2
  <2> HIDE DEF f
  <2> DEFINE m == Put(d, l, f)
  <2>4. Wrote(m, d, l, f, k)
    BY <2>1, <2>2, PutIs
  <2>5. m = [j \in DOMAIN m |-> m[j]]
    BY DEF Put
  <2> HIDE DEF m
  <2>6. DOMAIN m = 0..(len + 1)
    <3>1. 0..(len + 1) \cup l..(l + k - 1) = 0..(len + 1)
      BY <1>4, <2>1
    <3> QED BY <2>4, <3>1 DEF Wrote
  <2>7. ASSUME NEW j \in 0..(len + 1) PROVE m[j] \in Int
    <3>1. CASE j \in l..(l + k - 1)
      <4>1. j - l + 1 \in 1..k
        BY <2>1, <3>1
      <4> QED BY <2>2, <2>3, <2>4, <3>1, <4>1 DEF Wrote
    <3>2. CASE j \notin l..(l + k - 1)
      BY <2>4, <3>2 DEF Wrote
    <3> QED BY <3>1, <3>2
  <2>8. m \in D
    BY <2>5, <2>6, <2>7
  <2> QED BY <2>8 DEF m, l, f, k
<1> HIDE DEF start, More, D
<1>10. step \in [(0 + 1)..n -> [D -> D]]
  BY <1>9
<1>11. PICK f \in [0..n -> D] : Follows(0, n, f, start, step)
  <2> HIDE DEF step
  <2> QED BY <1>7, <1>10, RecursionExists
<1>12. f = Def(f)
  <2>1. ASSUME NEW i \in 0..n, i # 0 PROVE step[i][f[i - 1]] = More(i, f[i - 1])
    <3>1. i \in (0 + 1)..n /\ f[i - 1] \in D
      BY <2>1
    <3> QED BY <3>1
  <2>2. f = [i \in 0..n |-> IF i = 0 THEN start ELSE step[i][f[i - 1]]]
    BY <1>11 DEF Follows
  <2> HIDE DEF step
  <2> QED BY <2>1, <2>2
<1>13. w = Def(w)
  <2> HIDE DEF Def
  <2> QED BY <1>12
<1> HIDE DEF w
<1>14. w[0] = start /\ \A i \in 1..n : w[i] = More(i, w[i - 1])
  <2>1. \A i \in 0..n : w[i] = IF i = 0 THEN start ELSE More(i, w[i - 1])
    BY <1>13
  <2> QED BY <2>1
<1> DEFINE S == {i \in 0..n : Catted(w[i], len, L[i], F[i])}
<1>15. 0 \in S
  <2>1. F[0] = <<>> /\ L[0] = 0 /\ w[0] = start
    BY <1>2, <1>6, <1>14 DEF Joined
  <2>2. Catted(w[0], len, L[0], F[0])
    BY <1>7, <2>1
  <2> QED BY <2>2
<1>16. ASSUME NEW i \in 0..(n - 1), i \in S PROVE i + 1 \in S
  <2> DEFINE j == i + 1
             k == spr_strlen(args[j])
  <2>1. j \in 1..n /\ j - 1 = i /\ i \in 0..n /\ j \in 0..n
    OBVIOUS
  <2> HIDE DEF j
  <2>2. Catted(w[i], len, L[i], F[i])
    BY <1>16
  <2>3. w[j] = Put(w[i], L[i], SubSeq(args[j], 1, k))
    BY <1>14, <2>1 DEF More
  <2>4. L[j] = L[i] + k /\ L[j] <= len /\ L[i] \in Nat
    BY <1>2, <2>1
  <2>5. F[j] = F[i] \o TextOf(args[j]) /\ F[i] \in Seq(Int)
    BY <1>5, <1>6, <2>1 DEF Joined
  <2>6. Ends(args[j], k) /\ k \in Nat /\ TextOf(args[j]) \in Seq(Int)
    BY <1>8, <2>1, TextTyped DEF Ends
  <2> HIDE DEF k
  <2>7. Catted(w[j], len, L[j], F[j])
    BY <1>4, <2>2, <2>3, <2>4, <2>5, <2>6, CattedNext
  <2>8. j \in S
    BY <2>1, <2>7
  <2> QED BY <2>8 DEF j
<1>17. \A i \in 0..n : i \in S
  <2> HIDE DEF S
  <2> QED BY <1>15, <1>16, UpToInduction
<1>18. Catted(w[n], len, len, FlattenSeq(q))
  <2>1. n \in 0..n
    OBVIOUS
  <2> QED BY <1>6, <1>17, <2>1 DEF len
<1>19. Fits(w[n], len + 1)
  BY <1>18 DEF Catted, Fits
<1>20. Holds(w[n], FlattenSeq(q))
  <2>1. len \in 0..(len + 1)
    BY <1>4
  <2> QED BY <1>4, <1>18, <2>1, HoldsIf DEF Catted
<1>21. Len(FlattenSeq(q)) = len
  BY <1>18 DEF Catted
<1> QED BY <1>3, <1>19, <1>20, <1>21 DEF q

-----------------------------------------------------------------------------
(* Error texts.                                                            *)

LEMMA TextCopied ==
  ASSUME NEW str, Len(str) \in Nat, NEW b \in Nat \ {0}
  PROVE  Fits(copy_text(str, b), b) /\ Holds(copy_text(str, b), Short(str, b - 1))
<1> DEFINE n == Len(str)
           l == IF n <= b - 1 THEN n ELSE b - 1
           m == copy_text(str, b)
           f == IF n < b THEN str ELSE SubSeq(str, 1, b)
           p == Put(Block(b), 0, f)
           c == IF n < b THEN n ELSE b
<1>1. n \in Nat /\ b \in Nat /\ b - 1 \in Nat /\ l \in 0..(b - 1) /\ c \in 0..b
  OBVIOUS
<1>2. Len(Short(str, b - 1)) = l /\ \A i \in 1..l : Short(str, b - 1)[i] = str[i]
  BY <1>1, ShortIs
<1>3. Len(f) = c /\ \A i \in 1..c : f[i] = str[i]
  <2>1. CASE n < b
    BY <2>1
  <2>2. CASE ~ (n < b)
    BY <2>2, FrontIs
  <2> QED BY <2>1, <2>2
<1>4. m = Put(p, l, <<0>>)
  <2>1. CASE n < b
    <3>1. l = n
      BY <1>1, <2>1
    <3> QED BY <2>1, <3>1 DEF copy_text
  <2>2. CASE ~ (n < b)
    <3>1. l = b - 1
      BY <1>1, <2>2
    <3> QED BY <2>2, <3>1 DEF copy_text
  <2> QED BY <2>1, <2>2
<1>5. DOMAIN Block(b) = 0..b /\ Block(b)[b] = Behind
  BY BlockIs
<1>6. l <= c /\ (n < b => c = l) /\ (~ (n < b) => l = b - 1)
  BY <1>1
<1> HIDE DEF m, f, c, l
<1>7. DOMAIN p = 0..b /\ (\A k \in 0..(c - 1) : p[k] = f[k + 1]) /\ p[b] = Behind
  <2>1. c \in 0..(b + 1) /\ b \in c..b
    BY <1>1
  <2> QED BY <1>3, <1>5, <2>1, PutFirst
<1> HIDE DEF p
<1>8. /\ DOMAIN m = 0..b /\ m[l] = 0
      /\ \A k \in 0..b : k # l => m[k] = p[k]
  <2>1. l \in DOMAIN p /\ l \in Nat
    BY <1>1, <1>7
  <2> QED BY <1>4, <1>7, <2>1, PutZero
<1>9. Fits(m, b)
  <2>1. b # l /\ b \in 0..b
    BY <1>1
  <2> QED BY <1>7, <1>8, <2>1 DEF Fits
<1>10. Holds(m, Short(str, b - 1))
  <2>1. l \in Nat /\ l \in DOMAIN m
    BY <1>1, <1>8
  <2>2. \A k \in 0..(l - 1) : m[k] = Short(str, b - 1)[k + 1]
    <3> TAKE k \in 0..(l - 1)
    <3>1. k \in 0..b /\ k # l /\ k \in 0..(c - 1) /\ k + 1 \in 1..c /\ k + 1 \in 1..l
      BY <1>1, <1>6
    <3> QED BY <1>2, <1>3, <1>7, <1>8, <3>1
  <2> QED BY <1>2, <1>8, <2>1, <2>2, HoldsIf
<1> QED BY <1>9, <1>10 DEF m

(* The buffer m of b bytes holds the text t, and nothing was written       *)
(* outside of it; only with a b of 0 the byte before it was.               *)
BufferKept(m, t, b) == m # NoText /\ (Fits(m, b) <=> b > 0) /\ (b > 0 => Holds(m, t))

LEMMA KeptIf ==
  ASSUME NEW m, NEW t, NEW b \in Nat \ {0}, Fits(m, b), Holds(m, t)
  PROVE  BufferKept(m, t, b)
<1>1. DOMAIN NoText = {} /\ 0 \in DOMAIN m
  BY DEF NoText, Fits
<1> QED BY <1>1 DEF BufferKept

LEMMA CopyKept ==
  ASSUME NEW str, Len(str) \in Nat, NEW b \in Nat
  PROVE  BufferKept(copy_text(str, b), Short(str, b - 1), b)
<1>1. CASE b # 0
  BY <1>1, TextCopied, KeptIf
<1>2. CASE b = 0
  <2> DEFINE p == Put(Block(0), 0, SubSeq(str, 1, 0))
             m == copy_text(str, 0)
  <2>1. m = Put(p, -1, <<0>>)
    BY DEF copy_text
  <2> HIDE DEF p, m
  <2>2. Len(<<0>>) = 1 /\ -1 \in -1..(-1 + 1 - 1)
    OBVIOUS
  <2>3. -1 \in DOMAIN m
    BY <2>1, <2>2 DEF Put
  <2>4. -1 \notin 0..0 /\ DOMAIN NoText = {}
    BY DEF NoText
  <2>5. m # NoText /\ ~ Fits(m, 0)
    BY <2>3, <2>4 DEF Fits
  <2> QED BY <1>2, <2>5 DEF BufferKept, m
<1> QED BY <1>1, <1>2

(* A set of numbers with an upper bound has a largest one, which Max gives. *)
LEMMA MaxIsLargest ==
  ASSUME NEW n \in Nat, NEW S \in SUBSET (0..n), S # {}
  PROVE  Max(S) \in S /\ \A y \in S : Max(S) >= y
<1> DEFINE T == {n - x : x \in S}
<1>1. T \in SUBSET Nat /\ T # {}
  <2>1. \A x \in S : n - x \in Nat
    OBVIOUS
  <2> QED BY <2>1
<1>2. Min(T) \in T /\ \A y \in T : Min(T) <= y
  <2> HIDE DEF T
  <2> QED BY <1>1, MinIsLeast
<1>3. PICK x \in S : Min(T) = n - x
  BY <1>2
<1>4. \A y \in S : x >= y
  <2> TAKE y \in S
  <2>1. n - x <= n - y
    <3>1. n - y \in T
      OBVIOUS
    <3> HIDE DEF T
    <3> QED BY <1>2, <1>3, <3>1
  <2> QED BY <2>1
<1> QED BY <1>4 DEF Max

(* What FormatMessage has written is cut behind its last character that is *)
(* no full stop and no end of a line.                                      *)
LEMMA TextTrimmed ==
  ASSUME NEW str \in Seq(Int \ {0}), NEW b \in Nat, Len(str) < b,
         \E i \in DOMAIN str : str[i] \notin {10, 13, 46}
  PROVE  LET ends == {k \in DOMAIN str : str[k] \notin {10, 13, 46}}
         IN  /\ Fits(Trimmed(str, b), b)
             /\ Holds(Trimmed(str, b), SubSeq(str, 1, Max(ends)))
<1> DEFINE n    == Len(str)
           ends == {k \in DOMAIN str : str[k] \notin {10, 13, 46}}
           e    == Max(ends)
           p    == Put(Block(b), 0, str)
           full == Put(p, n, <<0>>)
           hits == {k \in 0..n : full[n - k] \notin {0, 10, 13, 46}}
           cut  == First(n, hits)
           m    == Trimmed(str, b)
<1>1. n \in Nat /\ Len(str) = n /\ DOMAIN str = 1..n /\ n < b
  OBVIOUS
<1>2. m = [k \in DOMAIN full |-> IF k \in (n - cut + 1)..n THEN 0 ELSE full[k]]
  BY DEF Trimmed
<1> HIDE DEF n
<1>3. e \in 1..n /\ str[e] \notin {10, 13, 46} /\ \A k \in (e + 1)..n : str[k] \in {10, 13, 46}
  <2>1. ends \in SUBSET (0..n) /\ ends # {}
    BY <1>1
  <2>2. e \in ends /\ \A y \in ends : e >= y
    <3> HIDE DEF ends
    <3> QED BY <1>1, <2>1, MaxIsLargest
  <2> HIDE DEF e
  <2>3. e \in 1..n
    BY <1>1, <2>2
  <2>4. \A k \in (e + 1)..n : k \notin ends /\ k \in 1..n
    <3> HIDE DEF ends
    <3> QED BY <1>1, <2>2, <2>3
  <2> QED BY <1>1, <2>2, <2>3, <2>4
<1>4. DOMAIN Block(b) = 0..b /\ Block(b)[b] = Behind
  BY BlockIs
<1>5. DOMAIN p = 0..b /\ (\A k \in 0..(n - 1) : p[k] = str[k + 1]) /\ p[b] = Behind
  <2>1. n \in 0..(b + 1) /\ b \in n..b
    BY <1>1
  <2> QED BY <1>1, <1>4, <2>1, PutFirst
<1> HIDE DEF p
<1>6. /\ DOMAIN full = 0..b /\ full[n] = 0
      /\ \A k \in 0..b : k # n => full[k] = p[k]
  <2>1. n \in DOMAIN p
    BY <1>1, <1>5
  <2> QED BY <1>1, <1>5, <2>1, PutZero
<1> HIDE DEF full, e
<1>7. full[e - 1] = str[e] /\ \A k \in e..n : full[k] \in {0, 10, 13, 46}
  <2>1. e - 1 \in 0..(n - 1) /\ e - 1 # n /\ e - 1 \in 0..b /\ (e - 1) + 1 = e
    BY <1>1, <1>3
  <2>2. \A k \in e..n : full[k] \in {0, 10, 13, 46}
    <3> TAKE k \in e..n
    <3>1. CASE k = n
      BY <1>6, <3>1
    <3>2. CASE k # n
      <4>1. k \in 0..(n - 1) /\ k \in 0..b /\ k + 1 \in (e + 1)..n
        BY <1>1, <1>3, <3>2
      <4>2. full[k] = str[k + 1]
        BY <1>5, <1>6, <3>2, <4>1
      <4> QED BY <1>3, <4>1, <4>2
    <3> QED BY <3>1, <3>2
  <2> QED BY <1>5, <1>6, <2>1, <2>2
<1>8. cut = n - (e - 1)
  <2> DEFINE i == n - (e - 1)
  <2>1. i \in 0..n /\ n - i = e - 1
    BY <1>1, <1>3
  <2>2. str[e] # 0
    BY <1>1, <1>3
  <2>3. i \in hits
    BY <1>3, <1>7, <2>1, <2>2
  <2> HIDE DEF i
  <2>4. cut \in 0..i /\ (cut = n \/ cut \in hits)
    <3> HIDE DEF hits
    <3> QED BY <1>1, <2>1, <2>3, FirstFinds
  <2> HIDE DEF cut
  <2>5. ~ (cut < i)
    <3> SUFFICES ASSUME cut < i PROVE FALSE
      OBVIOUS
    <3>1. cut # n /\ n - cut \in e..n
      BY <1>1, <1>3, <2>1, <2>4
    <3>2. full[n - cut] \notin {0, 10, 13, 46}
      BY <2>4, <3>1
    <3> QED BY <1>7, <3>1, <3>2
  <2>6. cut = i
    BY <2>1, <2>4, <2>5
  <2> QED BY <2>6 DEF i
<1> HIDE DEF cut, hits
<1>9. n - cut + 1 = e
  BY <1>1, <1>3, <1>8
<1>10. m = [k \in 0..b |-> IF k \in e..n THEN 0 ELSE full[k]]
  BY <1>2, <1>6, <1>9
<1> HIDE DEF m
<1>11. Fits(m, b)
  <2>1. b \in 0..b /\ b \notin e..n /\ b # n
    BY <1>1, <1>3
  <2> QED BY <1>5, <1>6, <1>10, <2>1 DEF Fits
<1>12. Holds(m, SubSeq(str, 1, e))
  <2> DEFINE u == SubSeq(str, 1, e)
  <2>1. e \in Nat /\ e \in 0..b /\ e \in e..n
    BY <1>1, <1>3
  <2>2. Len(u) = e /\ \A i \in 1..e : u[i] = str[i]
    BY <2>1, FrontIs
  <2> HIDE DEF u
  <2>3. e \in DOMAIN m /\ m[e] = 0
    BY <1>10, <2>1
  <2>4. \A k \in 0..(e - 1) : m[k] = u[k + 1]
    <3> TAKE k \in 0..(e - 1)
    <3>1. k \in 0..b /\ k \notin e..n /\ k \in 0..(n - 1) /\ k # n /\ k + 1 \in 1..e
      BY <1>1, <1>3
    <3>2. m[k] = full[k] /\ full[k] = p[k] /\ p[k] = str[k + 1]
      BY <1>5, <1>6, <1>10, <3>1
    <3> QED BY <2>2, <3>1, <3>2
  <2> HIDE DEF m
  <2>5. Holds(m, u)
    BY <2>1, <2>2, <2>3, <2>4, HoldsIf
  <2> QED BY <2>5 DEF u
<1> QED BY <1>11, <1>12 DEF m, e

LEMMA CodesAre ==
  /\ Len(Codes) = 10 /\ DOMAIN Codes = 1..10 /\ Codes[10] = ERR_UNKNOW
  /\ \A k, l \in 1..10 : Codes[k] = Codes[l] => k = l
  /\ \A err \in 1..(DOMAIN_BASE - 1) : Listed(err) = Listed(ERR_UNKNOW)
<1>1. Len(Codes) = 10 /\ DOMAIN Codes = 1..10
  BY DEF Codes
<1>2. /\ Codes[1] = 0 /\ Codes[2] = -1 /\ Codes[3] = -2 /\ Codes[4] = -3 /\ Codes[5] = -4
      /\ Codes[6] = -5 /\ Codes[7] = -6 /\ Codes[8] = 20101 /\ Codes[9] = 20102
      /\ Codes[10] = 2147483647
  BY DEF Codes
<1>3. \A k \in 1..10 : k = 1 \/ k = 2 \/ k = 3 \/ k = 4 \/ k = 5 \/ k = 6 \/ k = 7 \/ k = 8
                       \/ k = 9 \/ k = 10
  OBVIOUS
<1>4. \A k, l \in 1..10 : Codes[k] = Codes[l] => k = l
  BY <1>2, <1>3
<1>5. ASSUME NEW err \in 1..(DOMAIN_BASE - 1) PROVE Listed(err) = 10
  <2>1. \A k \in 1..10 : Codes[k] # err
    <3>1. DOMAIN_BASE \in Nat /\ DOMAIN_BASE < 20101 /\ DOMAIN_BASE < 2147483647
      BY SMT DEF DOMAIN_BASE
    <3>2. err \in Int /\ err > 0 /\ err < DOMAIN_BASE
      BY <3>1
    <3> TAKE k \in 1..10
    <3>3. Codes[k] \in Int /\ (Codes[k] <= 0 \/ Codes[k] > DOMAIN_BASE)
      BY SMTT(30), <1>2, <1>3, <3>1
    <3> QED BY <3>1, <3>2, <3>3
  <2>2. err \notin Range(Codes)
    BY <1>1, <2>1 DEF Range
  <2> QED BY <1>1, <2>2 DEF Listed
<1>6. Listed(ERR_UNKNOW) = 10
  <2>1. Codes[10] = ERR_UNKNOW /\ 10 \in 1..10
    BY <1>2 DEF ERR_UNKNOW
  <2>2. ERR_UNKNOW \in Range(Codes)
    BY <1>1, <2>1 DEF Range
  <2>3. Listed(ERR_UNKNOW) = CHOOSE k \in 1..10 : Codes[k] = ERR_UNKNOW
    BY <1>1, <2>2 DEF Listed
  <2>4. \A k \in 1..10 : Codes[k] = ERR_UNKNOW => k = 10
    BY <1>4, <2>1
  <2> QED BY <2>1, <2>3, <2>4
<1>7. Codes[10] = ERR_UNKNOW
  BY <1>2 DEF ERR_UNKNOW
<1> QED BY <1>1, <1>4, <1>5, <1>6, <1>7

LEMMA ErrorListed ==
  ASSUME NEW err \in Int, NEW b \in Nat
  PROVE  BufferKept(spr_list_error(err, b), Short(Text(Listed(err)), b - 1), b)
<1> DEFINE hits == {k \in 0..(Len(Codes) - 1) : error_list[k + 1].code \in {err, ERR_UNKNOW}}
           i    == First(Len(Codes), hits)
           j    == Listed(err)
<1>1. /\ Len(Codes) = 10 /\ DOMAIN Codes = 1..10 /\ Codes[10] = ERR_UNKNOW
      /\ \A k, l \in 1..10 : Codes[k] = Codes[l] => k = l
  BY CodesAre
<1>2. \A k \in 1..10 : error_list[k].code = Codes[k] /\ error_list[k].message = Text(k)
  BY <1>1 DEF error_list
<1>3. Range(Codes) = {Codes[k] : k \in 1..10}
  BY <1>1 DEF Range
<1>4. j \in 1..10 /\ (Codes[j] = err \/ (j = 10 /\ \A k \in 1..10 : Codes[k] # err))
  <2>1. CASE err \in Range(Codes)
    <3>1. \E k \in 1..10 : Codes[k] = err
      BY <1>3, <2>1
    <3>2. j = CHOOSE k \in 1..10 : Codes[k] = err
      BY <1>1, <2>1 DEF Listed
    <3> HIDE DEF j
    <3> QED BY <3>1, <3>2
  <2>2. CASE err \notin Range(Codes)
    <3>1. j = 10
      BY <1>1, <2>2 DEF Listed
    <3> HIDE DEF j
    <3> QED BY <1>3, <2>2, <3>1
  <2> QED BY <2>1, <2>2
<1> HIDE DEF j
<1>5. hits = {k \in 0..9 : Codes[k + 1] \in {err, ERR_UNKNOW}}
  <2>1. \A k \in 0..9 : k + 1 \in 1..10
    OBVIOUS
  <2>2. Len(Codes) - 1 = 9
    BY <1>1
  <2> QED BY <1>2, <2>1, <2>2
<1>6. j - 1 \in hits /\ j - 1 \in 0..10
  <2>1. j - 1 \in 0..9 /\ (j - 1) + 1 = j
    BY <1>4
  <2> HIDE DEF hits
  <2> QED BY <1>1, <1>4, <1>5, <2>1
<1>7. i = First(10, hits)
  BY <1>1
<1> HIDE DEF i
<1>8. i \in 0..(j - 1) /\ (i = 10 \/ i \in hits)
  <2> HIDE DEF hits
  <2> QED BY <1>6, <1>7, FirstFinds
<1>9. i + 1 = j
  <2>1. i \in 0..9 /\ i \in hits /\ i + 1 \in 1..10
    BY <1>4, <1>8
  <2>2. Codes[i + 1] = err \/ Codes[i + 1] = ERR_UNKNOW
    <3> HIDE DEF hits
    <3> QED BY <1>5, <2>1
  <2>3. CASE Codes[i + 1] = err
    BY <1>1, <1>4, <2>1, <2>3
  <2>4. CASE Codes[i + 1] = ERR_UNKNOW
    <3>1. i + 1 = 10
      BY <1>1, <2>1, <2>4
    <3> QED BY <1>4, <1>8, <3>1
  <2> QED BY <2>2, <2>3, <2>4
<1>10. spr_list_error(err, b) = copy_text(Text(j), b)
  <2>1. spr_list_error(err, b) = copy_text(error_list[i + 1].message, b)
    BY DEF spr_list_error, i
  <2> QED BY <1>2, <1>4, <1>9, <2>1
<1>11. Len(Text(j)) \in Nat
  <2>1. j \in Nat
    BY <1>4
  <2> QED BY <2>1 DEF Text
<1> QED BY <1>10, <1>11, CopyKept DEF j

(* spr_strerror, for what the system may say.                              *)
Said(err, str, win32, b) ==
  LET os   == err \in 1..(DOMAIN_BASE - 1)
      ends == {k \in DOMAIN str : str[k] \notin {10, 13, 46}}
  IN  IF os /\ ~ win32 THEN Short(str, b - 1)
      ELSE IF os /\ Len(str) \in 1..(b - 1) THEN SubSeq(str, 1, Max(ends))
      ELSE Short(Text(Listed(err)), b - 1)

LEMMA ErrorTextRight ==
  ASSUME NEW err \in Int, NEW str \in Messages, NEW win32 \in BOOLEAN, NEW b \in Nat
  PROVE  BufferKept(spr_strerror(err, str, win32, b), Said(err, str, win32, b), b)
<1> DEFINE m    == spr_strerror(err, str, win32, b)
           os   == err \in 1..(DOMAIN_BASE - 1)
           ends == {k \in DOMAIN str : str[k] \notin {10, 13, 46}}
<1>1. /\ str \in Seq(Int \ {0}) /\ Len(str) \in Nat
      /\ str = <<>> \/ \E i \in DOMAIN str : str[i] \notin {10, 13, 46}
  <2>1. str \in Seq(Int \ {0})
    BY TextAssumption
  <2> QED BY <2>1, TextAssumption
<1>2. os <=> (err > 0 /\ err < DOMAIN_BASE)
  BY DEF DOMAIN_BASE
<1>a. /\ os /\ ~ win32 => Said(err, str, win32, b) = Short(str, b - 1)
      /\ os /\ win32 /\ Len(str) \in 1..(b - 1) => Said(err, str, win32, b) = SubSeq(str, 1, Max(ends))
      /\ ~ os \/ (win32 /\ ~ (Len(str) \in 1..(b - 1))) =>
           Said(err, str, win32, b) = Short(Text(Listed(err)), b - 1)
  BY DEF Said
<1> HIDE DEF os
<1>3. ASSUME ~ os
      PROVE  BufferKept(m, Short(Text(Listed(err)), b - 1), b)
  <2>1. m = spr_list_error(err, b)
    BY <1>2, <1>3 DEF spr_strerror
  <2> HIDE DEF m
  <2> QED BY <1>3, <2>1, ErrorListed
<1>4. ASSUME os, ~ win32
      PROVE  BufferKept(m, Short(str, b - 1), b)
  <2>1. BufferKept(copy_text(str, b), Short(str, b - 1), b)
    BY <1>1, CopyKept
  <2>2. copy_text(str, b) # NoText
    BY <2>1 DEF BufferKept
  <2>3. m = copy_text(str, b)
    BY <1>2, <1>4, <2>2 DEF spr_strerror
  <2> HIDE DEF m
  <2> QED BY <1>4, <2>1, <2>3
<1>5. ASSUME os, win32, Len(str) \in 1..(b - 1)
      PROVE  BufferKept(m, SubSeq(str, 1, Max(ends)), b)
  <2>1. str # <<>> /\ ~ (Len(str) >= b) /\ b # 0
    BY <1>1, <1>5
  <2>2. Fits(Trimmed(str, b), b) /\ Holds(Trimmed(str, b), SubSeq(str, 1, Max(ends)))
    BY <1>1, <2>1, TextTrimmed
  <2> HIDE DEF ends
  <2>3. BufferKept(Trimmed(str, b), SubSeq(str, 1, Max(ends)), b)
    BY <2>1, <2>2, KeptIf
  <2>4. Trimmed(str, b) # NoText
    BY <2>3 DEF BufferKept
  <2>5. m = Trimmed(str, b)
    BY <1>2, <1>5, <2>1, <2>4 DEF spr_strerror, win32_os_strerror
  <2> HIDE DEF m
  <2> QED BY <1>5, <2>3, <2>5
<1>6. ASSUME os, win32, ~ (Len(str) \in 1..(b - 1))
      PROVE  BufferKept(m, Short(Text(Listed(err)), b - 1), b)
  <2>1. b = 0 \/ str = <<>> \/ Len(str) >= b
    BY <1>1, <1>6
  <2>2. m = spr_list_error(ERR_UNKNOW, b)
    BY <1>2, <1>6, <2>1 DEF spr_strerror, win32_os_strerror
  <2> HIDE DEF m
  <2>3. Listed(ERR_UNKNOW) = Listed(err)
    BY <1>6, CodesAre DEF os
  <2>4. ERR_UNKNOW \in Int
    BY DEF ERR_UNKNOW
  <2>5. BufferKept(spr_list_error(ERR_UNKNOW, b), Short(Text(Listed(ERR_UNKNOW)), b - 1), b)
    BY <2>4, ErrorListed
  <2> QED BY <2>2, <2>3, <2>5
<1>7. os \in BOOLEAN
  BY DEF os
<1> HIDE DEF m, ends
<1>8. BufferKept(m, Said(err, str, win32, b), b)
  BY <1>a, <1>3, <1>4, <1>5, <1>6, <1>7
<1> QED BY <1>8 DEF m

-----------------------------------------------------------------------------
(* Numbers.                                                                *)

(* f has the numbers in the digits up to each one.                         *)
Horner(f, s, n) ==
  /\ f \in [0..n -> Int] /\ f[0] = 0
  /\ \A i \in 1..n : f[i] = 10 * f[i - 1] + Digit(s[i])

LEMMA DecimalIs ==
  ASSUME NEW n \in Nat, NEW s, \A i \in 1..n : s[i] \in Int
  PROVE  \E H : Horner(H, s, n) /\ Decimal(s, n) = H[n]
<1> DEFINE Def(f) == [i \in 0..n |-> IF i = 0 THEN 0 ELSE 10 * f[i - 1] + Digit(s[i])]
           step   == [i \in (0 + 1)..n |-> [d \in Int |-> 10 * d + Digit(s[i])]]
           w      == CHOOSE f : f = Def(f)
<1>1. \A i \in 1..n : Digit(s[i]) \in Int
  BY DEF Digit
<1>2. step \in [(0 + 1)..n -> [Int -> Int]]
  BY <1>1
<1>3. PICK f \in [0..n -> Int] : Follows(0, n, f, 0, step)
  <2> HIDE DEF step
  <2>1. 0 \in Int
    OBVIOUS
  <2> QED BY <2>1, <1>2, RecursionExists
<1>4. f = Def(f)
  <2>1. ASSUME NEW i \in 0..n, i # 0 PROVE step[i][f[i - 1]] = 10 * f[i - 1] + Digit(s[i])
    <3>1. i \in (0 + 1)..n /\ f[i - 1] \in Int
      BY <2>1
    <3> QED BY <3>1
  <2>2. f = [i \in 0..n |-> IF i = 0 THEN 0 ELSE step[i][f[i - 1]]]
    BY <1>3 DEF Follows
  <2> HIDE DEF step
  <2> QED BY <2>1, <2>2
<1>5. w = Def(w)
  <2> HIDE DEF Def
  <2> QED BY <1>4
<1>6. Decimal(s, n) = w[n]
  BY DEF Decimal
<1> HIDE DEF w
<1>7. /\ w = [i \in 0..n |-> w[i]] /\ w[0] = 0
      /\ \A i \in 1..n : w[i] = 10 * w[i - 1] + Digit(s[i])
  <2>1. \A i \in 0..n : w[i] = IF i = 0 THEN 0 ELSE 10 * w[i - 1] + Digit(s[i])
    BY <1>5
  <2>2. w = [i \in 0..n |-> w[i]]
    BY <1>5
  <2>3. 0 \in 0..n /\ \A i \in 1..n : i \in 0..n /\ i # 0
    OBVIOUS
  <2> QED BY <2>1, <2>2, <2>3
<1> DEFINE S == {i \in 0..n : w[i] \in Int}
<1>8. 0 \in S
  BY <1>7
<1>9. ASSUME NEW i \in 0..(n - 1), i \in S PROVE i + 1 \in S
  <2>1. i + 1 \in 1..n /\ (i + 1) - 1 = i /\ w[i] \in Int
    BY <1>9
  <2>2. w[i + 1] = 10 * w[i] + Digit(s[i + 1]) /\ Digit(s[i + 1]) \in Int
    BY <1>1, <1>7, <2>1
  <2> QED BY <2>1, <2>2
<1>10. \A i \in 0..n : i \in S
  <2> HIDE DEF S
  <2> QED BY <1>8, <1>9, UpToInduction
<1>11. w \in [0..n -> Int]
  BY <1>7, <1>10
<1> QED BY <1>6, <1>7, <1>11 DEF Horner

(* The comparison with the limit, before the digit is taken.               *)
LEMMA CutOff ==
  ASSUME NEW max \in Nat, NEW v \in Nat, NEW d \in 0..9
  PROVE  (v >= max \div 10 /\ (v > max \div 10 \/ d > max % 10)) <=> v * 10 + d > max
<1>1. max = 10 * (max \div 10) + (max % 10) /\ max % 10 \in 0..9 /\ max \div 10 \in Nat
  OBVIOUS
<1> QED BY <1>1

LEMMA ParseRight ==
  ASSUME NEW n \in Nat, NEW s, \A i \in 1..n : s[i] \in Int, NEW max \in Nat
  PROVE  Parse(s, n, max) = IF n > 0 /\ (\A i \in 1..n : s[i] \in 48..57) /\ Decimal(s, n) <= max
                            THEN Decimal(s, n) ELSE -1
<1> DEFINE Value(i, v) == IF v = -1 \/ s[i] \notin 48..57 THEN -1
                          ELSE IF v >= max \div 10 /\ (v > max \div 10 \/ Digit(s[i]) > max % 10)
                          THEN -1 ELSE v * 10 + Digit(s[i])
           Def(f) == [i \in 0..n |-> IF i = 0 THEN 0 ELSE Value(i, f[i - 1])]
           step   == [i \in (0 + 1)..n |-> [d \in Int |-> Value(i, d)]]
           w      == CHOOSE f : f = Def(f)
<1>1. Parse(s, n, max) = IF n = 0 THEN -1 ELSE w[n]
  BY DEF Parse
<1>2. PICK H : Horner(H, s, n) /\ Decimal(s, n) = H[n]
  BY DecimalIs
<1>3. \A i \in 1..n : Digit(s[i]) \in Int /\ (s[i] \in 48..57 => Digit(s[i]) \in 0..9)
  BY DEF Digit
<1>4. \A i \in 1..n, v \in Int : Value(i, v) \in Int
  BY <1>3
<1> HIDE DEF Value
<1>5. step \in [(0 + 1)..n -> [Int -> Int]]
  BY <1>4
<1>6. PICK f \in [0..n -> Int] : Follows(0, n, f, 0, step)
  <2> HIDE DEF step
  <2>1. 0 \in Int
    OBVIOUS
  <2> QED BY <2>1, <1>5, RecursionExists
<1>7. f = Def(f)
  <2>1. ASSUME NEW i \in 0..n, i # 0 PROVE step[i][f[i - 1]] = Value(i, f[i - 1])
    <3>1. i \in (0 + 1)..n /\ f[i - 1] \in Int
      BY <2>1
    <3> QED BY <3>1
  <2>2. f = [i \in 0..n |-> IF i = 0 THEN 0 ELSE step[i][f[i - 1]]]
    BY <1>6 DEF Follows
  <2> HIDE DEF step
  <2> QED BY <2>1, <2>2
<1>8. w = Def(w)
  <2> HIDE DEF Def
  <2> QED BY <1>7
<1> HIDE DEF w
<1>9. w[0] = 0 /\ \A i \in 1..n : w[i] = Value(i, w[i - 1])
  <2>1. \A i \in 0..n : w[i] = IF i = 0 THEN 0 ELSE Value(i, w[i - 1])
    BY <1>8
  <2> QED BY <2>1
<1> DEFINE Good(i) == \A j \in 1..i : s[j] \in 48..57
           S == {i \in 0..n : /\ Good(i) => H[i] \in Nat
                              /\ w[i] = IF Good(i) /\ H[i] <= max THEN H[i] ELSE -1}
<1>10. 0 \in S
  BY <1>2, <1>9 DEF Horner
<1>11. ASSUME NEW i \in 0..(n - 1), i \in S PROVE i + 1 \in S
  <2> DEFINE j == i + 1
             d == Digit(s[j])
  <2>1. j \in 1..n /\ j \in 0..n /\ j - 1 = i
    OBVIOUS
  <2>2. Good(j) <=> Good(i) /\ s[j] \in 48..57
    <3>1. \A k \in 1..j : k \in 1..i \/ k = j
      OBVIOUS
    <3>2. j \in 1..j /\ \A k \in 1..i : k \in 1..j
      OBVIOUS
    <3> HIDE DEF j
    <3>3. Good(j) => Good(i) /\ s[j] \in 48..57
      BY <3>2
    <3>4. Good(i) /\ s[j] \in 48..57 => Good(j)
      BY <3>1
    <3> HIDE DEF Good
    <3> QED BY <3>3, <3>4
  <2> HIDE DEF j
  <2>3. H[j] = 10 * H[i] + d /\ w[j] = Value(j, w[i]) /\ H[i] \in Int /\ i \in 0..n
    BY <1>2, <1>9, <2>1 DEF Horner
  <2>4. /\ Good(i) => H[i] \in Nat
        /\ w[i] = IF Good(i) /\ H[i] <= max THEN H[i] ELSE -1
    BY <1>11
  <2>5. s[j] \in 48..57 => d \in 0..9
    BY <1>3, <2>1
  <2> HIDE DEF Good, d
  <2>6. Good(j) => H[j] \in Nat
    <3> SUFFICES ASSUME Good(j) PROVE H[j] \in Nat
      OBVIOUS
    <3>1. H[i] \in Nat /\ d \in 0..9
      BY <2>2, <2>4, <2>5
    <3> QED BY <2>3, <3>1
  <2>7. w[j] = IF Good(j) /\ H[j] <= max THEN H[j] ELSE -1
    <3>1. CASE ~ Good(i)
      <4>1. w[i] = -1
        BY <2>4, <3>1
      <4>2. w[j] = -1
        BY <2>3, <4>1 DEF Value
      <4> QED BY <2>2, <3>1, <4>2
    <3>2. CASE Good(i) /\ s[j] \notin 48..57
      <4>1. w[j] = -1
        BY <2>3, <3>2 DEF Value
      <4> QED BY <2>2, <3>2, <4>1
    <3>3. CASE Good(i) /\ s[j] \in 48..57 /\ ~ (H[i] <= max)
      <4>1. w[i] = -1 /\ H[i] \in Nat /\ d \in 0..9
        BY <2>4, <2>5, <3>3
      <4>2. w[j] = -1
        BY <2>3, <4>1 DEF Value
      <4>3. ~ (H[j] <= max)
        BY <2>3, <3>3, <4>1
      <4> QED BY <4>2, <4>3
    <3>4. CASE Good(i) /\ s[j] \in 48..57 /\ H[i] <= max
      <4>1. w[i] = H[i] /\ H[i] \in Nat /\ d \in 0..9
        BY <2>4, <2>5, <3>4
      <4>2. (H[i] >= max \div 10 /\ (H[i] > max \div 10 \/ d > max % 10)) <=> H[i] * 10 + d > max
        BY <4>1, CutOff
      <4>3. w[j] = IF H[i] >= max \div 10 /\ (H[i] > max \div 10 \/ d > max % 10)
                   THEN -1 ELSE H[i] * 10 + d
        <5>1. H[i] # -1
          BY <4>1
        <5> QED BY <2>3, <3>4, <4>1, <5>1 DEF Value, d
      <4>4. H[j] = H[i] * 10 + d /\ H[j] \in Nat
        BY <2>3, <4>1
      <4>5. w[j] = IF H[j] > max THEN -1 ELSE H[j]
        BY <4>2, <4>3, <4>4
      <4>6. Good(j)
        BY <2>2, <3>4
      <4> QED BY <4>4, <4>5, <4>6
    <3> QED BY <3>1, <3>2, <3>3, <3>4
  <2> QED BY <2>1, <2>6, <2>7 DEF j
<1>12. \A i \in 0..n : i \in S
  <2> HIDE DEF S
  <2> QED BY <1>10, <1>11, UpToInduction
<1>13. w[n] = IF Good(n) /\ H[n] <= max THEN H[n] ELSE -1
  <2>1. n \in 0..n
    OBVIOUS
  <2> HIDE DEF Good
  <2> QED BY <1>12, <2>1
<1>14. CASE n = 0
  BY <1>1, <1>14
<1>15. CASE n # 0
  <2>1. n > 0
    BY <1>15
  <2> QED BY <1>1, <1>2, <1>13, <1>15, <2>1
<1> QED BY <1>14, <1>15

-----------------------------------------------------------------------------
(* Searches.                                                               *)

LEMMA StrnlenIs ==
  ASSUME NEW s, NEW len, Ends(s, len), NEW n \in Nat
  PROVE  spr_strnlen(s, n) = Min({len, n})
<1> DEFINE hits == {i \in 0..(Len(s) - 1) : s[i + 1] = 0}
           m    == IF len <= n THEN len ELSE n
<1>1. len \in Nat /\ Len(s) \in Nat /\ len \in 0..(Len(s) - 1)
  BY DEF Ends
<1>2. len \in hits /\ \A i \in hits : i >= len
  <2>1. len \in hits
    BY <1>1 DEF Ends
  <2>2. ASSUME NEW i \in hits, i < len PROVE FALSE
    <3>1. i + 1 \in 1..len
      BY <1>1, <2>2
    <3> QED BY <3>1 DEF Ends
  <2>3. hits \subseteq Nat
    OBVIOUS
  <2> HIDE DEF hits
  <2> QED BY <1>1, <2>1, <2>2, <2>3
<1> HIDE DEF hits
<1>3. FirstOf(n, hits, m)
  <2>1. m \in 0..n /\ (m = n \/ m = len) /\ \A j \in 0..(m - 1) : ~ (j >= len)
    BY <1>1
  <2> HIDE DEF m
  <2> QED BY <1>2, <2>1 DEF FirstOf
<1>4. spr_strnlen(s, n) = m
  <2> HIDE DEF m
  <2>1. First(n, hits) = m
    BY <1>3, FirstExact
  <2> QED BY <2>1 DEF spr_strnlen, hits
<1> QED BY <1>1, <1>4, MinOfTwo

LEMMA StrchrIs ==
  ASSUME NEW s, NEW len, Ends(s, len), len = spr_strlen(s), NEW c
  PROVE  LET in == {i \in 1..len : s[i] = c}
         IN  spr_strchr(s, c) = IF in = {} THEN NotFound ELSE Min(in) - 1
<1> DEFINE in   == {i \in 1..len : s[i] = c}
           hits == {k \in 0..(len - 1) : s[k + 1] = c}
           i    == First(len, hits)
<1>1. len \in Nat
  BY DEF Ends
<1>2. spr_strchr(s, c) = IF i = len THEN NotFound ELSE i
  BY DEF spr_strchr
<1>3. \A k : k \in hits <=> (k \in Int /\ k + 1 \in in)
  BY <1>1
<1>4. in \in SUBSET (1..len)
  OBVIOUS
<1> HIDE DEF in, hits
<1>5. CASE in = {}
  <2>1. FirstOf(len, hits, len)
    <3>1. len \in 0..len
      BY <1>1
    <3> QED BY <1>3, <1>5, <3>1 DEF FirstOf
  <2>2. i = len
    BY <1>1, <2>1, FirstExact
  <2> QED BY <1>2, <1>5, <2>2 DEF in
<1>6. CASE in # {}
  <2> DEFINE m == Min(in)
  <2>1. in \in SUBSET Nat
    BY <1>1, <1>4
  <2>2. m \in in /\ \A y \in in : m <= y
    BY <1>6, <2>1, MinIsLeast
  <2> HIDE DEF m
  <2>3. m \in 1..len
    BY <1>4, <2>2
  <2>4. FirstOf(len, hits, m - 1)
    <3>1. m - 1 \in 0..len /\ m - 1 \in Int /\ (m - 1) + 1 = m
      BY <1>1, <2>3
    <3>2. m - 1 \in hits
      BY <1>3, <2>2, <3>1
    <3>3. ASSUME NEW j \in 0..((m - 1) - 1) PROVE j \notin hits
      <4>1. ~ (m <= j + 1)
        BY <2>3
      <4> QED BY <1>3, <2>2, <4>1
    <3> QED BY <3>1, <3>2, <3>3 DEF FirstOf
  <2>5. i = m - 1
    BY <1>1, <2>4, FirstExact
  <2>6. i # len
    BY <1>1, <2>3, <2>5
  <2> QED BY <1>2, <1>6, <2>5, <2>6 DEF in, m
<1> QED BY <1>5, <1>6

LEMMA StrrchrIs ==
  ASSUME NEW s, NEW len, Ends(s, len), len = spr_strlen(s), NEW c
  PROVE  LET in == {i \in 1..len : s[i] = c}
         IN  spr_strrchr(s, c) = IF c = 0 THEN len
                                 ELSE IF in = {} THEN NotFound ELSE Max(in) - 1
<1> DEFINE in   == {i \in 1..len : s[i] = c}
           hits == {k \in 0..len : s[len - k + 1] = c}
           i    == First(len + 1, hits)
<1>1. len \in Nat /\ s[len + 1] = 0
  BY DEF Ends
<1>2. spr_strrchr(s, c) = IF i = len + 1 THEN NotFound ELSE len - i
  BY DEF spr_strrchr
<1>3. CASE c = 0
  <2>1. 0 \in hits
    BY <1>1, <1>3
  <2> HIDE DEF hits
  <2>2. FirstOf(len + 1, hits, 0)
    <3>1. 0 \in 0..(len + 1) /\ 0..(0 - 1) = {}
      BY <1>1
    <3> QED BY <2>1, <3>1 DEF FirstOf
  <2>3. i = 0
    <3>1. len + 1 \in Nat
      BY <1>1
    <3> QED BY <2>2, <3>1, FirstExact
  <2>4. i # len + 1 /\ len - i = len
    BY <1>1, <2>3
  <2> QED BY <1>2, <1>3, <2>4
<1>4. ASSUME c # 0
      PROVE  spr_strrchr(s, c) = IF in = {} THEN NotFound ELSE Max(in) - 1
  <2>1. \A k : k \in hits <=> (k \in 0..len /\ len - k + 1 \in in)
    <3> TAKE k
    <3>1. ASSUME k \in hits PROVE k \in 0..len /\ len - k + 1 \in in
      <4>1. len - k + 1 # len + 1
        BY <1>1, <1>4, <3>1
      <4>2. len - k + 1 \in 1..len
        BY <1>1, <3>1, <4>1
      <4> QED BY <3>1, <4>2
    <3>2. ASSUME k \in 0..len, len - k + 1 \in in PROVE k \in hits
      BY <3>2
    <3> QED BY <3>1, <3>2
  <2>2. in \in SUBSET (0..len) /\ in \in SUBSET (1..len)
    OBVIOUS
  <2> HIDE DEF in, hits
  <2>3. len + 1 \in Nat
    BY <1>1
  <2>4. CASE in = {}
    <3>1. FirstOf(len + 1, hits, len + 1)
      <4>1. len + 1 \in 0..(len + 1)
        BY <1>1
      <4> QED BY <2>1, <2>4, <4>1 DEF FirstOf
    <3>2. i = len + 1
      BY <2>3, <3>1, FirstExact
    <3> QED BY <1>2, <2>4, <3>2
  <2>5. CASE in # {}
    <3> DEFINE m == Max(in)
    <3>1. m \in in /\ \A y \in in : m >= y
      BY <1>1, <2>2, <2>5, MaxIsLargest
    <3> HIDE DEF m
    <3>2. m \in 1..len
      BY <2>2, <3>1
    <3>3. FirstOf(len + 1, hits, len - m + 1)
      <4>1. /\ len - m + 1 \in 0..(len + 1) /\ len - m + 1 \in 0..len
            /\ len - (len - m + 1) + 1 = m
        BY <1>1, <3>2
      <4>2. len - m + 1 \in hits
        BY <2>1, <3>1, <4>1
      <4>3. ASSUME NEW j \in 0..((len - m + 1) - 1) PROVE j \notin hits
        <5>1. ~ (m >= len - j + 1)
          BY <1>1, <3>2
        <5> QED BY <2>1, <3>1, <5>1
      <4> QED BY <4>1, <4>2, <4>3 DEF FirstOf
    <3>4. i = len - m + 1
      BY <2>3, <3>3, FirstExact
    <3>5. i # len + 1 /\ len - i = m - 1
      BY <1>1, <3>2, <3>4
    <3> QED BY <1>2, <2>5, <3>5 DEF m
  <2> QED BY <2>4, <2>5
<1> QED BY <1>3, <1>4

-----------------------------------------------------------------------------
(* Comparisons.                                                            *)

(* Texts that agree in their first k characters, and then end or differ.   *)
LEMMA OrderIs ==
  ASSUME NEW la \in Nat, NEW lb \in Nat, NEW a \in [1..la -> Int], NEW b \in [1..lb -> Int],
         NEW k \in 0..MaxLen, NEW out \in Int,
         \A j \in 1..k : CharAt(a, j) = CharAt(b, j),
         \/ out = 0 /\ la = k /\ lb = k
         \/ out # 0 /\ out = CharAt(a, k + 1) - CharAt(b, k + 1)
  PROVE  /\ out = 0 <=> a = b
         /\ out < 0 <=> Precedes(a, b)
         /\ out > 0 <=> Precedes(b, a)
<1>1. MaxLen \in Nat
  BY TextAssumption
<1>2. \A i : CharAt(a, i) \in Int /\ CharAt(b, i) \in Int
  BY DEF CharAt
<1>3. CASE out = 0 /\ la = k /\ lb = k
  <2>1. \A i \in 1..k : a[i] = b[i]
    BY <1>3 DEF CharAt
  <2>2. a = b
    BY <1>3, <2>1
  <2>3. \A i : ~ (CharAt(a, i) < CharAt(b, i)) /\ ~ (CharAt(b, i) < CharAt(a, i))
    BY <1>2, <2>2
  <2>4. ~ Precedes(a, b) /\ ~ Precedes(b, a)
    BY <2>3 DEF Precedes
  <2> QED BY <1>3, <2>2, <2>4
<1>4. CASE out # 0 /\ out = CharAt(a, k + 1) - CharAt(b, k + 1)
  <2>1. CharAt(a, k + 1) \in Int /\ CharAt(b, k + 1) \in Int
    BY <1>2
  <2>2. a # b
    BY <1>4, <2>1
  <2>3. /\ k + 1 \in 1..(MaxLen + 1) /\ (k + 1) - 1 = k
        /\ \A i \in 1..(MaxLen + 1) : i \in 1..k \/ i = k + 1 \/ k + 1 \in 1..(i - 1)
    BY <1>1
  <2>4. CharAt(a, k + 1) # CharAt(b, k + 1)
    BY <1>4, <2>1
  <2>5. Precedes(a, b) <=> CharAt(a, k + 1) < CharAt(b, k + 1)
    <3>1. ASSUME Precedes(a, b) PROVE CharAt(a, k + 1) < CharAt(b, k + 1)
      <4>1. PICK i \in 1..(MaxLen + 1) :
              (\A j \in 1..(i - 1) : CharAt(a, j) = CharAt(b, j)) /\ CharAt(a, i) < CharAt(b, i)
        BY <3>1 DEF Precedes
      <4>2. i \notin 1..k
        BY <1>2, <4>1
      <4>3. k + 1 \notin 1..(i - 1)
        BY <2>4, <4>1
      <4> QED BY <2>3, <4>1, <4>2, <4>3
    <3>2. ASSUME CharAt(a, k + 1) < CharAt(b, k + 1) PROVE Precedes(a, b)
      BY <2>3, <3>2 DEF Precedes
    <3> QED BY <3>1, <3>2
  <2>6. Precedes(b, a) <=> CharAt(b, k + 1) < CharAt(a, k + 1)
    <3>1. ASSUME Precedes(b, a) PROVE CharAt(b, k + 1) < CharAt(a, k + 1)
      <4>1. PICK i \in 1..(MaxLen + 1) :
              (\A j \in 1..(i - 1) : CharAt(b, j) = CharAt(a, j)) /\ CharAt(b, i) < CharAt(a, i)
        BY <3>1 DEF Precedes
      <4>2. i \notin 1..k
        BY <1>2, <4>1
      <4>3. k + 1 \notin 1..(i - 1)
        BY <2>4, <4>1
      <4> QED BY <2>3, <4>1, <4>2, <4>3
    <3>2. ASSUME CharAt(b, k + 1) < CharAt(a, k + 1) PROVE Precedes(b, a)
      BY <2>3, <3>2 DEF Precedes
    <3> QED BY <3>1, <3>2
  <2> QED BY <1>4, <2>1, <2>2, <2>5, <2>6
<1> QED BY <1>3, <1>4

(* What is compared of a string that ends after len characters.            *)
LEMMA ComparedIs ==
  ASSUME NEW s \in Strings, NEW len, Ends(s, len), NEW n \in Nat \cup {-1}
  PROVE  LET l == IF n = -1 \/ len <= n THEN len ELSE n
         IN  /\ l \in Nat /\ Compared(s, n) \in [1..l -> Int]
             /\ \A i \in 1..l : CharAt(Compared(s, n), i) = Lower(s[i])
             /\ n = -1 \/ n > l => CharAt(Compared(s, n), l + 1) = Lower(s[l + 1])
<1> DEFINE l == IF n = -1 \/ len <= n THEN len ELSE n
           t == IF n = -1 THEN TextOf(s) ELSE Short(TextOf(s), n)
           c == Compared(s, n)
<1>1. len \in Nat /\ l \in Nat /\ l <= len /\ s[len + 1] = 0
  BY DEF Ends
<1>2. Len(TextOf(s)) = len /\ DOMAIN TextOf(s) = 1..len /\ \A i \in 1..len : TextOf(s)[i] = s[i]
  BY TextOfIs
<1>3. DOMAIN t = 1..l /\ \A i \in 1..l : t[i] = s[i]
  <2>1. CASE n = -1
    BY <1>2, <2>1
  <2>2. CASE n # -1
    <3>1. n \in Nat /\ t = Short(TextOf(s), n)
      BY <2>2
    <3>2. LET m == IF n <= Len(TextOf(s)) THEN n ELSE Len(TextOf(s))
          IN  /\ DOMAIN Short(TextOf(s), n) = 1..m
              /\ \A i \in 1..m : Short(TextOf(s), n)[i] = TextOf(s)[i]
      BY <1>1, <1>2, <3>1, ShortIs
    <3>3. l = IF n <= len THEN n ELSE len
      BY <1>1, <2>2, <3>1
    <3> HIDE DEF t, l
    <3>4. DOMAIN t = 1..l /\ \A i \in 1..l : t[i] = TextOf(s)[i]
      BY <1>2, <3>1, <3>2, <3>3
    <3>5. \A i \in 1..l : i \in 1..len
      BY <1>1
    <3> QED BY <1>2, <3>4, <3>5
  <2> QED BY <2>1, <2>2
<1>4. c = [i \in DOMAIN t |-> Lower(t[i])]
  BY DEF Compared
<1> HIDE DEF t, l, c
<1>5. \A i \in 1..(len + 1) : s[i] \in Int
  <2>1. s \in Seq(Chars \cup {0}) /\ \A i \in 1..(len + 1) : i \in 1..Len(s)
    BY StringsAre DEF Ends
  <2>2. s \in Seq(Int)
    BY <2>1, TextAssumption
  <2> QED BY <2>1, <2>2
<1>6. \A i \in 1..l : Lower(s[i]) \in Int
  <2>1. \A i \in 1..l : i \in 1..(len + 1)
    BY <1>1
  <2> QED BY <1>5, <2>1 DEF Lower
<1>7. c = [i \in 1..l |-> Lower(s[i])]
  BY <1>3, <1>4
<1>8. c \in [1..l -> Int] /\ \A i \in 1..l : CharAt(c, i) = Lower(s[i])
  BY <1>6, <1>7 DEF CharAt
<1>9. ASSUME n = -1 \/ n > l PROVE CharAt(c, l + 1) = Lower(s[l + 1])
  <2>1. l = len
    BY <1>1, <1>9 DEF l
  <2>2. Lower(s[l + 1]) = 0
    BY <1>1, <2>1 DEF Lower
  <2>3. l + 1 \notin DOMAIN c
    BY <1>1, <1>7
  <2> QED BY <2>2, <2>3 DEF CharAt
<1> QED BY <1>1, <1>8, <1>9 DEF l, c

(* Lower leaves the end of a string alone and makes no other one.          *)
LEMMA LowerEnd ==
  ASSUME NEW c \in Int
  PROVE  Lower(c) \in Int /\ (Lower(c) = 0 <=> c = 0)
BY DEF Lower

LEMMA CaseRight ==
  ASSUME NEW s1 \in Strings, NEW s2 \in Strings, NEW n \in Nat \cup {-1}
  PROVE  LET out == IF n = -1 THEN spr_strcasecmp(s1, s2) ELSE spr_strncasecmp(s1, s2, n)
             a   == Compared(s1, n)
             b   == Compared(s2, n)
         IN  /\ out = 0 <=> a = b
             /\ out < 0 <=> Precedes(a, b)
             /\ out > 0 <=> Precedes(b, a)
<1> DEFINE n1   == spr_strlen(s1)
           n2   == spr_strlen(s2)
           lim  == IF n = -1 THEN Len(s1) ELSE n
           out  == IF n = -1 THEN spr_strcasecmp(s1, s2) ELSE spr_strncasecmp(s1, s2, n)
           D    == 0..(Min({Len(s1), Len(s2)}) - 1)
           ends == {i \in D : Lower(s1[i + 1]) # Lower(s2[i + 1]) \/ s1[i + 1] = 0}
           k    == First(lim, ends)
           la   == IF n = -1 \/ n1 <= n THEN n1 ELSE n
           lb   == IF n = -1 \/ n2 <= n THEN n2 ELSE n
           a    == Compared(s1, n)
           b    == Compared(s2, n)
<1>1. Ends(s1, n1) /\ Ends(s2, n2)
  BY StringEnds
<1>2. /\ Len(s1) \in 1..(MaxLen + 1) /\ Len(s2) \in 1..(MaxLen + 1)
      /\ \A i \in 1..Len(s1) : s1[i] \in Int
      /\ \A i \in 1..Len(s2) : s2[i] \in Int
  <2>1. /\ s1 \in Seq(Chars \cup {0}) /\ Len(s1) \in 1..(MaxLen + 1)
        /\ s2 \in Seq(Chars \cup {0}) /\ Len(s2) \in 1..(MaxLen + 1)
    BY StringsAre
  <2>2. s1 \in Seq(Int) /\ s2 \in Seq(Int)
    BY <2>1, TextAssumption
  <2> QED BY <2>1, <2>2
<1>3. out = IF k = lim THEN 0 ELSE Lower(s1[k + 1]) - Lower(s2[k + 1])
  BY DEF spr_strcasecmp, spr_strncasecmp
<1>4. /\ la \in Nat /\ a \in [1..la -> Int]
      /\ \A i \in 1..la : CharAt(a, i) = Lower(s1[i])
      /\ n = -1 \/ n > la => CharAt(a, la + 1) = Lower(s1[la + 1])
  BY <1>1, ComparedIs
<1>5. /\ lb \in Nat /\ b \in [1..lb -> Int]
      /\ \A i \in 1..lb : CharAt(b, i) = Lower(s2[i])
      /\ n = -1 \/ n > lb => CharAt(b, lb + 1) = Lower(s2[lb + 1])
  BY <1>1, ComparedIs
<1> HIDE DEF n1, n2, out, a, b
<1>6. /\ n1 \in 0..(Len(s1) - 1) /\ s1[n1 + 1] = 0 /\ \A i \in 1..n1 : s1[i] # 0
      /\ n2 \in 0..(Len(s2) - 1) /\ s2[n2 + 1] = 0 /\ \A i \in 1..n2 : s2[i] # 0
  BY <1>1 DEF Ends
<1>7. MaxLen \in Nat /\ Len(s1) \in Nat /\ Len(s2) \in Nat /\ n1 \in Nat /\ n2 \in Nat /\ lim \in Nat
  BY <1>2, <1>6, TextAssumption
<1>8. D = {i \in Nat : i < Len(s1) /\ i < Len(s2)}
  BY <1>7, MinOfTwo
<1> HIDE DEF D
<1> DEFINE q == IF n1 <= n2 THEN n1 ELSE n2
<1>9. q \in ends /\ q \in Nat
  <2>1. q \in D /\ q \in Nat /\ q + 1 \in 1..Len(s1)
    BY <1>2, <1>6, <1>7, <1>8
  <2>2. CASE n1 <= n2
    BY <1>6, <2>1, <2>2
  <2>3. CASE ~ (n1 <= n2)
    <3>1. q = n2 /\ q + 1 \in 1..n1 /\ q + 1 \in 1..Len(s1)
      BY <1>6, <1>7, <2>3
    <3>2. s1[q + 1] # 0 /\ s1[q + 1] \in Int /\ s2[q + 1] = 0
      BY <1>2, <1>6, <3>1
    <3>3. Lower(s1[q + 1]) # 0 /\ Lower(s2[q + 1]) = 0
      BY <3>2, LowerEnd
    <3> QED BY <2>1, <3>3
  <2> QED BY <2>1, <2>2, <2>3
<1>10. FirstOf(lim, ends, k)
  <2> HIDE DEF ends, lim
  <2> QED BY <1>7, FirstIs
<1>11. k \in 0..lim /\ k <= q /\ k \in Nat /\ k <= n1 /\ k <= n2
  <2> HIDE DEF ends, lim, k
  <2>1. k \in 0..lim
    BY <1>10 DEF FirstOf
  <2>2. ~ (q < k)
    <3>1. ASSUME q < k PROVE FALSE
      <4>1. q \in 0..(k - 1)
        BY <1>9, <2>1, <3>1
      <4> QED BY <1>9, <1>10, <4>1 DEF FirstOf
    <3> QED BY <3>1
  <2>3. k \in Nat
    BY <1>7, <2>1
  <2> QED BY <1>7, <2>1, <2>2, <2>3
<1>12. ASSUME NEW j \in 1..k PROVE Lower(s1[j]) = Lower(s2[j])
  <2>1. j - 1 \in 0..(k - 1) /\ (j - 1) + 1 = j /\ j - 1 \in D
    BY <1>6, <1>7, <1>8, <1>11
  <2>2. j - 1 \notin ends
    <3> HIDE DEF ends, k, lim
    <3> QED BY <1>10, <2>1 DEF FirstOf
  <2> QED BY <2>1, <2>2
<1>13. k <= la /\ k <= lb
  BY <1>7, <1>11
<1>14. ASSUME NEW j \in 1..k PROVE CharAt(a, j) = CharAt(b, j)
  <2> HIDE DEF k, la, lb
  <2>1. j \in 1..la /\ j \in 1..lb
    BY <1>4, <1>5, <1>11, <1>13
  <2> QED BY <1>4, <1>5, <1>12, <2>1
<1>15. k \in 0..MaxLen
  BY <1>2, <1>6, <1>7, <1>11
<1>16. /\ out \in Int
       /\ \/ out = 0 /\ la = k /\ lb = k
          \/ out # 0 /\ out = CharAt(a, k + 1) - CharAt(b, k + 1)
  <2>1. CASE k = lim
    <3>1. n # -1 /\ k = n
      BY <1>6, <1>7, <1>11, <2>1
    <3>2. la = k /\ lb = k
      BY <1>7, <1>11, <3>1
    <3> QED BY <1>3, <2>1, <3>2
  <2>2. CASE k # lim
    <3>1. k \in ends /\ k \in D
      <4>1. k \in ends
        <5> HIDE DEF k, ends, lim
        <5> QED BY <1>10, <2>2 DEF FirstOf
      <4> QED BY <4>1
    <3>2. k + 1 \in 1..Len(s1) /\ k + 1 \in 1..Len(s2)
      BY <1>7, <1>8, <3>1
    <3>3. out = Lower(s1[k + 1]) - Lower(s2[k + 1])
      BY <1>3, <2>2
    <3>4. /\ Lower(s1[k + 1]) \in Int /\ Lower(s2[k + 1]) \in Int
          /\ Lower(s1[k + 1]) = 0 <=> s1[k + 1] = 0
          /\ Lower(s2[k + 1]) = 0 <=> s2[k + 1] = 0
      BY <1>2, <3>2, LowerEnd
    <3>5. n = -1 \/ n > k
      BY <1>11, <2>2
    <3>6. CharAt(a, k + 1) = Lower(s1[k + 1])
      <4>1. CASE k = la
        BY <1>4, <3>5, <4>1
      <4>2. CASE k # la
        <5>1. k + 1 \in 1..la
          BY <1>4, <1>11, <1>13, <4>2
        <5> QED BY <1>4, <5>1
      <4> QED BY <4>1, <4>2
    <3>7. CharAt(b, k + 1) = Lower(s2[k + 1])
      <4>1. CASE k = lb
        BY <1>5, <3>5, <4>1
      <4>2. CASE k # lb
        <5>1. k + 1 \in 1..lb
          BY <1>5, <1>11, <1>13, <4>2
        <5> QED BY <1>5, <5>1
      <4> QED BY <4>1, <4>2
    <3>8. CASE Lower(s1[k + 1]) = Lower(s2[k + 1])
      <4>1. s1[k + 1] = 0 /\ s2[k + 1] = 0
        BY <3>1, <3>4, <3>8
      <4>2. n1 = k /\ n2 = k
        <5>1. ~ (k + 1 \in 1..n1) /\ ~ (k + 1 \in 1..n2)
          BY <1>6, <4>1
        <5> QED BY <1>7, <1>11, <5>1
      <4>3. la = k /\ lb = k
        <5> HIDE DEF k
        <5>1. n = -1 \/ k <= n
          BY <1>11, <3>5
        <5> QED BY <4>2, <5>1
      <4>4. out = 0
        BY <3>3, <3>4, <3>8
      <4> QED BY <4>3, <4>4
    <3>9. CASE Lower(s1[k + 1]) # Lower(s2[k + 1])
      <4>1. out \in Int /\ out # 0
        BY <3>3, <3>4, <3>9
      <4> QED BY <3>3, <3>6, <3>7, <4>1
    <3> QED BY <3>8, <3>9
  <2> QED BY <2>1, <2>2
<1> HIDE DEF k, la, lb
<1>17. /\ out = 0 <=> a = b
       /\ out < 0 <=> Precedes(a, b)
       /\ out > 0 <=> Precedes(b, a)
  <2>1. la \in Nat /\ lb \in Nat /\ a \in [1..la -> Int] /\ b \in [1..lb -> Int] /\ out \in Int
    BY <1>4, <1>5, <1>16
  <2>2. \A j \in 1..k : CharAt(a, j) = CharAt(b, j)
    BY <1>14
  <2>3. \/ out = 0 /\ la = k /\ lb = k
        \/ out # 0 /\ out = CharAt(a, k + 1) - CharAt(b, k + 1)
    BY <1>16
  <2> QED BY ONLY <1>15, <2>1, <2>2, <2>3, OrderIs
<1> QED BY <1>17 DEF out, a, b

-----------------------------------------------------------------------------
(* Paths that are joined.                                                  *)

(* m has the l characters of t and nothing else.                           *)
Filled(m, l, t) ==
  /\ l \in Nat /\ t \in Seq(Int) /\ Len(t) = l
  /\ DOMAIN m = 0..(l - 1) /\ \A k \in 0..(l - 1) : m[k] = t[k + 1]

LEMMA FilledIf ==
  ASSUME NEW m, NEW l \in Nat, NEW t \in Seq(Int), Len(t) = l,
         DOMAIN m = 0..(l - 1), \A k \in 0..(l - 1) : m[k] = t[k + 1]
  PROVE  Filled(m, l, t)
BY DEF Filled

LEMMA FilledNext ==
  ASSUME NEW m, NEW l, NEW t, Filled(m, l, t), NEW u \in Seq(Int)
  PROVE  Filled(Put(m, l, u), l + Len(u), t \o u)
<1> DEFINE k  == Len(u)
           m2 == Put(m, l, u)
           v  == t \o u
<1>1. k \in Nat /\ l \in Nat /\ t \in Seq(Int) /\ Len(t) = l
  BY DEF Filled
<1>2. Wrote(m2, m, l, u, k)
  BY <1>1, PutIs
<1>3. v \in Seq(Int) /\ Len(v) = l + k
  BY <1>1, ConcatProperties
<1>4. \A i \in 1..(l + k) : v[i] = IF i <= l THEN t[i] ELSE u[i - l]
  BY <1>1, ConcatProperties
<1> HIDE DEF k, m2, v
<1>5. DOMAIN m2 = 0..((l + k) - 1)
  <2>1. 0..(l - 1) \cup l..(l + k - 1) = 0..((l + k) - 1)
    BY <1>1
  <2> QED BY <1>2, <2>1 DEF Wrote, Filled
<1>6. ASSUME NEW i \in 0..((l + k) - 1) PROVE m2[i] = v[i + 1]
  <2>1. CASE i < l
    <3>1. i \in 0..(l - 1) /\ i + 1 <= l /\ i + 1 \in 1..(l + k) /\ i \notin l..(l + k - 1)
      BY <1>1, <2>1
    <3>2. m2[i] = m[i] /\ m[i] = t[i + 1]
      BY <1>2, <3>1 DEF Wrote, Filled
    <3> QED BY <1>4, <3>1, <3>2
  <2>2. CASE ~ (i < l)
    <3>1. /\ i \in l..(l + k - 1) /\ i + 1 \in 1..(l + k) /\ ~ (i + 1 <= l)
          /\ (i + 1) - l = i - l + 1
      BY <1>1, <2>2
    <3>2. m2[i] = u[i - l + 1]
      BY <1>2, <3>1 DEF Wrote
    <3> QED BY <1>4, <3>1, <3>2
  <2> QED BY <2>1, <2>2
<1>7. Filled(m2, l + k, v)
  <2>1. l + k \in Nat
    BY <1>1
  <2> DEFINE lk == l + k
  <2>2. lk \in Nat /\ v \in Seq(Int) /\ Len(v) = lk /\ DOMAIN m2 = 0..(lk - 1)
    BY <1>3, <1>5, <2>1
  <2>3. \A i \in 0..(lk - 1) : m2[i] = v[i + 1]
    BY <1>6
  <2> HIDE DEF lk
  <2>4. Filled(m2, lk, v)
    BY ONLY <2>2, <2>3, FilledIf
  <2> QED BY <2>4 DEF lk
<1> QED BY <1>7 DEF k, m2, v

(* The 0 behind them.                                                      *)
LEMMA FilledEnd ==
  ASSUME NEW m, NEW l, NEW t, Filled(m, l, t)
  PROVE  Holds(Put(m, l, <<0>>), t) /\ DOMAIN Put(m, l, <<0>>) = 0..Len(t)
<1> DEFINE out == Put(m, l, <<0>>)
           end == <<0>>
<1>1. Len(end) = 1 /\ end[1] = 0
  OBVIOUS
<1>2. l \in Nat /\ Len(t) = l /\ DOMAIN m = 0..(l - 1) /\ \A k \in 0..(l - 1) : m[k] = t[k + 1]
  BY DEF Filled
<1> HIDE DEF end
<1>3. out = Put(m, l, end)
  BY DEF end
<1> HIDE DEF out
<1>4. Wrote(out, m, l, end, 1)
  BY <1>1, <1>2, <1>3, PutIs
<1>5. DOMAIN out = 0..l /\ out[l] = 0 /\ \A k \in 0..(l - 1) : out[k] = t[k + 1]
  <2>1. 0..(l - 1) \cup l..(l + 1 - 1) = 0..l /\ l \in l..(l + 1 - 1) /\ l - l + 1 = 1
    BY <1>2
  <2>2. \A k \in 0..(l - 1) : k \notin l..(l + 1 - 1)
    BY <1>2
  <2> QED BY <1>1, <1>2, <1>4, <2>1, <2>2 DEF Wrote
<1>6. Holds(out, t)
  <2>1. l \in 0..l
    BY <1>2
  <2> QED BY <1>2, <1>5, <2>1, HoldsIf
<1> QED BY <1>2, <1>5, <1>6 DEF out

LEMMA JoinRight ==
  ASSUME NEW path \in Strings, NEW file \in Strings, spr_strlen(path) > 0
  PROVE  LET t   == TextOf(path)
             u   == TextOf(file)
             dir == IF Last(t) = Separator THEN t ELSE Append(t, Separator)
             out == spr_file_full_path(path, file)
         IN  Holds(out, dir \o u) /\ DOMAIN out = 0..Len(dir \o u)
<1> DEFINE t    == TextOf(path)
           u    == TextOf(file)
           dir  == IF Last(t) = Separator THEN t ELSE Append(t, Separator)
           lp   == spr_strlen(path)
           lf   == spr_strlen(file)
           n    == lp - (IF path[lp] = Separator THEN 1 ELSE 0)
           f    == SubSeq(path, 1, n)
           out  == spr_file_full_path(path, file)
           m1   == Put(<<>>, 0, f)
           m2   == Put(m1, n, <<Separator>>)
           m3   == Put(m2, n + 1, u)
           sep  == <<Separator>>
           end  == <<0>>
<1>1. Ends(path, lp) /\ Ends(file, lf)
  BY StringEnds
<1>2. t \in Seq(Int) /\ Len(t) = lp /\ t = SubSeq(path, 1, lp) /\ \A i \in 1..lp : t[i] = path[i]
  BY <1>1, TextTyped, TextOfIs
<1>3. u \in Seq(Int) /\ Len(u) = lf /\ u = SubSeq(file, 1, lf)
  BY <1>1, TextTyped, TextOfIs
<1>4. out = Put(m3, n + 1 + lf, end)
  BY <1>3 DEF spr_file_full_path
<1>5. lp \in Nat /\ lp > 0 /\ lf \in Nat /\ n \in Nat /\ n <= lp
  BY <1>1 DEF Ends
<1> HIDE DEF t, u, lp, lf, out
<1>6. Last(t) = path[lp]
  <2>1. lp \in 1..lp
    BY <1>5
  <2> QED BY <1>2, <2>1 DEF Last
<1>7. sep \in Seq(Int) /\ Len(sep) = 1 /\ sep[1] = Separator /\ end \in Seq(Int) /\ Len(end) = 1 /\ end[1] = 0
  BY DEF Separator
<1> HIDE DEF sep, end
<1>8. f \in Seq(Int) /\ Len(f) = n /\ \A i \in 1..n : f[i] = t[i]
  <2>1. f = [i \in 1..n |-> path[i]]
    BY <1>5
  <2>2. \A i \in 1..n : i \in 1..lp
    BY <1>5
  <2> HIDE DEF f, n
  <2>3. \A i \in 1..n : path[i] = t[i] /\ t[i] \in Int
    BY <1>2, <2>2
  <2>4. f \in [1..n -> Int] /\ \A i \in 1..n : f[i] = t[i]
    BY <2>1, <2>3
  <2> QED BY <1>5, <2>4, FunIsSeq
<1>9. f \o sep = dir
  <2> DEFINE g == f \o sep
  <2> HIDE DEF f
  <2>1. /\ g \in Seq(Int) /\ Len(g) = Len(f) + Len(sep)
        /\ \A i \in 1..(Len(f) + Len(sep)) :
             g[i] = IF i <= Len(f) THEN f[i] ELSE sep[i - Len(f)]
    BY <1>7, <1>8, ConcatProperties
  <2> HIDE DEF g, n
  <2>2. /\ g \in Seq(Int) /\ Len(g) = n + 1
        /\ \A i \in 1..(n + 1) : g[i] = IF i <= n THEN f[i] ELSE sep[i - n]
    BY <1>7, <1>8, <2>1
  <2> USE DEF n
  <2>3. CASE path[lp] = Separator
    <3>1. n + 1 = lp /\ dir = t
      BY <1>5, <1>6, <2>3
    <3> HIDE DEF dir, n
    <3>2. \A i \in 1..lp : g[i] = t[i]
      <4> TAKE i \in 1..lp
      <4>1. CASE i = lp
        <5>1. ~ (i <= n) /\ i - n = 1 /\ i \in 1..(n + 1)
          BY <1>5, <3>1, <4>1
        <5>2. g[i] = Separator
          BY <1>7, <2>2, <5>1
        <5> QED BY <1>2, <2>3, <4>1, <5>2
      <4>2. CASE i # lp
        <5>1. i <= n /\ i \in 1..n /\ i \in 1..(n + 1)
          BY <1>5, <3>1, <4>2
        <5> QED BY <1>8, <2>2, <5>1
      <4> QED BY <4>1, <4>2
    <3>3. Len(g) = lp /\ Len(t) = lp
      BY <1>2, <2>2, <3>1
    <3>4. g = t
      BY <1>2, <2>2, <3>2, <3>3, SeqEqual
    <3> QED BY <3>1, <3>4 DEF g
  <2>4. CASE path[lp] # Separator
    <3>1. n = lp /\ dir = Append(t, Separator) /\ Separator \in Int
      BY <1>5, <1>6, <2>4 DEF Separator
    <3> HIDE DEF dir, n
    <3>2. dir \in Seq(Int) /\ Len(dir) = lp + 1 /\ dir[lp + 1] = Separator
          /\ \A i \in 1..lp : dir[i] = t[i]
      BY <1>2, <3>1, AppendProperties
    <3>3. \A i \in 1..(lp + 1) : g[i] = dir[i]
      <4> TAKE i \in 1..(lp + 1)
      <4>1. CASE i = lp + 1
        <5>1. ~ (i <= n) /\ i - n = 1 /\ i \in 1..(n + 1)
          BY <1>5, <3>1, <4>1
        <5>2. g[i] = Separator
          BY <1>7, <2>2, <5>1
        <5> QED BY <3>2, <4>1, <5>2
      <4>2. CASE i # lp + 1
        <5>1. i <= n /\ i \in 1..n /\ i \in 1..(n + 1) /\ i \in 1..lp
          BY <1>5, <3>1, <4>2
        <5> QED BY <1>8, <2>2, <3>2, <5>1
      <4> QED BY <4>1, <4>2
    <3>4. Len(g) = lp + 1
      BY <2>2, <3>1
    <3>5. g = dir
      BY <2>2, <3>2, <3>3, <3>4, SeqEqual
    <3> QED BY <3>5 DEF g
  <2> QED BY <2>3, <2>4
<1> HIDE DEF n, f, dir
<1>10. Filled(m1, n, f)
  <2>1. Filled(<<>>, 0, <<>>)
    <3>1. DOMAIN <<>> = {} /\ Len(<<>>) = 0 /\ 0..(0 - 1) = {} /\ <<>> \in Seq(Int)
      OBVIOUS
    <3> QED BY <3>1 DEF Filled
  <2>2. Filled(m1, 0 + Len(f), <<>> \o f)
    BY <1>8, <2>1, FilledNext
  <2>3. <<>> \o f = f /\ 0 + Len(f) = n
    BY <1>5, <1>8, ConcatEmptySeq
  <2> HIDE DEF m1
  <2> QED BY <2>2, <2>3
<1> HIDE DEF m1
<1>11. Filled(m2, n + 1, dir)
  <2>1. Filled(Put(m1, n, sep), n + Len(sep), f \o sep)
    BY <1>7, <1>10, FilledNext
  <2>2. m2 = Put(m1, n, sep)
    BY DEF sep
  <2> HIDE DEF m2
  <2> QED BY <1>7, <1>9, <2>1, <2>2
<1> HIDE DEF m2
<1>12. Filled(m3, n + 1 + lf, dir \o u)
  <2>1. Filled(m3, (n + 1) + Len(u), dir \o u)
    BY <1>3, <1>11, FilledNext
  <2> QED BY <1>3, <2>1
<1> HIDE DEF m3
<1>13. out = Put(m3, n + 1 + lf, <<0>>)
  BY <1>4 DEF end
<1>14. Holds(out, dir \o u) /\ DOMAIN out = 0..Len(dir \o u)
  BY ONLY <1>12, <1>13, FilledEnd
<1> QED BY <1>14 DEF dir, t, u, out

-----------------------------------------------------------------------------
(* Access modes.                                                           *)

LEMMA AccessRight ==
  ASSUME NEW bits
  PROVE  LET mode == Mask(bits, [bit \in ModeBits |-> bit])
         IN  spr_stat_get_access(bits) =
               (mode \div 512) * 8192 + ((mode \div 64) % 8) * 256
                 + ((mode \div 8) % 8) * 16 + (mode % 8)
<1> DEFINE On(b, x) == IF b \in bits THEN x ELSE 0
           sp   == On(2048, 4) + On(1024, 2) + On(512, 1)
           us   == On(256, 4) + On(128, 2) + On(64, 1)
           gr   == On(32, 4) + On(16, 2) + On(8, 1)
           ot   == On(4, 4) + On(2, 2) + On(1, 1)
           mode == Mask(bits, [bit \in ModeBits |-> bit])
           acc  == spr_stat_get_access(bits)
<1>1. sp \in 0..7 /\ us \in 0..7 /\ gr \in 0..7 /\ ot \in 0..7
  BY SMT
<1>2. mode = 512 * sp + 64 * us + 8 * gr + ot
  BY SMT DEF Mask, ModeBits
<1>3. acc = 8192 * sp + 256 * us + 16 * gr + ot
  BY SMT DEF spr_stat_get_access, Mask, ModeBits, spr_access_bit
<1> HIDE DEF sp, us, gr, ot, mode, acc
<1>4. /\ mode \div 512 = sp /\ (mode \div 64) % 8 = us
      /\ (mode \div 8) % 8 = gr /\ mode % 8 = ot
  BY <1>1, <1>2, SMT
<1>5. acc = (mode \div 512) * 8192 + ((mode \div 64) % 8) * 256
              + ((mode \div 8) % 8) * 16 + (mode % 8)
  BY <1>1, <1>3, <1>4, SMT
<1> QED BY <1>5, SMT DEF mode, acc

-----------------------------------------------------------------------------

(* A call as it is kept.                                                   *)
LEMMA CallIs ==
  ASSUME NEW fn, NEW in, NEW out, Called(fn, in, out)
  PROVE  call'.fn = fn /\ call'.in = in /\ call'.out = out
BY DEF Called

(* Members of Upto.                                                        *)
LEMMA UptoIs ==
  ASSUME NEW S, NEW n \in Nat, NEW f \in Upto(S, n)
  PROVE  \E k \in Nat : f \in [1..k -> S]
BY DEF Upto

LEMMA CopiesRight ==
  ASSUME Copies
  PROVE  CopiesWhole' /\ call'.fn \in {"dup", "ndup", "cat"}
<1>1. ASSUME NEW s \in Strings, Called("dup", s, spr_pstrdup(s))
      PROVE  CopiesWhole' /\ call'.fn \in {"dup", "ndup", "cat"}
  <2>1. call'.fn = "dup" /\ call'.in = s /\ call'.out = spr_pstrdup(s)
    BY <1>1, CallIs
  <2>2. Holds(call'.out, TextOf(call'.in)) /\ Fits(call'.out, Len(TextOf(call'.in)) + 1)
    BY <2>1, DupWhole
  <2> QED BY <2>1, <2>2 DEF CopiesWhole
<1>2. ASSUME NEW s \in Strings, NEW n \in 0..(MaxLen + 2),
             Called("ndup", <<s, n>>, spr_pstrndup(s, n))
      PROVE  CopiesWhole' /\ call'.fn \in {"dup", "ndup", "cat"}
  <2>1. call'.fn = "ndup" /\ call'.in = <<s, n>> /\ call'.out = spr_pstrndup(s, n)
    BY <1>2, CallIs
  <2>2. call'.in[1] = s /\ call'.in[2] = n
    BY <2>1
  <2>3. n \in Nat
    BY TextAssumption
  <2>4. /\ Holds(call'.out, Short(TextOf(call'.in[1]), call'.in[2]))
        /\ Fits(call'.out, call'.in[2] + 1)
        /\ (\E k \in DOMAIN call'.out : call'.out[k] = Foreign) <=> call'.in[2] > Len(call'.in[1])
    BY <1>2, <2>1, <2>2, <2>3, NdupWhole
  <2> QED BY <2>1, <2>4 DEF CopiesWhole
<1>3. ASSUME NEW args \in Upto({s \in Strings : Len(s) <= MaxLen}, MaxArgs),
             Called("cat", args, spr_pstrcat1(args))
      PROVE  CopiesWhole' /\ call'.fn \in {"dup", "ndup", "cat"}
  <2>1. call'.fn = "cat" /\ call'.in = args /\ call'.out = spr_pstrcat1(args)
    BY <1>3, CallIs
  <2>2. PICK n \in Nat : args \in [1..n -> {s \in Strings : Len(s) <= MaxLen}]
    <3>1. MaxArgs \in Nat
      BY TextAssumption
    <3> QED BY <1>3, <3>1, UptoIs
  <2>3. args \in [1..n -> Strings]
    BY <2>2
  <2>4. LET all == FlattenSeq([i \in DOMAIN args |-> TextOf(args[i])])
        IN  Holds(spr_pstrcat1(args), all) /\ Fits(spr_pstrcat1(args), Len(all) + 1)
    BY <2>3, CatWhole
  <2> QED BY <2>1, <2>4 DEF CopiesWhole
<1> QED BY <1>1, <1>2, <1>3 DEF Copies

LEMMA ErrorTextsRight ==
  ASSUME ErrorTexts
  PROVE  ErrorTextFits' /\ call'.fn \in {"strerror", "dlerror"}
<1>1. ASSUME NEW b \in 0..MaxBuf, NEW str \in Messages, NEW err \in Errs, NEW win32 \in BOOLEAN,
             Called("strerror", <<err, str, win32, b>>, spr_strerror(err, str, win32, b))
      PROVE  ErrorTextFits' /\ call'.fn \in {"strerror", "dlerror"}
  <2>1. /\ call'.fn = "strerror" /\ call'.in = <<err, str, win32, b>>
        /\ call'.out = spr_strerror(err, str, win32, b)
    BY <1>1, CallIs
  <2>2. call'.in[1] = err /\ call'.in[2] = str /\ call'.in[3] = win32 /\ call'.in[4] = b
    BY <2>1
  <2>3. b \in Nat /\ err \in Int
    BY TextAssumption
  <2>4. BufferKept(call'.out, Said(err, str, win32, b), b)
    BY <2>1, <2>3, ErrorTextRight
  <2>5. (Fits(call'.out, b) <=> b > 0) /\ (b > 0 => Holds(call'.out, Said(err, str, win32, b)))
    BY <2>4 DEF BufferKept
  <2> QED BY <2>1, <2>2, <2>5 DEF ErrorTextFits, Said
<1>2. ASSUME NEW b \in 0..MaxBuf, NEW str \in Messages,
             Called("dlerror", <<str, b>>, spr_dlerror(str, b))
      PROVE  ErrorTextFits' /\ call'.fn \in {"strerror", "dlerror"}
  <2>1. call'.fn = "dlerror" /\ call'.in = <<str, b>> /\ call'.out = spr_dlerror(str, b)
    BY <1>2, CallIs
  <2>2. call'.in[1] = str /\ call'.in[2] = b
    BY <2>1
  <2>3. b \in Nat /\ Len(str) \in Nat
    <3>1. str \in Seq(Int \ {0})
      BY TextAssumption
    <3> QED BY <3>1, TextAssumption
  <2>4. BufferKept(copy_text(str, b), Short(str, b - 1), b)
    BY <2>3, CopyKept
  <2>5. call'.out = copy_text(str, b)
    BY <2>1 DEF spr_dlerror
  <2>6. (Fits(call'.out, b) <=> b > 0) /\ (b > 0 => Holds(call'.out, Short(str, b - 1)))
    BY <2>4, <2>5 DEF BufferKept
  <2> QED BY <2>1, <2>2, <2>6 DEF ErrorTextFits
<1> QED BY <1>1, <1>2 DEF ErrorTexts

LEMMA NumbersAreRight ==
  ASSUME Numbers
  PROVE  NumbersRight' /\ call'.fn = "atoi"
<1>1. PICK s \in Upto(Digits, MaxDigits), n \in 0..MaxDigits :
        /\ n <= Len(s)
        /\ \/ Called("atoi", <<s, n, IntMax>>, spr_atoi(s, n))
           \/ Called("atoi", <<s, n, SizeMax>>, spr_atosz(s, n))
  BY DEF Numbers
<1>2. PICK max \in Nat : Called("atoi", <<s, n, max>>, Parse(s, n, max))
  <2>1. IntMax \in Nat /\ SizeMax \in Nat
    BY TextAssumption
  <2> QED BY <1>1, <2>1 DEF spr_atoi, spr_atosz
<1>3. call'.fn = "atoi" /\ call'.in = <<s, n, max>> /\ call'.out = Parse(s, n, max)
  BY <1>2, CallIs
<1>4. call'.in[1] = s /\ call'.in[2] = n /\ call'.in[3] = max
  BY <1>3
<1>5. n \in Nat /\ MaxDigits \in Nat
  BY TextAssumption
<1>6. PICK k \in Nat : s \in [1..k -> Digits]
  BY <1>5, UptoIs
<1>7. \A i \in 1..n : s[i] \in Int
  <2>1. Len(s) = k /\ Digits \subseteq Int
    BY <1>6, TextAssumption
  <2>2. \A i \in 1..n : i \in 1..k
    BY <1>1, <1>5, <2>1
  <2> QED BY <1>6, <2>1, <2>2
<1>8. Parse(s, n, max) = IF n > 0 /\ (\A i \in 1..n : s[i] \in 48..57) /\ Decimal(s, n) <= max
                         THEN Decimal(s, n) ELSE -1
  BY <1>5, <1>7, ParseRight
<1> QED BY <1>3, <1>4, <1>8 DEF NumbersRight

LEMMA ComparesAreRight ==
  ASSUME Compares
  PROVE  CaseOrder' /\ call'.fn = "casecmp"
<1>1. PICK s1 \in Strings, s2 \in Strings, n \in -1..MaxLen : Called("casecmp", <<s1, s2, n>>,
        IF n = -1 THEN spr_strcasecmp(s1, s2) ELSE spr_strncasecmp(s1, s2, n))
  BY DEF Compares
<1> DEFINE out == IF n = -1 THEN spr_strcasecmp(s1, s2) ELSE spr_strncasecmp(s1, s2, n)
<1>2. call'.fn = "casecmp" /\ call'.in = <<s1, s2, n>> /\ call'.out = out
  BY <1>1, CallIs
<1>3. call'.in[1] = s1 /\ call'.in[2] = s2 /\ call'.in[3] = n
  BY <1>2
<1>4. n \in Nat \cup {-1}
  <2>1. MaxLen \in Nat
    BY TextAssumption
  <2> QED BY <2>1
<1>5. /\ out = 0 <=> Compared(s1, n) = Compared(s2, n)
      /\ out < 0 <=> Precedes(Compared(s1, n), Compared(s2, n))
      /\ out > 0 <=> Precedes(Compared(s2, n), Compared(s1, n))
  BY <1>4, CaseRight
<1> HIDE DEF out
<1> QED BY <1>2, <1>3, <1>5 DEF CaseOrder

LEMMA SearchesAreRight ==
  ASSUME Searches
  PROVE  SearchesRight' /\ call'.fn = "search"
<1>1. PICK s \in Strings, c \in Chars \cup {0}, n \in 0..MaxLen :
        Called("search", <<s, c, n>>,
               <<spr_strlen(s), spr_strnlen(s, n), spr_strchr(s, c), spr_strrchr(s, c)>>)
  BY DEF Searches
<1> DEFINE len  == spr_strlen(s)
           text == TextOf(s)
           in   == {i \in DOMAIN text : text[i] = c}
<1>2. /\ call'.fn = "search" /\ call'.in = <<s, c, n>>
      /\ call'.out = <<len, spr_strnlen(s, n), spr_strchr(s, c), spr_strrchr(s, c)>>
  BY <1>1, CallIs
<1>3. call'.in[1] = s /\ call'.in[2] = c /\ call'.in[3] = n
  BY <1>2
<1>4. Ends(s, len) /\ n \in Nat
  <2>1. MaxLen \in Nat
    BY TextAssumption
  <2> QED BY <2>1, StringEnds
<1>5. Len(text) = len /\ in = {i \in 1..len : s[i] = c}
  BY <1>4, TextOfIs
<1>6. spr_strnlen(s, n) = Min({Len(text), n})
  <2> HIDE DEF len, text
  <2> QED BY <1>4, <1>5, StrnlenIs
<1>7. spr_strchr(s, c) = IF in = {} THEN NotFound ELSE Min(in) - 1
  BY <1>4, <1>5, StrchrIs
<1>8. spr_strrchr(s, c) = IF c = 0 THEN Len(text) ELSE IF in = {} THEN NotFound ELSE Max(in) - 1
  <2>1. LET set == {i \in 1..len : s[i] = c}
        IN  spr_strrchr(s, c) = IF c = 0 THEN len
                                ELSE IF set = {} THEN NotFound ELSE Max(set) - 1
    BY <1>4, StrrchrIs
  <2> HIDE DEF len, text, in
  <2> QED BY <1>5, <2>1
<1>9. call'.out = <<Len(text), Min({Len(text), n}),
                    IF in = {} THEN NotFound ELSE Min(in) - 1,
                    IF c = 0 THEN Len(text) ELSE IF in = {} THEN NotFound ELSE Max(in) - 1>>
  <2> HIDE DEF len, text, in
  <2> QED BY <1>2, <1>5, <1>6, <1>7, <1>8
<1> QED BY <1>2, <1>3, <1>9 DEF SearchesRight

(* Which calls an action may leave.                                        *)
LEMMA CallKinds ==
  /\ Paths => call'.fn \in {"bytes", "wchar", "join"}
  /\ Accesses => call'.fn = "access"
<1>1. \A fn, in, out : Called(fn, in, out) => call'.fn = fn
  BY CallIs
<1>2. ASSUME Paths PROVE call'.fn \in {"bytes", "wchar", "join"}
  BY <1>1, <1>2 DEF Paths
<1>3. ASSUME Accesses PROVE call'.fn = "access"
  BY <1>1, <1>3 DEF Accesses
<1> QED BY <1>2, <1>3

(* Numbers are converted exactly or refused, texts compared in their order *)
(* whatever their case, and characters found where they are, for texts and *)
(* limits of any size.                                                     *)
THEOREM StringsAreRight == TextSpec => []StringsRight
<1>1. TextInit => StringsRight
  BY DEF TextInit, Idle, StringsRight, NumbersRight, CaseOrder, SearchesRight
<1>2. StringsRight /\ [TextNext]_call => StringsRight'
  <2> SUFFICES ASSUME StringsRight, [TextNext]_call PROVE StringsRight'
    OBVIOUS
  <2>1. CASE Numbers
    <3>1. CaseOrder' /\ SearchesRight'
      BY <2>1, NumbersAreRight DEF CaseOrder, SearchesRight
    <3> QED BY <2>1, <3>1, NumbersAreRight DEF StringsRight
  <2>2. CASE Compares
    <3>1. NumbersRight' /\ SearchesRight'
      BY <2>2, ComparesAreRight DEF NumbersRight, SearchesRight
    <3> QED BY <2>2, <3>1, ComparesAreRight DEF StringsRight
  <2>3. CASE Searches
    <3>1. NumbersRight' /\ CaseOrder'
      BY <2>3, SearchesAreRight DEF NumbersRight, CaseOrder
    <3> QED BY <2>3, <3>1, SearchesAreRight DEF StringsRight
  <2>4. CASE Copies \/ ErrorTexts \/ Paths \/ Accesses
    <3>1. call'.fn \notin {"atoi", "casecmp", "search"}
      BY <2>4, CopiesRight, ErrorTextsRight, CallKinds
    <3> QED BY <3>1 DEF StringsRight, NumbersRight, CaseOrder, SearchesRight
  <2>5. CASE UNCHANGED call
    BY <2>5 DEF StringsRight, NumbersRight, CaseOrder, SearchesRight
  <2> QED BY <2>1, <2>2, <2>3, <2>4, <2>5 DEF TextNext
<1> QED BY <1>1, <1>2, PTL DEF TextSpec

(* Copies are whole and error texts cut to size, terminated, and inside of *)
(* their blocks and buffers, for texts and buffers of any size, but for a  *)
(* buffer of size 0, where the byte before it is written; and copies hold  *)
(* bytes of the string only, unless the n of spr_pstrndup is larger.       *)
THEOREM BuffersAreKept == TextSpec => []BuffersKept
<1>1. TextInit => BuffersKept
  BY DEF TextInit, Idle, BuffersKept, CopiesWhole, ErrorTextFits
<1>2. BuffersKept /\ [TextNext]_call => BuffersKept'
  <2> SUFFICES ASSUME BuffersKept, [TextNext]_call PROVE BuffersKept'
    OBVIOUS
  <2>1. CASE Copies
    <3>1. call'.fn \notin {"strerror", "dlerror"}
      BY <2>1, CopiesRight
    <3>2. ErrorTextFits'
      BY <3>1 DEF ErrorTextFits
    <3> QED BY <2>1, <3>2, CopiesRight DEF BuffersKept
  <2>2. CASE ErrorTexts
    <3>1. call'.fn \notin {"dup", "ndup", "cat"}
      BY <2>2, ErrorTextsRight
    <3>2. CopiesWhole'
      BY <3>1 DEF CopiesWhole
    <3> QED BY <2>2, <3>2, ErrorTextsRight DEF BuffersKept
  <2>3. CASE Numbers \/ Compares \/ Searches \/ Paths \/ Accesses
    <3>1. call'.fn \notin {"dup", "ndup", "cat", "strerror", "dlerror"}
      BY <2>3, NumbersAreRight, ComparesAreRight, SearchesAreRight, CallKinds
    <3> QED BY <3>1 DEF BuffersKept, CopiesWhole, ErrorTextFits
  <2>4. CASE UNCHANGED call
    BY <2>4 DEF BuffersKept, CopiesWhole, ErrorTextFits
  <2> QED BY <2>1, <2>2, <2>3, <2>4 DEF TextNext
<1> QED BY <1>1, <1>2, PTL DEF TextSpec

-----------------------------------------------------------------------------
(* Numbers in UTF-8 are decoded as they are encoded.                       *)

(* One turn of the loop over the bytes that follow the first.              *)
More(v, b) == IF v = Invalid \/ b < 128 THEN Invalid ELSE v * 64 + (b % 64)

LEMMA TailUnrolled ==
  ASSUME NEW s, NEW p, NEW u, NEW len \in 1..3,
         NEW v1, v1 = More(u, s[p + 1]),
         NEW v2, v2 = More(v1, s[p + 2]),
         NEW v3, v3 = More(v2, s[p + 3])
  PROVE  Tail6(s, p, u, len) = IF len = 1 THEN v1 ELSE IF len = 2 THEN v2 ELSE v3
<1> DEFINE Def(f) == [k \in 0..len |-> IF k = 0 THEN u ELSE More(f[k - 1], s[p + k])]
           g == [k \in 0..len |-> IF k = 0 THEN u ELSE IF k = 1 THEN v1 ELSE IF k = 2 THEN v2 ELSE v3]
           w == CHOOSE f : f = Def(f)
<1>1. ASSUME NEW k \in 0..len
      PROVE  g[k] = IF k = 0 THEN u ELSE More(g[k - 1], s[p + k])
  <2>1. CASE k = 0
    BY <2>1
  <2>2. CASE k = 1
    <3>1. g[k] = v1 /\ g[k - 1] = u
      BY <2>2
    <3> HIDE DEF g
    <3> QED BY <2>2, <3>1
  <2>3. CASE k = 2
    <3>1. g[k] = v2 /\ g[k - 1] = v1
      BY <2>3
    <3> HIDE DEF g
    <3> QED BY <2>3, <3>1
  <2>4. CASE k = 3
    <3>1. g[k] = v3 /\ g[k - 1] = v2
      BY <2>4
    <3> HIDE DEF g
    <3> QED BY <2>4, <3>1
  <2>5. k = 0 \/ k = 1 \/ k = 2 \/ k = 3
    OBVIOUS
  <2> HIDE DEF g
  <2> QED BY <2>1, <2>2, <2>3, <2>4, <2>5
<1>2. g = Def(g)
  <2>1. g = [k \in 0..len |-> g[k]]
    OBVIOUS
  <2> HIDE DEF g
  <2> QED BY <1>1, <2>1
<1>3. w = Def(w)
  <2> HIDE DEF Def, g
  <2> QED BY <1>2
<1>4. Tail6(s, p, u, len) = w[len]
  BY DEF Tail6, More
<1> HIDE DEF w, g
<1>5. \A k \in 0..len : w[k] = IF k = 0 THEN u ELSE More(w[k - 1], s[p + k])
  BY <1>3
<1>6. w[0] = u /\ w[1] = v1
  <2>1. 0 \in 0..len /\ 1 \in 0..len /\ 1 - 1 = 0
    OBVIOUS
  <2>2. w[0] = u
    BY <1>5, <2>1
  <2>3. w[1] = More(w[1 - 1], s[p + 1])
    BY <1>5, <2>1
  <2> QED BY <2>1, <2>2, <2>3
<1>7. ASSUME len >= 2 PROVE w[2] = v2
  <2>1. 2 \in 0..len /\ 2 - 1 = 1
    BY <1>7
  <2>2. w[2] = More(w[2 - 1], s[p + 2])
    BY <1>5, <2>1
  <2> QED BY <1>6, <2>1, <2>2
<1>8. ASSUME len = 3 PROVE w[3] = v3
  <2>1. 3 \in 0..len /\ 3 - 1 = 2 /\ len >= 2
    BY <1>8
  <2>2. w[3] = More(w[3 - 1], s[p + 3])
    BY <1>5, <2>1
  <2> QED BY <1>7, <2>1, <2>2
<1>9. len = 1 \/ len = 2 \/ len = 3
  OBVIOUS
<1> HIDE DEF Def
<1> QED BY <1>4, <1>6, <1>7, <1>8, <1>9

LEMMA TailIs ==
  ASSUME NEW s, NEW p, NEW u, NEW len \in 1..3
  PROVE  Tail6(s, p, u, len) =
           IF len = 1 THEN More(u, s[p + 1])
           ELSE IF len = 2 THEN More(More(u, s[p + 1]), s[p + 2])
           ELSE More(More(More(u, s[p + 1]), s[p + 2]), s[p + 3])
<1> DEFINE v1 == More(u, s[p + 1])
           v2 == More(v1, s[p + 2])
           v3 == More(v2, s[p + 3])
<1>1. v1 = More(u, s[p + 1]) /\ v2 = More(v1, s[p + 2]) /\ v3 = More(v2, s[p + 3])
  OBVIOUS
<1> HIDE DEF v1, v2, v3
<1>2. Tail6(s, p, u, len) = IF len = 1 THEN v1 ELSE IF len = 2 THEN v2 ELSE v3
  BY <1>1, TailUnrolled
<1> QED BY <1>2 DEF v1, v2, v3

(* What a first byte says.                                                 *)
LEMMA LeadIs ==
  ASSUME NEW b \in 194..255
  PROVE  /\ Lead(b).u \in 0..31 /\ Lead(b).len \in 1..3 /\ Lead(b).valid \in {127, 2047, 65535}
         /\ b >= 240 => Lead(b) = [u |-> b % 8, len |-> 3, valid |-> 65535]
         /\ b \in 224..239 => Lead(b) = [u |-> b % 16, len |-> 2, valid |-> 2047]
         /\ b < 224 => Lead(b) = [u |-> b % 32, len |-> 1, valid |-> 127]
BY SMT DEF Lead

(* A byte that continues a number is not below 128.                        *)
LEMMA MoreTaken ==
  ASSUME NEW v \in Nat, NEW x \in 0..255, More(v, x) # Invalid
  PROVE  x \in 128..255 /\ More(v, x) \in Nat
<1>1. ~ (x < 128) /\ More(v, x) = v * 64 + (x % 64)
  BY DEF More
<1>2. x % 64 \in 0..63
  OBVIOUS
<1> QED BY <1>1, <1>2

(* The characters that end before the string does: a number that is not    *)
(* too large has been read from bytes of at least 128 only.                *)
LEMMA DecodedIs ==
  ASSUME NEW s, NEW L \in Nat, \A i \in 1..L : s[i] \in 0..255, s[L] = 0,
         NEW p \in 0..(L - 1), s[p + 1] >= 128, ~ (spr_utf8_decode(s, p) > LastPoint)
  PROVE  /\ s[p + 1] \in 194..255
         /\ spr_utf8_decode(s, p) \in 128..LastPoint
         /\ p + 1 + Lead(s[p + 1]).len < L
         /\ \A i \in 1..Lead(s[p + 1]).len : s[p + 1 + i] >= 128
<1> DEFINE b    == s[p + 1]
           n    == spr_utf8_decode(s, p)
           lead == Lead(b)
           q    == p + 1
           v0   == lead.u
           len  == lead.len
           v1   == More(v0, s[q + 1])
           v2   == More(v1, s[q + 2])
           v3   == More(v2, s[q + 3])
           t    == Tail6(s, q, v0, len)
<1>1. q \in 1..L /\ b \in 128..255
  <2>1. q \in 1..L
    OBVIOUS
  <2>2. b \in 0..255 /\ b >= 128
    BY <2>1
  <2> HIDE DEF b
  <2> QED BY <2>1, <2>2
<1>2. Invalid \in Int /\ Invalid > LastPoint /\ LastPoint \in Int /\ LastPoint > 128
  BY SMT DEF Invalid, LastPoint
<1>3. n = IF (IF b < 194 THEN Invalid ELSE t) > lead.valid
          THEN (IF b < 194 THEN Invalid ELSE t) ELSE Invalid
  BY DEF spr_utf8_decode
<1> HIDE DEF n
<1>4. n # Invalid /\ ~ (n > LastPoint)
  BY <1>2 DEF n
<1>5. b \in 194..255 /\ n = t /\ t > lead.valid /\ t # Invalid
  BY SMTT(30), <1>1, <1>3, <1>4
<1>6. v0 \in 0..31 /\ len \in 1..3 /\ lead.valid \in {127, 2047, 65535}
  BY <1>5, LeadIs
<1> HIDE DEF b, lead, v0, len, t
<1>7. t = IF len = 1 THEN v1 ELSE IF len = 2 THEN v2 ELSE v3
  BY <1>6, TailIs DEF t
<1>8. /\ v2 # Invalid => v1 # Invalid
      /\ v3 # Invalid => v2 # Invalid
  <2> HIDE DEF v1
  <2>1. v2 # Invalid => v1 # Invalid
    BY DEF More
  <2> HIDE DEF v2
  <2>2. v3 # Invalid => v2 # Invalid
    BY DEF More
  <2> QED BY <2>1, <2>2
<1>9. v1 # Invalid
  <2> HIDE DEF v1, v2, v3
  <2> QED BY <1>5, <1>6, <1>7, <1>8
<1>10. q < L /\ q + 1 \in 1..L /\ s[q + 1] \in 128..255 /\ v1 \in Nat
  <2>1. q < L
    BY <1>1 DEF b
  <2>2. q + 1 \in 1..L /\ s[q + 1] \in 0..255
    BY <1>1, <2>1
  <2>3. v0 \in Nat
    BY <1>6
  <2>4. s[q + 1] \in 128..255 /\ v1 \in Nat
    BY ZenonT(60), <1>9, <2>2, <2>3, MoreTaken
  <2> QED BY <2>1, <2>2, <2>4
<1>11. ASSUME len >= 2
       PROVE  q + 1 < L /\ q + 2 \in 1..L /\ s[q + 2] \in 128..255 /\ v2 \in Nat
  <2>1. v2 # Invalid
    <3> HIDE DEF v1, v2, v3
    <3> QED BY <1>5, <1>6, <1>7, <1>8, <1>11
  <2>2. q + 1 < L
    BY <1>10
  <2>3. q + 2 \in 1..L /\ s[q + 2] \in 0..255
    BY <1>1, <2>2
  <2> HIDE DEF v1
  <2>4. s[q + 2] \in 128..255 /\ v2 \in Nat
    BY ZenonT(60), <1>10, <2>1, <2>3, MoreTaken
  <2> QED BY <2>2, <2>3, <2>4
<1>12. ASSUME len = 3
       PROVE  q + 2 < L /\ q + 3 \in 1..L /\ s[q + 3] \in 128..255 /\ v3 \in Nat
  <2>1. v3 # Invalid
    <3> HIDE DEF v1, v2, v3
    <3> QED BY <1>5, <1>6, <1>7, <1>12
  <2>2. q + 2 < L /\ v2 \in Nat
    <3> HIDE DEF v1, v2
    <3> QED BY <1>6, <1>11, <1>12
  <2>3. q + 3 \in 1..L /\ s[q + 3] \in 0..255
    BY <1>1, <2>2
  <2> HIDE DEF v1, v2
  <2>4. s[q + 3] \in 128..255 /\ v3 \in Nat
    BY ZenonT(60), <2>1, <2>2, <2>3, MoreTaken
  <2> QED BY <2>2, <2>3, <2>4
<1> HIDE DEF v1, v2, v3
<1>13. t \in Nat
  BY <1>6, <1>7, <1>10, <1>11, <1>12
<1>14. n \in 128..LastPoint
  BY <1>2, <1>4, <1>5, <1>6, <1>13
<1>15. q + len < L
  <2>1. len = 3 => q + 3 < L
    <3>1. ASSUME len = 3 PROVE q + 3 < L
      <4>1. q + 3 \in 1..L /\ s[q + 3] >= 128 /\ s[L] = 0
        BY <1>12, <3>1
      <4>2. q + 3 # L
        BY <4>1
      <4> QED BY <4>1, <4>2
    <3> QED BY <3>1
  <2>2. len = 2 => q + 2 < L
    <3>1. ASSUME len = 2 PROVE q + 2 < L
      <4>1. q + 2 \in 1..L /\ s[q + 2] >= 128 /\ s[L] = 0
        BY <1>11, <3>1
      <4>2. q + 2 # L
        BY <4>1
      <4> QED BY <4>1, <4>2
    <3> QED BY <3>1
  <2>3. q + 1 < L
    <3>1. q + 1 \in 1..L /\ s[q + 1] >= 128 /\ s[L] = 0
      BY <1>10
    <3>2. q + 1 # L
      BY <3>1
    <3> QED BY <3>1, <3>2
  <2> HIDE DEF q
  <2> QED BY <1>6, <2>1, <2>2, <2>3
<1>16. \A i \in 1..len : s[q + i] >= 128
  <2> TAKE i \in 1..len
  <2>1. i = 1 \/ (i = 2 /\ len >= 2) \/ (i = 3 /\ len = 3)
    BY <1>6
  <2>2. CASE i = 1
    BY <1>10, <2>2
  <2>3. CASE i = 2 /\ len >= 2
    BY <1>11, <2>3
  <2>4. CASE i = 3 /\ len = 3
    BY <1>12, <2>4
  <2> QED BY <2>1, <2>2, <2>3, <2>4
<1> QED BY <1>5, <1>14, <1>15, <1>16 DEF b, n, len, lead

(* The parts of a number in UTF-8.                                         *)
LEMMA Sixths ==
  ASSUME NEW c \in Nat
  PROVE  /\ c \div 64 \in Nat /\ c % 64 \in 0..63 /\ (c \div 64) * 64 + (c % 64) = c
         /\ (c \div 64) \div 64 = c \div 4096
         /\ (c \div 4096) \div 64 = c \div 262144
BY SMT

LEMMA TwoBytes ==
  ASSUME NEW c \in Nat, 128 <= c, c < 2048
  PROVE  c \div 64 \in 2..31 /\ (192 + (c \div 64)) % 32 = c \div 64
BY SMT

LEMMA ThreeBytes ==
  ASSUME NEW c \in Nat, 2048 <= c, c < 65536
  PROVE  c \div 4096 \in 0..15 /\ (224 + (c \div 4096)) % 16 = c \div 4096
BY SMT

LEMMA FourBytes ==
  ASSUME NEW c \in Nat, 65536 <= c, c <= LastPoint
  PROVE  c \div 262144 \in 0..4 /\ (240 + (c \div 262144)) % 8 = c \div 262144
BY SMT DEF LastPoint

LEMMA LastPointIs == LastPoint \in Nat /\ LastPoint < Invalid /\ Invalid \in Nat
BY SMT DEF LastPoint, Invalid

LEMMA MoreGives ==
  ASSUME NEW v \in Nat, v <= LastPoint, NEW b \in 128..191
  PROVE  More(v, b) = v * 64 + (b - 128)
<1>1. b % 64 = b - 128 /\ ~ (b < 128)
  BY SMT
<1>2. v # Invalid
  BY LastPointIs
<1> QED BY <1>1, <1>2 DEF More

LEMMA LeadLength == \A b \in 194..255 : Lead(b).len \in 1..3
BY LeadIs

LEMMA DecodesUtf8 ==
  ASSUME NEW c \in 128..LastPoint, NEW s, NEW p \in Nat,
         \A i \in 1..Len(Utf8(c)) : s[p + i] = Utf8(c)[i]
  PROVE  /\ spr_utf8_decode(s, p) = c /\ s[p + 1] \in 194..255
         /\ Lead(s[p + 1]).len = Len(Utf8(c)) - 1
<1> DEFINE b == s[p + 1]
           x2 == s[p + 1 + 1]
           x3 == s[p + 1 + 2]
           x4 == s[p + 1 + 3]
           e2 == c % 64
           e3 == (c \div 64) % 64
           e4 == (c \div 4096) % 64
           v1 == More(Lead(b).u, x2)
           v2 == More(v1, x3)
           v3 == More(v2, x4)
           t  == Tail6(s, p + 1, Lead(b).u, Lead(b).len)
<1>1. p + 1 + 1 = p + 2 /\ p + 1 + 2 = p + 3 /\ p + 1 + 3 = p + 4
  OBVIOUS
<1>2. c \in Nat /\ c <= LastPoint /\ c >= 128
  BY LastPointIs
<1>3. e2 \in 0..63 /\ e3 \in 0..63 /\ e4 \in 0..63
  BY <1>2, SMT
<1> HIDE DEF b, e2, e3, e4
<1>4. ASSUME b \in 194..255
      PROVE  t = IF Lead(b).len = 1 THEN v1 ELSE IF Lead(b).len = 2 THEN v2 ELSE v3
  <2> DEFINE len == Lead(b).len
             v0  == Lead(b).u
             q   == p + 1
             y2  == s[q + 1]
             y3  == s[q + 2]
             y4  == s[q + 3]
  <2>1. len \in 1..3
    BY ONLY <1>4, LeadLength
  <2> HIDE DEF len, v0, q
  <2>2. Tail6(s, q, v0, len) =
          IF len = 1 THEN More(v0, y2)
          ELSE IF len = 2 THEN More(More(v0, y2), y3) ELSE More(More(More(v0, y2), y3), y4)
    BY ONLY <2>1, TailIs
  <2>3. t = Tail6(s, q, v0, len) /\ x2 = y2 /\ x3 = y3 /\ x4 = y4
    BY DEF t, q, v0, len
  <2> HIDE DEF x2, x3, x4, y2, y3, y4, t
  <2> QED BY <2>2, <2>3 DEF len, v0
<1> HIDE DEF t
<1>5. ASSUME b \in 194..255, t = c, c > Lead(b).valid PROVE spr_utf8_decode(s, p) = c
  <2>1. ~ (b < 194)
    BY <1>5
  <2>2. (IF b < 194 THEN Invalid ELSE t) = c
    BY <1>5, <2>1
  <2> QED BY <1>5, <2>2 DEF spr_utf8_decode, t, b
<1> USE DEF b, e2, e3, e4, t
<1>6. CASE c < 2048
  <2> DEFINE d == c \div 64
  <2>1. Utf8(c) = <<192 + d, 128 + e2>>
    BY <1>2, <1>6 DEF Utf8
  <2>2. d \in 2..31 /\ (192 + d) % 32 = d /\ d * 64 + e2 = c
    BY <1>2, <1>6, TwoBytes, Sixths
  <2> HIDE DEF d, e2
  <2>3. Len(Utf8(c)) = 2 /\ b = 192 + d /\ x2 = 128 + e2
    BY <1>1, <2>1
  <2> HIDE DEF b, x2
  <2>4. b \in 194..223 /\ x2 \in 128..191 /\ d \in Nat /\ d <= LastPoint
    <3>1. b \in 194..223 /\ d \in Nat
      BY <2>2, <2>3
    <3>2. x2 \in 128..191
      BY <1>3, <2>3
    <3>3. d <= c
      BY <1>2, <1>3, <2>2
    <3> QED BY <1>2, <3>1, <3>2, <3>3, LastPointIs
  <2>5. Lead(b).u = d /\ Lead(b).len = 1 /\ Lead(b).valid = 127
    BY <2>2, <2>3, <2>4, LeadIs
  <2>6. v1 = d * 64 + (x2 - 128)
    <3>1. More(d, x2) = d * 64 + (x2 - 128)
      BY <2>4, MoreGives
    <3> QED BY <2>5, <3>1
  <2> HIDE DEF v1, v2, v3, t
  <2>7. v1 = c
    BY <1>3, <2>2, <2>3, <2>6
  <2>8. t = c
    BY <1>4, <2>4, <2>5, <2>7
  <2>9. c > Lead(b).valid /\ b \in 194..255 /\ Lead(b).len = Len(Utf8(c)) - 1
    BY <1>2, <2>3, <2>4, <2>5
  <2> QED BY <1>5, <2>8, <2>9 DEF b
<1>7. CASE 2048 <= c /\ c < 65536
  <2> DEFINE d == c \div 4096
             k == c \div 64
  <2>1. Utf8(c) = <<224 + d, 128 + e3, 128 + e2>>
    BY <1>2, <1>7, SMT DEF Utf8
  <2>2. d \in 0..15 /\ (224 + d) % 16 = d
    BY <1>2, <1>7, ThreeBytes
  <2>3. d * 64 + e3 = k /\ k * 64 + e2 = c /\ k \in Nat
    <3>1. k \in Nat /\ k * 64 + e2 = c /\ k \div 64 = d
      BY <1>2, Sixths
    <3>2. (k \div 64) * 64 + (k % 64) = k
      BY <3>1, Sixths
    <3> QED BY <3>1, <3>2
  <2> HIDE DEF d, k, e2, e3
  <2>4. Len(Utf8(c)) = 3 /\ b = 224 + d /\ x2 = 128 + e3 /\ x3 = 128 + e2
    BY <1>1, <2>1
  <2> HIDE DEF b, x2, x3
  <2>5. /\ b \in 224..239 /\ x2 \in 128..191 /\ x3 \in 128..191
        /\ d \in Nat /\ d <= k /\ k <= c
    BY <1>2, <1>3, <2>2, <2>3, <2>4
  <2>6. Lead(b).u = d /\ Lead(b).len = 2 /\ Lead(b).valid = 2047
    BY <2>2, <2>4, <2>5, LeadIs
  <2>7. d <= LastPoint /\ k <= LastPoint
    BY <1>2, <2>3, <2>5, LastPointIs
  <2>8. v1 = d * 64 + (x2 - 128)
    <3>1. More(d, x2) = d * 64 + (x2 - 128)
      BY <2>5, <2>7, MoreGives
    <3> QED BY <2>6, <3>1
  <2> HIDE DEF v1
  <2>9. v1 = k
    BY <1>3, <2>3, <2>4, <2>5, <2>8
  <2>10. v2 = k * 64 + (x3 - 128)
    BY ZenonT(60), <2>3, <2>5, <2>7, <2>9, MoreGives
  <2> HIDE DEF v2, v3, t
  <2>11. v2 = c
    BY <1>3, <2>3, <2>4, <2>10
  <2>12. t = c
    BY <1>4, <2>5, <2>6, <2>11
  <2>13. c > Lead(b).valid /\ b \in 194..255 /\ Lead(b).len = Len(Utf8(c)) - 1
    BY <1>2, <1>7, <2>4, <2>5, <2>6, SMT
  <2> QED BY <1>5, <2>12, <2>13 DEF b
<1>8. CASE 65536 <= c
  <2> DEFINE d == c \div 262144
             k == c \div 64
             l == c \div 4096
  <2>1. Utf8(c) = <<240 + d, 128 + e4, 128 + e3, 128 + e2>>
    BY <1>2, <1>8, SMT DEF Utf8
  <2>2. d \in 0..4 /\ (240 + d) % 8 = d
    BY <1>2, <1>8, FourBytes
  <2>3. d * 64 + e4 = l /\ l * 64 + e3 = k /\ k * 64 + e2 = c /\ k \in Nat /\ l \in Nat
    <3>1. k \in Nat /\ k * 64 + e2 = c /\ k \div 64 = l /\ l \div 64 = d
      BY <1>2, Sixths
    <3>2. (k \div 64) * 64 + (k % 64) = k /\ k \div 64 \in Nat
      BY <3>1, Sixths
    <3>3. (l \div 64) * 64 + (l % 64) = l
      BY <3>1, <3>2, Sixths
    <3> QED BY <3>1, <3>2, <3>3
  <2> HIDE DEF d, k, l, e2, e3, e4
  <2>4. Len(Utf8(c)) = 4 /\ b = 240 + d /\ x2 = 128 + e4 /\ x3 = 128 + e3 /\ x4 = 128 + e2
    BY <1>1, <2>1
  <2> HIDE DEF b, x2, x3, x4
  <2>5. /\ b \in 240..244 /\ x2 \in 128..191 /\ x3 \in 128..191 /\ x4 \in 128..191
        /\ d \in Nat /\ d <= l /\ l <= k /\ k <= c
    BY <1>2, <1>3, <2>2, <2>3, <2>4
  <2>6. Lead(b).u = d /\ Lead(b).len = 3 /\ Lead(b).valid = 65535
    BY <2>2, <2>4, <2>5, LeadIs, SMT
  <2>7. d <= LastPoint /\ l <= LastPoint /\ k <= LastPoint
    BY <1>2, <2>3, <2>5, LastPointIs
  <2>8. v1 = d * 64 + (x2 - 128)
    <3>1. More(d, x2) = d * 64 + (x2 - 128)
      BY <2>5, <2>7, MoreGives
    <3> QED BY <2>6, <3>1
  <2> HIDE DEF v1
  <2>9. v1 = l
    BY <1>3, <2>3, <2>4, <2>5, <2>8
  <2>10. v2 = l * 64 + (x3 - 128)
    BY ZenonT(60), <2>3, <2>5, <2>7, <2>9, MoreGives
  <2> HIDE DEF v2
  <2>11. v2 = k
    BY <1>3, <2>3, <2>4, <2>10
  <2>12. v3 = k * 64 + (x4 - 128)
    BY ZenonT(60), <2>3, <2>5, <2>7, <2>11, MoreGives
  <2> HIDE DEF v3, t
  <2>13. v3 = c
    BY <1>3, <2>3, <2>4, <2>12
  <2>14. t = c
    BY <1>4, <2>5, <2>6, <2>13
  <2>15. c > Lead(b).valid /\ b \in 194..255 /\ Lead(b).len = Len(Utf8(c)) - 1
    BY <1>2, <1>8, <2>4, <2>5, <2>6, SMT
  <2> QED BY <1>5, <2>14, <2>15 DEF b
<1> QED BY <1>2, <1>6, <1>7, <1>8, SMT

-----------------------------------------------------------------------------
(* The turns of the loop of spr_path_to_wchar.                             *)

(* The ASCII characters among the first characters of a sequence.          *)
Picked(f, s, n) ==
  /\ f[0] = <<>>
  /\ \A i \in 1..n : f[i] = IF s[i] < 128 THEN Append(f[i - 1], s[i]) ELSE f[i - 1]

LEMMA AsciiIs ==
  ASSUME NEW s, NEW n \in Nat, Len(s) = n, \A i \in 1..n : s[i] \in Int
  PROVE  \E f \in [0..n -> Seq(Int)] : Picked(f, s, n) /\ Ascii(s) = f[n]
<1> DEFINE Def(f) == [i \in 0..n |->
                        IF i = 0 THEN <<>> ELSE IF s[i] < 128 THEN Append(f[i - 1], s[i]) ELSE f[i - 1]]
           step   == [i \in (0 + 1)..n |->
                        [d \in Seq(Int) |-> IF s[i] < 128 THEN Append(d, s[i]) ELSE d]]
           w      == CHOOSE f : f = Def(f)
<1>1. step \in [(0 + 1)..n -> [Seq(Int) -> Seq(Int)]]
  <2>1. ASSUME NEW i \in (0 + 1)..n, NEW d \in Seq(Int)
        PROVE  (IF s[i] < 128 THEN Append(d, s[i]) ELSE d) \in Seq(Int)
    <3>1. s[i] \in Int
      OBVIOUS
    <3>2. Append(d, s[i]) \in Seq(Int)
      BY <3>1, AppendProperties
    <3> QED BY <3>2
  <2> QED BY <2>1
<1>2. PICK f \in [0..n -> Seq(Int)] : Follows(0, n, f, <<>>, step)
  <2> HIDE DEF step
  <2>1. <<>> \in Seq(Int)
    OBVIOUS
  <2> QED BY <1>1, <2>1, RecursionExists
<1>3. f = Def(f)
  <2>1. ASSUME NEW i \in 0..n, i # 0
        PROVE  step[i][f[i - 1]] = IF s[i] < 128 THEN Append(f[i - 1], s[i]) ELSE f[i - 1]
    <3>1. i \in (0 + 1)..n /\ f[i - 1] \in Seq(Int)
      BY <2>1
    <3> QED BY <3>1
  <2>2. f = [i \in 0..n |-> IF i = 0 THEN <<>> ELSE step[i][f[i - 1]]]
    BY <1>2 DEF Follows
  <2> HIDE DEF step
  <2> QED BY <2>1, <2>2
<1>4. w = Def(w)
  <2> HIDE DEF Def
  <2> QED BY <1>3
<1>5. Ascii(s) = w[n]
  BY DEF Ascii
<1> HIDE DEF w
<1>6. /\ w = [i \in 0..n |-> w[i]] /\ w[0] = <<>>
      /\ \A i \in 1..n : w[i] = IF s[i] < 128 THEN Append(w[i - 1], s[i]) ELSE w[i - 1]
  <2>1. \A i \in 0..n :
          w[i] = IF i = 0 THEN <<>> ELSE IF s[i] < 128 THEN Append(w[i - 1], s[i]) ELSE w[i - 1]
    BY <1>4
  <2>2. w = [i \in 0..n |-> w[i]]
    BY <1>4
  <2>3. 0 \in 0..n /\ \A i \in 1..n : i \in 0..n /\ i # 0
    OBVIOUS
  <2> HIDE DEF Def
  <2> QED BY <2>1, <2>2, <2>3
<1> DEFINE S == {i \in 0..n : w[i] \in Seq(Int)}
<1>7. 0 \in S
  <2>1. <<>> \in Seq(Int) /\ 0 \in 0..n
    OBVIOUS
  <2>2. w[0] \in Seq(Int)
    BY <1>6, <2>1
  <2> QED BY <2>1, <2>2
<1>8. ASSUME NEW i \in 0..(n - 1), i \in S PROVE i + 1 \in S
  <2>1. i + 1 \in 1..n /\ (i + 1) - 1 = i /\ w[i] \in Seq(Int) /\ i + 1 \in 0..n
    BY <1>8
  <2>2. s[i + 1] \in Int
    BY <2>1
  <2>3. Append(w[i], s[i + 1]) \in Seq(Int)
    BY <2>1, <2>2, AppendProperties
  <2>4. w[i + 1] = IF s[i + 1] < 128 THEN Append(w[i], s[i + 1]) ELSE w[i]
    BY <1>6, <2>1
  <2> QED BY <2>1, <2>3, <2>4
<1>9. \A i \in 0..n : i \in S
  <2> HIDE DEF S
  <2> QED BY <1>7, <1>8, UpToInduction
<1>10. w \in [0..n -> Seq(Int)]
  BY <1>6, <1>9
<1> QED BY <1>5, <1>6, <1>10 DEF Picked

(* The ASCII characters with one more character.                           *)
LEMMA AsciiNext ==
  ASSUME NEW s \in Seq(Int), NEW x \in Int
  PROVE  Ascii(Append(s, x)) = IF x < 128 THEN Append(Ascii(s), x) ELSE Ascii(s)
<1> DEFINE n == Len(s)
           t == Append(s, x)
<1>1. n \in Nat /\ \A i \in 1..n : s[i] \in Int
  OBVIOUS
<1>2. Len(t) = n + 1 /\ t[n + 1] = x /\ \A i \in 1..n : t[i] = s[i]
  BY AppendProperties
<1> HIDE DEF n, t
<1>3. \A i \in 1..(n + 1) : t[i] \in Int
  BY <1>1, <1>2
<1>4. PICK f \in [0..n -> Seq(Int)] : Picked(f, s, n) /\ Ascii(s) = f[n]
  <2>1. Len(s) = n
    BY DEF n
  <2> QED BY <1>1, <2>1, AsciiIs
<1>5. PICK g \in [0..(n + 1) -> Seq(Int)] : Picked(g, t, n + 1) /\ Ascii(t) = g[n + 1]
  <2>1. n + 1 \in Nat
    BY <1>1
  <2> QED BY <1>2, <1>3, <2>1, AsciiIs
<1> DEFINE S == {i \in 0..n : g[i] = f[i]}
<1>6. 0 \in S
  BY <1>1, <1>4, <1>5 DEF Picked
<1>7. ASSUME NEW i \in 0..(n - 1), i \in S PROVE i + 1 \in S
  <2>1. i + 1 \in 1..n /\ i + 1 \in 1..(n + 1) /\ (i + 1) - 1 = i /\ g[i] = f[i] /\ i + 1 \in 0..n
    BY <1>1, <1>7
  <2>2. f[i + 1] = IF s[i + 1] < 128 THEN Append(f[i], s[i + 1]) ELSE f[i]
    BY <1>4, <2>1 DEF Picked
  <2>3. g[i + 1] = IF t[i + 1] < 128 THEN Append(g[i], t[i + 1]) ELSE g[i]
    BY <1>5, <2>1 DEF Picked
  <2>4. t[i + 1] = s[i + 1]
    BY <1>2, <2>1
  <2> QED BY <2>1, <2>2, <2>3, <2>4
<1>8. \A i \in 0..n : i \in S
  <2> HIDE DEF S
  <2> QED BY <1>1, <1>6, <1>7, UpToInduction
<1>9. g[n] = f[n]
  BY <1>1, <1>8
<1>10. g[n + 1] = IF t[n + 1] < 128 THEN Append(g[n], t[n + 1]) ELSE g[n]
  <2>1. n + 1 \in 1..(n + 1) /\ (n + 1) - 1 = n
    BY <1>1
  <2> QED BY <1>5, <2>1 DEF Picked
<1> QED BY <1>2, <1>4, <1>5, <1>9, <1>10 DEF t

-----------------------------------------------------------------------------
(* Paths that are converted.                                               *)

(* The bytes of a path, L of them with the 0 at their end.                 *)
PathBytes(s, L) ==
  /\ L \in Nat \ {0} /\ Len(s) = L
  /\ s[L] = 0 /\ \A i \in 1..(L - 1) : s[i] \in 1..255

(* The states of the loop.                                                 *)
Start      == [p |-> 0, out |-> <<>>, runs |-> TRUE]
Stopped(c) == [p |-> c.p, out |-> <<>>, runs |-> FALSE]
States(L)  == {c \in [p : Nat, out : Seq(Int), runs : BOOLEAN] : c.runs => c.p < L}

Units(n) ==
  IF n > 65535 THEN <<55296 + ((n - 65536) \div 1024), 56320 + ((n - 65536) % 1024)>> ELSE <<n>>

LEMMA UnitsAre ==
  ASSUME NEW n \in 128..LastPoint
  PROVE  \/ \E x \in Int : Units(n) = <<x>> /\ x >= 128
         \/ \E x, y \in Int : Units(n) = <<x, y>> /\ x >= 128 /\ y >= 128
<1> DEFINE x == 55296 + ((n - 65536) \div 1024)
           y == 56320 + ((n - 65536) % 1024)
<1>0. n \in Nat /\ n >= 128
  BY LastPointIs
<1>1. CASE n > 65535
  <2>1. Units(n) = <<x, y>>
    BY <1>1, SMT DEF Units
  <2>2. x \in Int /\ y \in Int /\ x >= 128 /\ y >= 128
    BY <1>0, <1>1, SMT
  <2> HIDE DEF x, y
  <2> QED BY <2>1, <2>2
<1>2. CASE ~ (n > 65535)
  <2>1. Units(n) = <<n>>
    BY <1>2, SMT DEF Units
  <2> QED BY <1>0, <2>1
<1> QED BY <1>1, <1>2, SMT

(* The three things that a turn does: it gives up, it copies a byte, or it *)
(* writes the units of a character whose bytes it leaves behind.           *)
Turned(s, L, c, outlen, d) ==
  \/ /\ d = Stopped(c)
     /\ Len(c.out) >= outlen \/ s[c.p + 1] >= 128
  \/ /\ Len(c.out) < outlen /\ s[c.p + 1] \in 0..127
     /\ d = [p |-> c.p + 1, out |-> Append(c.out, s[c.p + 1]), runs |-> s[c.p + 1] # 0]
  \/ /\ Len(c.out) + 1 < outlen /\ s[c.p + 1] \in 194..255
     /\ spr_utf8_decode(s, c.p) \in 128..LastPoint
     /\ c.p + 1 + Lead(s[c.p + 1]).len < L
     /\ \A i \in 1..Lead(s[c.p + 1]).len : s[c.p + 1 + i] >= 128
     /\ d = [p |-> c.p + 1 + Lead(s[c.p + 1]).len,
             out |-> c.out \o Units(spr_utf8_decode(s, c.p)), runs |-> TRUE]

LEMMA TurnIs ==
  ASSUME NEW s, NEW L, PathBytes(s, L), NEW c \in States(L), c.runs, NEW outlen \in Nat
  PROVE  Turned(s, L, c, outlen, Turn(s, c, outlen))
<1> DEFINE d    == Turn(s, c, outlen)
           byte == s[c.p + 1]
           n    == spr_utf8_decode(s, c.p)
           l    == Len(c.out)
<1>1. c.p \in 0..(L - 1) /\ l \in Nat /\ c.out \in Seq(Int)
  BY DEF States, PathBytes
<1>2. L \in Nat /\ (\A i \in 1..L : s[i] \in 0..255) /\ s[L] = 0
  <2>1. L \in Nat /\ s[L] = 0 /\ \A i \in 1..(L - 1) : s[i] \in 1..255
    BY DEF PathBytes
  <2>2. ASSUME NEW i \in 1..L PROVE s[i] \in 0..255
    <3>1. CASE i = L
      BY <2>1, <3>1
    <3>2. CASE i # L
      <4>1. i \in 1..(L - 1)
        BY <2>1, <3>2
      <4>2. s[i] \in 1..255
        BY ONLY <2>1, <4>1
      <4> QED BY <4>2
    <3> QED BY <3>1, <3>2
  <2> QED BY <2>1, <2>2
<1>3. byte \in 0..255
  <2>1. c.p + 1 \in 1..L
    BY <1>1, <1>2
  <2> QED BY <1>2, <2>1
<1>4. d = IF l >= outlen THEN Stopped(c)
          ELSE IF byte < 128 THEN [p |-> c.p + 1, out |-> Append(c.out, byte), runs |-> byte # 0]
          ELSE IF l + 1 = outlen \/ n > LastPoint THEN Stopped(c)
          ELSE [p |-> c.p + 1 + Lead(byte).len, out |-> c.out \o Units(n), runs |-> TRUE]
  BY SMT DEF Turn, Units, Stopped
<1>5. ASSUME byte >= 128, ~ (n > LastPoint)
      PROVE  /\ byte \in 194..255 /\ n \in 128..LastPoint
             /\ c.p + 1 + Lead(byte).len < L
             /\ \A i \in 1..Lead(byte).len : s[c.p + 1 + i] >= 128
  <2> DEFINE p == c.p
  <2>1. p \in 0..(L - 1) /\ s[p + 1] = byte /\ s[p + 1] >= 128
        /\ ~ (spr_utf8_decode(s, p) > LastPoint)
    BY <1>1, <1>5
  <2> HIDE DEF p
  <2>2. /\ s[p + 1] \in 194..255
        /\ spr_utf8_decode(s, p) \in 128..LastPoint
        /\ p + 1 + Lead(s[p + 1]).len < L
        /\ \A i \in 1..Lead(s[p + 1]).len : s[p + 1 + i] >= 128
    BY ONLY <1>2, <2>1, DecodedIs
  <2> QED BY <2>1, <2>2 DEF p
<1> HIDE DEF n, l, d, byte
<1>6. CASE l >= outlen
  <2>1. d = Stopped(c)
    BY <1>4, <1>6
  <2> QED BY <1>6, <2>1 DEF l, d, byte, Turned
<1>7. CASE ~ (l >= outlen) /\ byte < 128
  <2>1. l < outlen /\ byte \in 0..127
    BY ONLY <1>1, <1>3, <1>7, outlen \in Nat
  <2>2. d = [p |-> c.p + 1, out |-> Append(c.out, byte), runs |-> byte # 0]
    BY <1>4, <1>7
  <2> QED BY <2>1, <2>2 DEF l, d, byte, Turned
<1>8. CASE ~ (l >= outlen) /\ ~ (byte < 128) /\ (l + 1 = outlen \/ n > LastPoint)
  <2>1. byte >= 128
    BY ONLY <1>3, <1>8
  <2>2. d = Stopped(c)
    BY <1>4, <1>8
  <2> QED BY <2>1, <2>2 DEF l, d, byte, Turned
<1>9. CASE ~ (l >= outlen) /\ ~ (byte < 128) /\ ~ (l + 1 = outlen \/ n > LastPoint)
  <2>1. byte >= 128 /\ l + 1 < outlen
    BY ONLY <1>1, <1>3, <1>9, outlen \in Nat
  <2>2. d = [p |-> c.p + 1 + Lead(byte).len, out |-> c.out \o Units(n), runs |-> TRUE]
    BY <1>4, <1>9
  <2>3. /\ byte \in 194..255 /\ n \in 128..LastPoint
        /\ c.p + 1 + Lead(byte).len < L
        /\ \A i \in 1..Lead(byte).len : s[c.p + 1 + i] >= 128
    BY <1>5, <1>9, <2>1
  <2> QED BY <2>1, <2>2, <2>3 DEF l, n, d, byte, Turned
<1> QED BY <1>6, <1>7, <1>8, <1>9

LEMMA UnitsTyped ==
  ASSUME NEW n \in 128..LastPoint, NEW o \in Seq(Int)
  PROVE  o \o Units(n) \in Seq(Int)
<1>1. Units(n) \in Seq(Int)
  <2>1. CASE \E x \in Int : Units(n) = <<x>> /\ x >= 128
    <3>1. PICK x \in Int : Units(n) = <<x>>
      BY <2>1
    <3>2. <<x>> \in Seq(Int)
      OBVIOUS
    <3> QED BY <3>1, <3>2
  <2>2. CASE \E x, y \in Int : Units(n) = <<x, y>> /\ x >= 128 /\ y >= 128
    <3>1. PICK x, y \in Int : Units(n) = <<x, y>>
      BY <2>2
    <3>2. <<x, y>> \in Seq(Int)
      OBVIOUS
    <3> QED BY <3>1, <3>2
  <2> QED BY <2>1, <2>2, UnitsAre
<1> QED BY <1>1, ConcatProperties

LEMMA StateIf ==
  ASSUME NEW L, NEW d \in [p : Nat, out : Seq(Int), runs : BOOLEAN], d.runs => d.p < L
  PROVE  d \in States(L)
BY DEF States

LEMMA RecordIs ==
  ASSUME NEW p \in Nat, NEW o \in Seq(Int), NEW r \in BOOLEAN,
         NEW d, d = [p |-> p, out |-> o, runs |-> r]
  PROVE  d \in [p : Nat, out : Seq(Int), runs : BOOLEAN] /\ d.p = p /\ d.runs = r
OBVIOUS

LEMMA TurnTyped ==
  ASSUME NEW s, NEW L, PathBytes(s, L), NEW c \in States(L), NEW outlen \in Nat
  PROVE  Turn(s, c, outlen) \in States(L)
<1> DEFINE d    == Turn(s, c, outlen)
           byte == s[c.p + 1]
           n    == spr_utf8_decode(s, c.p)
<1>1. CASE ~ c.runs
  BY <1>1 DEF Turn
<1>2. CASE c.runs
  <2>1. c.p \in Nat /\ c.p < L /\ c.out \in Seq(Int) /\ L \in Nat /\ s[L] = 0
    BY <1>2 DEF States, PathBytes
  <2> SUFFICES d \in States(L)
    OBVIOUS
  <2>7. \/ /\ d = Stopped(c)
           /\ Len(c.out) >= outlen \/ byte >= 128
        \/ /\ Len(c.out) < outlen /\ byte \in 0..127
           /\ d = [p |-> c.p + 1, out |-> Append(c.out, byte), runs |-> byte # 0]
        \/ /\ Len(c.out) + 1 < outlen /\ byte \in 194..255
           /\ n \in 128..LastPoint
           /\ c.p + 1 + Lead(byte).len < L
           /\ \A i \in 1..Lead(byte).len : s[c.p + 1 + i] >= 128
           /\ d = [p |-> c.p + 1 + Lead(byte).len, out |-> c.out \o Units(n), runs |-> TRUE]
    <3>1. Turned(s, L, c, outlen, d)
      BY <1>2, TurnIs
    <3> QED BY <3>1 DEF Turned
  <2>2. byte = s[c.p + 1]
    OBVIOUS
  <2> HIDE DEF d, byte
  <2> HIDE DEF n
  <2>3. CASE d = Stopped(c)
    <3>1. <<>> \in Seq(Int)
      OBVIOUS
    <3>2. d = [p |-> c.p, out |-> <<>>, runs |-> FALSE]
      BY <2>3 DEF Stopped
    <3>3. d \in [p : Nat, out : Seq(Int), runs : BOOLEAN] /\ ~ d.runs
      BY ONLY <2>1, <3>1, <3>2
    <3> QED BY <3>3, StateIf
  <2>4. CASE byte \in 0..127 /\ d = [p |-> c.p + 1, out |-> Append(c.out, byte), runs |-> byte # 0]
    <3>1. byte # 0 => c.p + 1 < L
      <4>1. byte # 0 => c.p + 1 # L
        BY <2>1, <2>2
      <4> QED BY <2>1, <4>1
    <3>2. c.p + 1 \in Nat /\ byte \in Int
      BY <2>1, <2>4
    <3>3. Append(c.out, byte) \in Seq(Int)
      BY <2>1, <3>2, AppendProperties
    <3> DEFINE runs == byte # 0
    <3>5. d = [p |-> c.p + 1, out |-> Append(c.out, byte), runs |-> runs] /\ runs \in BOOLEAN
      BY <2>4
    <3> HIDE DEF runs
    <3>6. d \in [p : Nat, out : Seq(Int), runs : BOOLEAN]
      BY ONLY <3>2, <3>3, <3>5, RecordIs
    <3>7. d.runs = runs /\ d.p = c.p + 1
      BY ONLY <3>2, <3>3, <3>5, RecordIs
    <3> QED BY <3>1, <3>6, <3>7, StateIf DEF runs
  <2>5. CASE /\ byte \in 194..255 /\ n \in 128..LastPoint
             /\ c.p + 1 + Lead(byte).len < L
             /\ d = [p |-> c.p + 1 + Lead(byte).len, out |-> c.out \o Units(n), runs |-> TRUE]
    <3>1. c.out \o Units(n) \in Seq(Int)
      BY <2>1, <2>5, UnitsTyped
    <3>2. Lead(byte).len \in 1..3
      BY <2>5, LeadLength
    <3>3. c.p + 1 + Lead(byte).len \in Nat
      BY <2>1, <3>2
    <3>4. d \in [p : Nat, out : Seq(Int), runs : BOOLEAN]
      BY ONLY <2>5, <3>1, <3>3
    <3>5. d.p < L
      BY <2>5
    <3> QED BY <3>4, <3>5, StateIf
  <2>6. d \in States(L)
    BY <2>7, <2>3, <2>4, <2>5
  <2> QED BY <2>6
<1> QED BY <1>1, <1>2 DEF States

(* The turns of the loop.                                                  *)
Turns(w, s, L, outlen) ==
  /\ w[0] = Start
  /\ \A k \in 1..L : w[k] = Turn(s, w[k - 1], outlen)
  /\ \A k \in 0..L : w[k] \in States(L)

LEMMA TurnsExist ==
  ASSUME NEW s, NEW L, PathBytes(s, L), NEW outlen \in Nat
  PROVE  \E w : Turns(w, s, L, outlen) /\ spr_path_to_wchar(s, outlen) = w[L].out
<1> DEFINE Def(f) == [k \in 0..L |-> IF k = 0 THEN Start ELSE Turn(s, f[k - 1], outlen)]
           step   == [k \in (0 + 1)..L |-> [c \in States(L) |-> Turn(s, c, outlen)]]
           w      == CHOOSE f : f = Def(f)
<1>1. L \in Nat /\ L # 0 /\ Len(s) = L
  BY DEF PathBytes
<1>2. Start \in States(L)
  <2>1. <<>> \in Seq(Int) /\ 0 < L /\ 0 \in Nat
    BY <1>1
  <2> QED BY <2>1 DEF Start, States
<1>3. step \in [(0 + 1)..L -> [States(L) -> States(L)]]
  BY TurnTyped
<1>4. PICK f \in [0..L -> States(L)] : Follows(0, L, f, Start, step)
  <2> HIDE DEF step
  <2>1. 0 \in Nat
    OBVIOUS
  <2> QED BY <1>1, <1>2, <1>3, <2>1, RecursionExists
<1>5. f = Def(f)
  <2>1. ASSUME NEW k \in 0..L, k # 0 PROVE step[k][f[k - 1]] = Turn(s, f[k - 1], outlen)
    <3>1. k \in (0 + 1)..L /\ f[k - 1] \in States(L)
      BY <1>1, <2>1
    <3> QED BY <3>1
  <2>2. f = [k \in 0..L |-> IF k = 0 THEN Start ELSE step[k][f[k - 1]]]
    BY <1>4 DEF Follows
  <2> HIDE DEF step
  <2> QED BY <2>1, <2>2
<1>6. w = Def(w)
  <2> HIDE DEF Def
  <2> QED BY <1>5
<1>7. spr_path_to_wchar(s, outlen) = w[L].out
  BY <1>1 DEF spr_path_to_wchar, Start
<1> HIDE DEF w
<1>8. w[0] = Start /\ \A k \in 1..L : w[k] = Turn(s, w[k - 1], outlen)
  <2>1. \A k \in 0..L : w[k] = IF k = 0 THEN Start ELSE Turn(s, w[k - 1], outlen)
    BY <1>6
  <2>2. 0 \in 0..L /\ \A k \in 1..L : k \in 0..L /\ k # 0
    BY <1>1
  <2> HIDE DEF Def
  <2> QED BY <2>1, <2>2
<1> HIDE DEF Def, step
<1> DEFINE S == {k \in 0..L : w[k] \in States(L)}
<1>9. 0 \in S
  BY <1>1, <1>2, <1>8
<1>10. ASSUME NEW k \in 0..(L - 1), k \in S PROVE k + 1 \in S
  <2>1. k + 1 \in 1..L /\ (k + 1) - 1 = k /\ w[k] \in States(L) /\ k + 1 \in 0..L
    BY <1>1, <1>10
  <2>2. w[k + 1] = Turn(s, w[k], outlen)
    BY <1>8, <2>1
  <2> QED BY <2>1, <2>2, TurnTyped
<1>11. \A k \in 0..L : k \in S
  <2> HIDE DEF S
  <2> QED BY <1>1, <1>9, <1>10, UpToInduction
<1> QED BY <1>7, <1>8, <1>11 DEF Turns

(* What has stopped stays as it is.                                        *)
LEMMA TurnsStop ==
  ASSUME NEW s, NEW L \in Nat, NEW outlen, NEW w, Turns(w, s, L, outlen),
         NEW j \in 0..L, ~ w[j].runs
  PROVE  w[L] = w[j]
<1> DEFINE n == L - j
           S == {i \in 0..n : w[j + i] = w[j]}
<1>1. n \in Nat
  OBVIOUS
<1>2. 0 \in S
  BY <1>1
<1>3. ASSUME NEW i \in 0..(n - 1), i \in S PROVE i + 1 \in S
  <2>1. j + (i + 1) \in 1..L /\ (j + (i + 1)) - 1 = j + i /\ i + 1 \in 0..n /\ w[j + i] = w[j]
    BY <1>3
  <2>2. w[j + (i + 1)] = Turn(s, w[j + i], outlen)
    BY <2>1 DEF Turns
  <2>3. Turn(s, w[j], outlen) = w[j]
    BY SMT DEF Turn
  <2> QED BY <2>1, <2>2, <2>3
<1>4. \A i \in 0..n : i \in S
  <2> HIDE DEF S, n
  <2> QED BY <1>1, <1>2, <1>3, UpToInduction
<1>5. n \in S /\ j + n = L
  BY <1>1, <1>4
<1> QED BY <1>5

-----------------------------------------------------------------------------
(* No turn invents an ASCII character.                                     *)

LEMMA ByteIs == \A x \in 1..255 : x \in Int
OBVIOUS

(* Characters that are not ASCII are left out.                             *)
LEMMA PickedSkips ==
  ASSUME NEW f, NEW s, NEW n \in Nat, Picked(f, s, n), NEW p \in 0..n, NEW l \in 0..(n - p),
         \A i \in 1..l : s[p + i] \in Int /\ s[p + i] >= 128
  PROVE  f[p + l] = f[p]
<1> DEFINE S == {i \in 0..l : f[p + i] = f[p]}
<1>1. 0 \in S
  OBVIOUS
<1>2. ASSUME NEW i \in 0..(l - 1), i \in S PROVE i + 1 \in S
  <2>1. /\ p + (i + 1) \in 1..n /\ (p + (i + 1)) - 1 = p + i /\ i + 1 \in 0..l /\ i + 1 \in 1..l
        /\ f[p + i] = f[p]
    BY <1>2
  <2>2. ~ (s[p + (i + 1)] < 128)
    BY <2>1
  <2>3. f[p + (i + 1)] = f[p + i]
    BY <2>1, <2>2 DEF Picked
  <2> QED BY <2>1, <2>3
<1>3. \A i \in 0..l : i \in S
  <2> HIDE DEF S
  <2> QED BY <1>1, <1>2, UpToInduction
<1>4. l \in S
  BY <1>3
<1> QED BY <1>4

LEMMA UnitsAscii ==
  ASSUME NEW n \in 128..LastPoint, NEW o \in Seq(Int)
  PROVE  /\ o \o Units(n) \in Seq(Int)
         /\ Len(o \o Units(n)) \in (Len(o) + 1)..(Len(o) + 2)
         /\ Ascii(o \o Units(n)) = Ascii(o)
<1>1. CASE \E x \in Int : Units(n) = <<x>> /\ x >= 128
  <2>1. PICK x \in Int : Units(n) = <<x>> /\ x >= 128
    BY <1>1
  <2>2. o \o <<x>> = Append(o, x)
    OBVIOUS
  <2>3. Append(o, x) \in Seq(Int) /\ Len(Append(o, x)) = Len(o) + 1
    BY AppendProperties
  <2>4. Ascii(Append(o, x)) = Ascii(o)
    <3>1. ~ (x < 128)
      BY <2>1
    <3> QED BY <3>1, AsciiNext
  <2>5. Len(o) + 1 \in (Len(o) + 1)..(Len(o) + 2)
    OBVIOUS
  <2> QED BY <2>1, <2>2, <2>3, <2>4, <2>5
<1>2. CASE \E x, y \in Int : Units(n) = <<x, y>> /\ x >= 128 /\ y >= 128
  <2>1. PICK x, y \in Int : Units(n) = <<x, y>> /\ x >= 128 /\ y >= 128
    BY <1>2
  <2> DEFINE q == Append(o, x)
  <2>2. o \o <<x, y>> = Append(q, y)
    OBVIOUS
  <2>3. q \in Seq(Int) /\ Len(q) = Len(o) + 1
    BY AppendProperties
  <2>4. Ascii(q) = Ascii(o)
    <3>1. ~ (x < 128)
      BY <2>1
    <3> QED BY <3>1, AsciiNext
  <2> HIDE DEF q
  <2>5. Append(q, y) \in Seq(Int) /\ Len(Append(q, y)) = Len(q) + 1
    BY <2>3, AppendProperties
  <2>6. Ascii(Append(q, y)) = Ascii(q)
    <3>1. ~ (y < 128)
      BY <2>1
    <3> QED BY <2>3, <3>1, AsciiNext
  <2>7. Len(q) + 1 \in (Len(o) + 1)..(Len(o) + 2)
    BY <2>3
  <2> QED BY <2>1, <2>2, <2>4, <2>5, <2>6, <2>7
<1> QED BY <1>1, <1>2, UnitsAre

(* After k turns, for f that gives the ASCII characters of the path: what  *)
(* is written has the ASCII characters of what is read.                    *)
Safe(k, c, f, L, outlen) ==
  /\ c.runs => k <= c.p /\ Len(c.out) <= outlen /\ Ascii(c.out) = f[c.p]
  /\ ~ c.runs => c.out = <<>> \/ (Len(c.out) <= outlen /\ Ascii(c.out) = f[L])

LEMMA SafeNext ==
  ASSUME NEW s, NEW L, PathBytes(s, L), NEW c \in States(L), NEW outlen \in Nat,
         NEW k \in Nat, NEW f, Picked(f, s, L), Safe(k, c, f, L, outlen)
  PROVE  Safe(k + 1, Turn(s, c, outlen), f, L, outlen)
<1> DEFINE d    == Turn(s, c, outlen)
           byte == s[c.p + 1]
           n    == spr_utf8_decode(s, c.p)
           o    == c.out
           p    == c.p
<1> SUFFICES Safe(k + 1, d, f, L, outlen)
  OBVIOUS
<1>1. CASE ~ c.runs
  <2>1. d = c
    BY <1>1 DEF Turn
  <2> HIDE DEF d
  <2> QED BY <1>1, <2>1 DEF Safe
<1>2. CASE c.runs
  <2>1. /\ p \in Nat /\ p < L /\ o \in Seq(Int) /\ L \in Nat /\ s[L] = 0
        /\ \A i \in 1..(L - 1) : s[i] \in 1..255
    BY <1>2 DEF States, PathBytes
  <2>2. k <= p /\ Len(o) <= outlen /\ Ascii(o) = f[p]
    BY <1>2 DEF Safe
  <2>3. Turned(s, L, c, outlen, d)
    BY <1>2, TurnIs
  <2> HIDE DEF d
  <2>4. \/ d = Stopped(c)
        \/ /\ Len(o) < outlen /\ byte \in 0..127
           /\ d = [p |-> p + 1, out |-> Append(o, byte), runs |-> byte # 0]
        \/ /\ Len(o) + 1 < outlen /\ byte \in 194..255
           /\ n \in 128..LastPoint
           /\ p + 1 + Lead(byte).len < L
           /\ \A i \in 1..Lead(byte).len : s[p + 1 + i] >= 128
           /\ d = [p |-> p + 1 + Lead(byte).len, out |-> o \o Units(n), runs |-> TRUE]
    BY <2>3 DEF Turned
  <2>5. f[p + 1] = IF byte < 128 THEN Append(f[p], byte) ELSE f[p]
    <3>1. p + 1 \in 1..L /\ (p + 1) - 1 = p
      BY <2>1
    <3> HIDE DEF p
    <3> QED BY <3>1 DEF Picked, p
  <2>6. byte = s[p + 1]
    OBVIOUS
  <2> HIDE DEF n, o, p, byte
  <2>7. CASE d = Stopped(c)
    <3>1. d.out = <<>> /\ ~ d.runs
      BY <2>7 DEF Stopped
    <3> QED BY <3>1 DEF Safe
  <2>8. CASE /\ Len(o) < outlen /\ byte \in 0..127
             /\ d = [p |-> p + 1, out |-> Append(o, byte), runs |-> byte # 0]
    <3>1. d.p = p + 1 /\ d.out = Append(o, byte) /\ (d.runs <=> byte # 0)
      BY <2>8
    <3>2. byte \in Int /\ byte < 128 /\ Len(Append(o, byte)) = Len(o) + 1
      BY <2>1, <2>8, AppendProperties
    <3>3. Ascii(Append(o, byte)) = Append(Ascii(o), byte)
      BY <2>1, <3>2, AsciiNext
    <3>4. Ascii(d.out) = f[p + 1]
      BY <2>2, <2>5, <3>1, <3>2, <3>3
    <3>5. Len(d.out) <= outlen
      <4>1. Len(o) \in Nat
        BY <2>1
      <4> QED BY <2>8, <3>1, <3>2, <4>1
    <3>6. byte = 0 => p + 1 = L
      <4>1. ASSUME p + 1 # L PROVE byte # 0
        <5>1. p + 1 \in 1..(L - 1)
          BY <2>1, <4>1
        <5>2. s[p + 1] \in 1..255
          BY <2>1, <5>1
        <5> QED BY <2>6, <5>2
      <4> QED BY <4>1
    <3>7. k + 1 <= p + 1
      BY <2>1, <2>2
    <3> QED BY <3>1, <3>4, <3>5, <3>6, <3>7 DEF Safe
  <2>9. CASE /\ Len(o) + 1 < outlen /\ byte \in 194..255
             /\ n \in 128..LastPoint
             /\ p + 1 + Lead(byte).len < L
             /\ \A i \in 1..Lead(byte).len : s[p + 1 + i] >= 128
             /\ d = [p |-> p + 1 + Lead(byte).len, out |-> o \o Units(n), runs |-> TRUE]
    <3> DEFINE l == Lead(byte).len
    <3>1. d.p = p + 1 + l /\ d.out = o \o Units(n) /\ d.runs
      BY <2>9
    <3>2. l \in 1..3
      BY <2>9, LeadLength
    <3>3. /\ Len(o \o Units(n)) \in (Len(o) + 1)..(Len(o) + 2)
          /\ Ascii(o \o Units(n)) = Ascii(o)
      BY <2>1, <2>9, UnitsAscii
    <3>4. f[p + 1] = f[p]
      BY <2>5, <2>9
    <3>5. f[p + 1 + l] = f[p + 1]
      <4>1. p + 1 + l < L /\ \A i \in 1..l : s[p + 1 + i] >= 128
        BY <2>9
      <4> HIDE DEF l
      <4>2. p + 1 \in 0..L /\ l \in 0..(L - (p + 1))
        BY <2>1, <3>2, <4>1
      <4>3. \A i \in 1..l : s[p + 1 + i] \in Int /\ s[p + 1 + i] >= 128
        <5> TAKE i \in 1..l
        <5>1. p + 1 + i \in 1..(L - 1)
          BY <2>1, <3>2, <4>1
        <5>2. s[p + 1 + i] \in 1..255
          BY <2>1, <5>1
        <5> QED BY ONLY <4>1, <5>2, i \in 1..l, ByteIs
      <4> DEFINE q == p + 1
      <4>4. q \in 0..L /\ l \in 0..(L - q) /\ \A i \in 1..l : s[q + i] \in Int /\ s[q + i] >= 128
        BY <4>2, <4>3
      <4> HIDE DEF q
      <4>5. f[q + l] = f[q]
        BY <2>1, <4>4, PickedSkips
      <4> QED BY <4>5 DEF q
    <3>6. Len(d.out) <= outlen
      <4>1. Len(o) \in Nat
        BY <2>1
      <4> QED BY <2>9, <3>1, <3>3, <4>1
    <3>7. k + 1 <= p + 1 + l
      <4> HIDE DEF l
      <4> QED BY <2>1, <2>2, <3>2
    <3>8. Ascii(d.out) = f[d.p]
      BY <2>2, <3>1, <3>3, <3>4, <3>5
    <3> QED BY <3>1, <3>6, <3>7, <3>8 DEF Safe
  <2> QED BY <2>4, <2>7, <2>8, <2>9
<1> QED BY <1>1, <1>2

(* The bytes of a path and the 0 behind them.                              *)
LEMMA PathBytesAre ==
  ASSUME NEW n \in Nat, NEW b, b \in [1..n -> 1..255]
  PROVE  /\ PathBytes(Append(b, 0), n + 1) /\ b \in Seq(Int) /\ Len(b) = n
         /\ \A i \in 1..n : Append(b, 0)[i] = b[i]
<1> DEFINE s == Append(b, 0)
<1>1. b \in Seq(1..255) /\ Len(b) = n
  BY FunIsSeq
<1>2. b \in Seq(Int)
  <2>1. b \in [1..n -> Int]
    BY ByteIs
  <2> QED BY <2>1, FunIsSeq
<1>3. Len(s) = n + 1 /\ s[n + 1] = 0 /\ \A i \in 1..n : s[i] = b[i]
  <2>1. 0 \in Int
    OBVIOUS
  <2> QED BY <1>1, <1>2, <2>1, AppendProperties
<1> HIDE DEF s
<1>4. \A i \in 1..n : s[i] \in 1..255
  BY <1>3
<1>5. n + 1 \in Nat \ {0} /\ (n + 1) - 1 = n
  OBVIOUS
<1>6. PathBytes(s, n + 1)
  BY <1>3, <1>4, <1>5 DEF PathBytes
<1> QED BY <1>1, <1>2, <1>3, <1>6 DEF s

LEMMA BytesSafe ==
  ASSUME NEW n \in Nat, NEW b, b \in [1..n -> 1..255], NEW outlen \in Nat,
         NEW out, out = spr_path_to_wchar(Append(b, 0), outlen), out # <<>>
  PROVE  Len(out) <= outlen /\ Ascii(out) = Append(Ascii(b), 0)
<1> DEFINE s == Append(b, 0)
           L == n + 1
<1>1. PathBytes(s, L) /\ b \in Seq(Int)
  BY PathBytesAre
<1>2. Ascii(s) = Append(Ascii(b), 0)
  BY <1>1, AsciiNext
<1>3. out = spr_path_to_wchar(s, outlen)
  OBVIOUS
<1> HIDE DEF s, L
<1>4. L \in Nat /\ Len(s) = L /\ \A i \in 1..L : s[i] \in Int
  <2>1. L \in Nat /\ Len(s) = L /\ s[L] = 0 /\ \A i \in 1..(L - 1) : s[i] \in 1..255
    BY <1>1 DEF PathBytes
  <2>2. ASSUME NEW i \in 1..L PROVE s[i] \in Int
    <3>1. i = L \/ i \in 1..(L - 1)
      BY <2>1
    <3>2. CASE i = L
      BY <2>1, <3>2
    <3>3. CASE i \in 1..(L - 1)
      <4>1. s[i] \in 1..255
        BY ONLY <2>1, <3>3
      <4> QED BY ONLY <4>1, ByteIs
    <3> QED BY <3>1, <3>2, <3>3
  <2> QED BY <2>1, <2>2
<1>5. PICK f \in [0..L -> Seq(Int)] : Picked(f, s, L) /\ Ascii(s) = f[L]
  BY <1>4, AsciiIs
<1>6. PICK w : Turns(w, s, L, outlen) /\ spr_path_to_wchar(s, outlen) = w[L].out
  BY <1>1, TurnsExist
<1> DEFINE S == {k \in 0..L : Safe(k, w[k], f, L, outlen)}
<1>7. 0 \in S
  <2>1. w[0].p = 0 /\ w[0].out = <<>> /\ w[0].runs
    BY <1>6 DEF Turns, Start
  <2>2. Ascii(<<>>) = <<>>
    <3>1. Len(<<>>) = 0 /\ 0 \in Nat /\ \A i \in 1..0 : <<>>[i] \in Int
      OBVIOUS
    <3>2. PICK g \in [0..0 -> Seq(Int)] : Picked(g, <<>>, 0) /\ Ascii(<<>>) = g[0]
      BY <3>1, AsciiIs
    <3> QED BY <3>2 DEF Picked
  <2>3. f[0] = <<>>
    BY <1>5 DEF Picked
  <2>4. Len(<<>>) = 0 /\ 0 <= outlen /\ 0 \in 0..L
    BY <1>4
  <2>5. Safe(0, w[0], f, L, outlen)
    BY <2>1, <2>2, <2>3, <2>4 DEF Safe
  <2> QED BY <2>4, <2>5
<1>8. ASSUME NEW k \in 0..(L - 1), k \in S PROVE k + 1 \in S
  <2>1. /\ k \in Nat /\ k + 1 \in 1..L /\ (k + 1) - 1 = k /\ k \in 0..L /\ k + 1 \in 0..L
        /\ Safe(k, w[k], f, L, outlen)
    BY <1>4, <1>8
  <2>2. w[k + 1] = Turn(s, w[k], outlen) /\ w[k] \in States(L)
    BY <1>6, <2>1 DEF Turns
  <2>3. Safe(k + 1, w[k + 1], f, L, outlen)
    BY <1>1, <1>5, <2>1, <2>2, SafeNext
  <2> QED BY <2>1, <2>3
<1>9. \A k \in 0..L : k \in S
  <2> HIDE DEF S
  <2> QED BY <1>4, <1>7, <1>8, UpToInduction
<1>10. Safe(L, w[L], f, L, outlen) /\ w[L] \in States(L)
  <2>1. L \in 0..L
    BY <1>4
  <2> QED BY <1>6, <1>9, <2>1 DEF Turns
<1>11. ~ w[L].runs
  <2>1. w[L].runs => w[L].p < L /\ L <= w[L].p /\ w[L].p \in Nat
    BY <1>10 DEF Safe, States
  <2> QED BY <1>4, <2>1
<1> QED BY <1>2, <1>3, <1>5, <1>6, <1>10, <1>11 DEF Safe

-----------------------------------------------------------------------------
(* Characters are written whole.                                           *)

(* The bytes and the units of a character.                                 *)
LEMMA TuplesAre ==
  ASSUME NEW S
  PROVE  /\ \A a \in S : <<a>> \in Seq(S) /\ Len(<<a>>) = 1
         /\ \A a, b \in S : <<a, b>> \in Seq(S) /\ Len(<<a, b>>) = 2
         /\ \A a, b, c \in S : <<a, b, c>> \in Seq(S) /\ Len(<<a, b, c>>) = 3
         /\ \A a, b, c, d \in S : <<a, b, c, d>> \in Seq(S) /\ Len(<<a, b, c, d>>) = 4
OBVIOUS

LEMMA Utf8Typed ==
  ASSUME NEW c \in 1..LastPoint
  PROVE  Utf8(c) \in Seq(1..255) /\ Len(Utf8(c)) \in 1..4
<1> DEFINE S  == 1..255
           e2 == 128 + (c % 64)
           e3 == 128 + ((c \div 64) % 64)
           e4 == 128 + ((c \div 4096) % 64)
<1>1. c \in Nat /\ 1 <= c /\ c <= LastPoint
  BY LastPointIs
<1>2. e2 \in S /\ e3 \in S /\ e4 \in S
  BY <1>1, SMT
<1>3. CASE c < 128
  <2>1. Utf8(c) = <<c>>
    BY <1>3, SMT DEF Utf8
  <2>2. c \in S
    BY <1>1, <1>3, SMT
  <2> HIDE DEF S
  <2>3. Utf8(c) \in Seq(S) /\ Len(Utf8(c)) = 1
    BY <2>1, <2>2, TuplesAre
  <2> QED BY <2>3 DEF S
<1>4. CASE ~ (c < 128) /\ c < 2048
  <2> DEFINE d == 192 + (c \div 64)
  <2>1. Utf8(c) = <<d, e2>>
    BY <1>4, SMT DEF Utf8
  <2>2. d \in S
    BY <1>1, <1>4, SMT
  <2> HIDE DEF S, d, e2
  <2>3. Utf8(c) \in Seq(S) /\ Len(Utf8(c)) = 2
    BY <1>2, <2>1, <2>2, TuplesAre
  <2> QED BY <2>3 DEF S
<1>5. CASE ~ (c < 128) /\ ~ (c < 2048) /\ c < 65536
  <2> DEFINE d == 224 + (c \div 4096)
  <2>1. Utf8(c) = <<d, e3, e2>>
    BY <1>5, SMT DEF Utf8
  <2>2. d \in S
    BY <1>1, <1>5, SMT
  <2> HIDE DEF S, d, e2, e3
  <2>3. Utf8(c) \in Seq(S) /\ Len(Utf8(c)) = 3
    BY <1>2, <2>1, <2>2, TuplesAre
  <2> QED BY <2>3 DEF S
<1>6. CASE ~ (c < 128) /\ ~ (c < 2048) /\ ~ (c < 65536)
  <2> DEFINE d == 240 + (c \div 262144)
  <2>1. Utf8(c) = <<d, e4, e3, e2>>
    BY <1>6, SMT DEF Utf8
  <2>2. d \in S
    <3>1. c \div 262144 \in 0..4
      BY <1>1, <1>6, FourBytes, SMT
    <3> QED BY <3>1, SMT
  <2> HIDE DEF S, d, e2, e3, e4
  <2>3. Utf8(c) \in Seq(S) /\ Len(Utf8(c)) = 4
    BY <1>2, <2>1, <2>2, TuplesAre
  <2> QED BY <2>3 DEF S
<1> QED BY <1>3, <1>4, <1>5, <1>6, SMT

LEMMA Utf16Typed ==
  ASSUME NEW c \in 1..LastPoint
  PROVE  /\ Utf16(c) \in Seq(Int) /\ Len(Utf16(c)) \in 1..2
         /\ c >= 128 => Utf16(c) = Units(c)
<1> DEFINE x == 55232 + (c \div 1024)
           y == 56320 + (c % 1024)
<1>1. c \in Nat /\ 1 <= c /\ x \in Int /\ y \in Int
  BY LastPointIs, SMT
<1>2. CASE c < 65536
  <2>1. Utf16(c) = <<c>> /\ Units(c) = <<c>>
    BY <1>1, <1>2, SMT DEF Utf16, Units
  <2>2. <<c>> \in Seq(Int) /\ Len(<<c>>) = 1
    BY <1>1
  <2> QED BY <2>1, <2>2
<1>3. CASE ~ (c < 65536)
  <2>1. Utf16(c) = <<x, y>>
    BY <1>3, SMT DEF Utf16
  <2>2. x = 55296 + ((c - 65536) \div 1024) /\ y = 56320 + ((c - 65536) % 1024)
    BY <1>1, <1>3, SMT
  <2>3. Units(c) = <<55296 + ((c - 65536) \div 1024), 56320 + ((c - 65536) % 1024)>>
    BY <1>1, <1>3, SMT DEF Units
  <2> HIDE DEF x, y
  <2>4. Utf16(c) = Units(c)
    BY <2>1, <2>2, <2>3, SMT
  <2>5. <<x, y>> \in Seq(Int) /\ Len(<<x, y>>) = 2
    BY <1>1
  <2> QED BY <2>1, <2>4, <2>5
<1> QED BY <1>2, <1>3, SMT

(* A turn of the loop that has not ended.                                  *)
LEMMA RunningTurn ==
  ASSUME NEW s, NEW p \in Nat, NEW o \in Seq(Int), NEW outlen \in Nat
  PROVE  Turn(s, [p |-> p, out |-> o, runs |-> TRUE], outlen) =
           IF Len(o) >= outlen THEN [p |-> p, out |-> <<>>, runs |-> FALSE]
           ELSE IF s[p + 1] < 128
           THEN [p |-> p + 1, out |-> Append(o, s[p + 1]), runs |-> s[p + 1] # 0]
           ELSE IF Len(o) + 1 = outlen \/ spr_utf8_decode(s, p) > LastPoint
           THEN [p |-> p, out |-> <<>>, runs |-> FALSE]
           ELSE [p |-> p + 1 + Lead(s[p + 1]).len, out |-> o \o Units(spr_utf8_decode(s, p)),
                 runs |-> TRUE]
BY SMT DEF Turn, Units

(* A turn at the first byte of a character.                                *)
CharTurned(d, p, o, c, outlen) ==
  \/ /\ d = [p |-> p + Len(Utf8(c)), out |-> o \o Utf16(c), runs |-> TRUE]
     /\ Len(o) + Len(Utf16(c)) <= outlen
  \/ ~ d.runs /\ d.out = <<>> /\ outlen <= Len(o) + Len(Utf16(c))

LEMMA CharTurn ==
  ASSUME NEW s, NEW p \in Nat, NEW o \in Seq(Int), NEW outlen \in Nat, Len(o) <= outlen,
         NEW c \in 1..LastPoint, \A i \in 1..Len(Utf8(c)) : s[p + i] = Utf8(c)[i],
         NEW d, d = Turn(s, [p |-> p, out |-> o, runs |-> TRUE], outlen)
  PROVE  CharTurned(d, p, o, c, outlen)
<1> USE DEF CharTurned
<1> DEFINE byte == s[p + 1]
           n    == spr_utf8_decode(s, p)
           l    == Len(o)
           null == [p |-> p, out |-> <<>>, runs |-> FALSE]
           u    == Len(Utf16(c))
<1>1. l \in Nat /\ l <= outlen /\ u \in 1..2
  BY Utf16Typed
<1>2. d = IF l >= outlen THEN null
          ELSE IF byte < 128 THEN [p |-> p + 1, out |-> Append(o, byte), runs |-> byte # 0]
          ELSE IF l + 1 = outlen \/ n > LastPoint THEN null
          ELSE [p |-> p + 1 + Lead(byte).len, out |-> o \o Units(n), runs |-> TRUE]
  BY ONLY d = Turn(s, [p |-> p, out |-> o, runs |-> TRUE], outlen),
          p \in Nat, o \in Seq(Int), outlen \in Nat, RunningTurn
<1>3. null.out = <<>> /\ ~ null.runs
  OBVIOUS
<1>4. c \in Nat /\ 1 <= c /\ c <= LastPoint
  BY LastPointIs
<1>5. CASE c < 128
  <2>1. Utf8(c) = <<c>> /\ Utf16(c) = <<c>>
    BY <1>4, <1>5, SMT DEF Utf8, Utf16
  <2>2. byte = c /\ u = 1 /\ Len(Utf8(c)) = 1
    BY <2>1
  <2>3. Append(o, c) = o \o <<c>>
    BY <1>4
  <2>4. byte < 128 /\ byte # 0
    BY <1>4, <1>5, <2>2
  <2> HIDE DEF byte, n, l, null, u
  <2>5. CASE l >= outlen
    <3>1. d = null /\ outlen <= l + u
      BY <1>1, <1>2, <2>5
    <3> QED BY <1>3, <3>1 DEF l, u
  <2>6. CASE ~ (l >= outlen)
    <3>1. l + u <= outlen
      BY <1>1, <2>2, <2>6
    <3>2. d = [p |-> p + 1, out |-> Append(o, byte), runs |-> byte # 0]
      BY <1>2, <2>4, <2>6
    <3>3. (byte # 0) = TRUE
      BY <2>4
    <3>4. d = [p |-> p + 1, out |-> Append(o, byte), runs |-> TRUE]
      BY ONLY <3>2, <3>3
    <3> QED BY <2>1, <2>2, <2>3, <3>1, <3>4 DEF l, u
  <2> QED BY <2>5, <2>6
<1>6. CASE ~ (c < 128)
  <2>1. c \in 128..LastPoint
    BY <1>4, <1>6, LastPointIs
  <2>2. n = c /\ byte \in 194..255 /\ Lead(byte).len = Len(Utf8(c)) - 1
    BY ZenonT(60), <2>1, DecodesUtf8
  <2>3. Units(n) = Utf16(c)
    BY <1>4, <1>6, <2>2, Utf16Typed
  <2>4. Len(Utf8(c)) \in 1..4
    BY Utf8Typed
  <2> HIDE DEF byte, n, l, null, u
  <2>5. ~ (byte < 128) /\ ~ (n > LastPoint)
    BY <1>4, <2>2, LastPointIs
  <2>6. p + 1 + Lead(byte).len = p + Len(Utf8(c))
    BY <2>2, <2>4
  <2>7. CASE l >= outlen \/ l + 1 = outlen
    <3>1. d = null
      BY <1>2, <2>5, <2>7
    <3>2. outlen <= l + u
      BY <1>1, <2>7
    <3> QED BY <1>3, <3>1, <3>2 DEF l, u
  <2>8. CASE ~ (l >= outlen \/ l + 1 = outlen)
    <3>1. d = [p |-> p + 1 + Lead(byte).len, out |-> o \o Units(n), runs |-> TRUE]
      BY <1>2, <2>5, <2>8
    <3>2. l + u <= outlen
      BY <1>1, <2>8
    <3> QED BY <2>3, <2>6, <3>1, <3>2 DEF l, u
  <2> QED BY <2>7, <2>8
<1> QED BY <1>5, <1>6

(* The turn at the 0.                                                      *)
Ended(d, o, outlen) == ~ d.runs /\ d.out = IF Len(o) < outlen THEN Append(o, 0) ELSE <<>>

LEMMA EndTurn ==
  ASSUME NEW s, NEW p \in Nat, s[p + 1] = 0, NEW o \in Seq(Int), NEW outlen \in Nat,
         NEW d, d = Turn(s, [p |-> p, out |-> o, runs |-> TRUE], outlen)
  PROVE  Ended(d, o, outlen)
<1> USE DEF Ended
<1> DEFINE l    == Len(o)
           byte == s[p + 1]
<1>1. l \in Nat /\ byte < 128 /\ byte = 0
  OBVIOUS
<1>2. d = IF l >= outlen THEN [p |-> p, out |-> <<>>, runs |-> FALSE]
          ELSE IF byte < 128 THEN [p |-> p + 1, out |-> Append(o, byte), runs |-> byte # 0]
          ELSE IF l + 1 = outlen \/ spr_utf8_decode(s, p) > LastPoint
          THEN [p |-> p, out |-> <<>>, runs |-> FALSE]
          ELSE [p |-> p + 1 + Lead(byte).len, out |-> o \o Units(spr_utf8_decode(s, p)), runs |-> TRUE]
  BY ONLY d = Turn(s, [p |-> p, out |-> o, runs |-> TRUE], outlen),
          p \in Nat, o \in Seq(Int), outlen \in Nat, RunningTurn
<1> HIDE DEF l, byte
<1>3. l >= outlen <=> ~ (l < outlen)
  BY <1>1
<1>4. CASE l >= outlen
  <2>1. d = [p |-> p, out |-> <<>>, runs |-> FALSE]
    BY <1>2, <1>4
  <2> QED BY <1>3, <1>4, <2>1 DEF l
<1>5. CASE ~ (l >= outlen)
  <2>1. d = [p |-> p + 1, out |-> Append(o, byte), runs |-> byte # 0]
    BY <1>1, <1>2, <1>5
  <2>2. d.out = Append(o, byte) /\ (d.runs <=> byte # 0)
    BY ONLY <2>1
  <2> QED BY <1>1, <1>3, <1>5, <2>2 DEF l
<1> QED BY <1>4, <1>5

(* Of joined sequences, each one begins with those before it.              *)
JoinedIn(S, m, q, F) ==
  m \in Nat /\ q \in [1..m -> Seq(S)] /\ F \in [0..m -> Seq(S)] /\ Joined(m, q, F)

Lengthened(F, q, k) ==
  /\ F[k + 1] = F[k] \o q[k + 1] /\ Len(F[k + 1]) = Len(F[k]) + Len(q[k + 1])
  /\ \A i \in 1..Len(F[k]) : F[k + 1][i] = F[k][i]
  /\ \A i \in 1..Len(q[k + 1]) : F[k + 1][Len(F[k]) + i] = q[k + 1][i]

Begins(f, g) == Len(f) <= Len(g) /\ \A i \in 1..Len(f) : g[i] = f[i]

LEMMA JoinedNext ==
  ASSUME NEW S, NEW m, NEW q, NEW F, JoinedIn(S, m, q, F), NEW k \in 0..(m - 1)
  PROVE  Lengthened(F, q, k)
<1> DEFINE f == F[k]
           h == q[k + 1]
           g == F[k + 1]
<1>0. m \in Nat
  BY DEF JoinedIn
<1>1. k + 1 \in 1..m /\ (k + 1) - 1 = k /\ k \in 0..m
  BY <1>0
<1>2. g = f \o h
  BY <1>1 DEF JoinedIn, Joined
<1>3. f \in Seq(S) /\ h \in Seq(S)
  BY <1>1 DEF JoinedIn
<1> HIDE DEF f, g, h
<1>4. /\ Len(f \o h) = Len(f) + Len(h)
      /\ \A i \in 1..(Len(f) + Len(h)) : (f \o h)[i] = IF i <= Len(f) THEN f[i] ELSE h[i - Len(f)]
  BY <1>3, ConcatProperties
<1>5. Len(f) \in Nat /\ Len(h) \in Nat
  BY <1>3
<1>6. \A i \in 1..Len(f) : i \in 1..(Len(f) + Len(h)) /\ i <= Len(f)
  BY <1>5
<1>7. \A i \in 1..Len(h) :
        Len(f) + i \in 1..(Len(f) + Len(h)) /\ ~ (Len(f) + i <= Len(f)) /\ (Len(f) + i) - Len(f) = i
  BY <1>5
<1> QED BY <1>2, <1>4, <1>6, <1>7 DEF f, g, h, Lengthened

LEMMA JoinedPrefix ==
  ASSUME NEW S, NEW m, NEW q, NEW F, JoinedIn(S, m, q, F), NEW k \in 0..m
  PROVE  Begins(F[k], F[m])
<1> DEFINE n == m - k
           T == {j \in 0..n : Begins(F[k], F[k + j])}
<1>0. m \in Nat /\ \A j \in 0..m : F[j] \in Seq(S)
  BY DEF JoinedIn
<1>1. n \in Nat /\ k + 0 = k /\ k + n = m /\ \A j \in 0..m : Len(F[j]) \in Nat
  BY <1>0
<1>2. 0 \in T
  <2>1. Begins(F[k], F[k])
    BY <1>1 DEF Begins
  <2> QED BY <1>1, <2>1
<1>3. ASSUME NEW j \in 0..(n - 1), j \in T PROVE j + 1 \in T
  <2> DEFINE a == k + j
             b == a + 1
             x == Len(F[k])
             y == Len(F[a])
             z == Len(F[b])
  <2>1. k + (j + 1) = b /\ j + 1 \in 0..n /\ a \in 0..(m - 1) /\ a \in 0..m /\ b \in 0..m
    BY <1>0, <1>3
  <2>2. Begins(F[k], F[a])
    BY <1>3
  <2> HIDE DEF a
  <2>3. Lengthened(F, q, a)
    BY <2>1, JoinedNext
  <2>4. F[b] = F[a] \o q[b] /\ \A i \in 1..Len(F[a]) : F[b][i] = F[a][i]
    BY <2>3 DEF Lengthened
  <2>5. x \in Nat /\ y \in Nat /\ z \in Nat
    BY <1>1, <2>1
  <2>6. x <= y /\ \A i \in 1..x : F[a][i] = F[k][i]
    BY <2>2 DEF Begins
  <2>7. y <= z
    <3>1. b \in 1..m
      BY <1>0, <2>1
    <3>2. F[a] \in Seq(S) /\ q[b] \in Seq(S)
      BY <2>1, <3>1 DEF JoinedIn
    <3>3. Len(F[a] \o q[b]) = Len(F[a]) + Len(q[b]) /\ Len(q[b]) \in Nat
      BY <3>2, ConcatProperties
    <3>4. z = y + Len(q[b])
      BY <2>4, <3>3
    <3> HIDE DEF y, z
    <3> QED BY ONLY <2>5, <3>3, <3>4
  <2> HIDE DEF b, x, y, z
  <2>8. x <= z
    BY ONLY <2>5, <2>6, <2>7
  <2>9. \A i \in 1..x : F[b][i] = F[k][i]
    <3> TAKE i \in 1..x
    <3>1. i \in 1..y
      BY ONLY <2>5, <2>6, i \in 1..x
    <3>2. F[b][i] = F[a][i]
      BY <2>4, <3>1 DEF y
    <3> QED BY <2>6, <3>2
  <2>10. Begins(F[k], F[b])
    BY <2>8, <2>9 DEF Begins, x, z
  <2> QED BY <2>1, <2>10
<1>4. \A j \in 0..n : j \in T
  <2> HIDE DEF T, n
  <2> QED BY <1>1, <1>2, <1>3, UpToInduction
<1>5. n \in T
  <2> HIDE DEF T, n
  <2> QED BY <1>1, <1>4
<1> QED BY <1>1, <1>5

(* The state after k characters, of which F8 has the bytes, and F16 the    *)
(* units: they are written, or there is no room for them and a 0.          *)
Written(c, f8, f16, outlen) ==
  \/ c = [p |-> Len(f8), out |-> f16, runs |-> TRUE] /\ Len(f16) <= outlen
  \/ ~ c.runs /\ c.out = <<>> /\ outlen <= Len(f16)

(* The characters, the bytes and the units of them, and these with a 0.    *)
Encoded(m, cs, q8, q16, units) ==
  /\ cs \in [1..m -> 1..LastPoint]
  /\ q8 = [i \in 1..m |-> Utf8(cs[i])] /\ q16 = [i \in 1..m |-> Utf16(cs[i])]
  /\ units = Append(FlattenSeq(q16), 0)

LEMMA PathWhole ==
  ASSUME NEW m \in Nat, NEW cs, NEW q8, NEW q16, NEW units, Encoded(m, cs, q8, q16, units),
         NEW outlen \in Nat
  PROVE  spr_path_to_wchar(Append(FlattenSeq(q8), 0), outlen) =
           IF Len(units) <= outlen THEN units ELSE <<>>
<1> USE DEF Encoded
<1>1. q8 \in [1..m -> Seq(1..255)] /\ \A i \in 1..m : Len(q8[i]) \in 1..4 /\ q8[i] = Utf8(cs[i])
  BY Utf8Typed
<1>2. q16 \in [1..m -> Seq(Int)] /\ \A i \in 1..m : q16[i] = Utf16(cs[i])
  BY Utf16Typed
<1> DEFINE Byte == 1..255
<1> HIDE DEF Byte
<1>3. PICK F8 \in [0..m -> Seq(Byte)] : Joined(m, q8, F8) /\ FlattenSeq(q8) = F8[m]
  <2>1. q8 \in [1..m -> Seq(Byte)]
    BY <1>1 DEF Byte
  <2> QED BY <2>1, FlattenIs
<1>4. PICK F16 \in [0..m -> Seq(Int)] : Joined(m, q16, F16) /\ FlattenSeq(q16) = F16[m]
  BY <1>2, FlattenIs
<1>21. JoinedIn(Byte, m, q8, F8) /\ JoinedIn(Int, m, q16, F16)
  <2>1. q8 \in [1..m -> Seq(Byte)]
    BY <1>1 DEF Byte
  <2> QED BY <1>2, <1>3, <1>4, <2>1 DEF JoinedIn
<1> DEFINE b == F8[m]
           s == Append(b, 0)
           N == Len(b)
           L == N + 1
<1>5. N \in Nat /\ b \in [1..N -> 1..255]
  <2>1. b \in Seq(Byte)
    OBVIOUS
  <2> HIDE DEF b
  <2>2. N \in Nat /\ b \in [1..N -> Byte]
    BY <2>1, LenProperties
  <2> QED BY <2>2 DEF Byte
<1>6. PathBytes(s, L) /\ \A i \in 1..N : s[i] = b[i]
  <2> HIDE DEF b, N
  <2> QED BY <1>5, PathBytesAre
<1> HIDE DEF b, s, N
<1>7. PICK w : Turns(w, s, L, outlen) /\ spr_path_to_wchar(s, outlen) = w[L].out
  <2> HIDE DEF L
  <2> QED BY <1>6, TurnsExist
<1>8. ASSUME NEW k \in 0..m
      PROVE  /\ F8[k] \in Seq(Byte) /\ Len(F8[k]) \in Nat /\ Len(F8[k]) <= N
             /\ F16[k] \in Seq(Int) /\ Len(F16[k]) \in Nat
             /\ \A i \in 1..Len(F8[k]) : b[i] = F8[k][i]
  <2>1. F8[k] \in Seq(Byte) /\ Len(F8[k]) \in Nat /\ F16[k] \in Seq(Int) /\ Len(F16[k]) \in Nat
    OBVIOUS
  <2>2. Begins(F8[k], F8[m])
    BY <1>21, JoinedPrefix
  <2>3. Len(F8[k]) <= Len(F8[m]) /\ \A i \in 1..Len(F8[k]) : F8[m][i] = F8[k][i]
    BY <2>2 DEF Begins
  <2> QED BY <2>1, <2>3 DEF b, N
(* A character takes at least a byte.                                      *)
<1> DEFINE T == {k \in 0..m : k <= Len(F8[k])}
<1>9. \A k \in 0..m : k <= Len(F8[k])
  <2>1. 0 \in T
    BY <1>8
  <2>2. ASSUME NEW k \in 0..(m - 1), k \in T PROVE k + 1 \in T
    <3>1. k \in 0..m /\ k + 1 \in 0..m /\ k + 1 \in 1..m /\ k <= Len(F8[k])
      BY <2>2
    <3>2. Lengthened(F8, q8, k)
      BY <1>21, JoinedNext
    <3> DEFINE x == Len(F8[k])
               y == Len(q8[k + 1])
               z == Len(F8[k + 1])
    <3>3. z = x + y
      BY <3>2 DEF Lengthened
    <3>4. y \in 1..4 /\ x \in Nat /\ k <= x /\ k \in Nat
      BY <1>1, <1>8, <3>1
    <3>5. k + 1 <= z
      <4> HIDE DEF x, y, z
      <4> QED BY ONLY <3>3, <3>4
    <3> QED BY <3>1, <3>5
  <2>3. \A k \in 0..m : k \in T
    <3> HIDE DEF T
    <3> QED BY <2>1, <2>2, UpToInduction
  <2> QED BY <2>3
<1> HIDE DEF T
<1>10. m <= N /\ m + 1 \in 1..L /\ L \in Nat
  <2>1. m \in 0..m
    OBVIOUS
  <2>2. m <= Len(F8[m])
    BY <1>9, <2>1
  <2> QED BY <1>5, <2>2 DEF N, b
<1> HIDE DEF L
(* Turn by turn.                                                           *)
<1> DEFINE W == {k \in 0..m : Written(w[k], F8[k], F16[k], outlen)}
<1>11. 0 \in W
  <2>1. F8[0] = <<>> /\ F16[0] = <<>> /\ 0 \in 0..m /\ Len(<<>>) = 0
    BY <1>3, <1>4 DEF Joined
  <2>2. w[0] = [p |-> 0, out |-> <<>>, runs |-> TRUE]
    BY <1>7 DEF Turns, Start
  <2>3. Written(w[0], F8[0], F16[0], outlen)
    BY <2>1, <2>2 DEF Written
  <2> QED BY <2>1, <2>3
<1>12. ASSUME NEW k \in 0..(m - 1), k \in W PROVE k + 1 \in W
  <2> DEFINE f8  == F8[k]
             g8  == F8[k + 1]
             f16 == F16[k]
             g16 == F16[k + 1]
             c   == cs[k + 1]
             d   == w[k + 1]
  <2>1. k \in 0..m /\ k + 1 \in 0..m /\ k + 1 \in 1..m /\ k + 1 \in 1..L /\ (k + 1) - 1 = k
    BY <1>10
  <2>2. d = Turn(s, w[k], outlen)
    BY <1>7, <2>1 DEF Turns
  <2>3. c \in 1..LastPoint /\ q8[k + 1] = Utf8(c) /\ q16[k + 1] = Utf16(c)
    BY <1>1, <1>2, <2>1
  <2>4. /\ Len(g8) = Len(f8) + Len(Utf8(c))
        /\ \A i \in 1..Len(Utf8(c)) : g8[Len(f8) + i] = Utf8(c)[i]
    <3>1. Lengthened(F8, q8, k)
      BY <1>21, JoinedNext
    <3>2. /\ Len(g8) = Len(f8) + Len(q8[k + 1])
          /\ \A i \in 1..Len(q8[k + 1]) : g8[Len(f8) + i] = q8[k + 1][i]
      BY <3>1 DEF Lengthened
    <3> QED BY <2>3, <3>2
  <2>5. g16 = f16 \o Utf16(c) /\ Len(g16) = Len(f16) + Len(Utf16(c))
    <3>1. Lengthened(F16, q16, k)
      BY <1>21, JoinedNext
    <3>2. g16 = f16 \o q16[k + 1] /\ Len(g16) = Len(f16) + Len(q16[k + 1])
      BY <3>1 DEF Lengthened
    <3> QED BY <2>3, <3>2
  <2>6. /\ Len(f8) \in Nat /\ Len(g8) <= N /\ f16 \in Seq(Int) /\ Len(f16) \in Nat
        /\ \A i \in 1..Len(g8) : b[i] = g8[i]
    BY <1>8, <2>1
  <2>7. Len(Utf8(c)) \in 1..4 /\ Len(Utf16(c)) \in 1..2
    BY <2>3, Utf8Typed, Utf16Typed
  <2>8. \A i \in 1..Len(Utf8(c)) : s[Len(f8) + i] = Utf8(c)[i]
    <3> DEFINE u == Utf8(c)
    <3> HIDE DEF u, f8, g8
    <3> SUFFICES \A i \in 1..Len(u) : s[Len(f8) + i] = u[i]
      BY DEF u
    <3>1. /\ Len(g8) = Len(f8) + Len(u) /\ \A i \in 1..Len(u) : g8[Len(f8) + i] = u[i]
          /\ Len(u) \in Nat
      BY <2>4, <2>7 DEF u
    <3> TAKE i \in 1..Len(u)
    <3>2. Len(f8) + i \in 1..Len(g8) /\ Len(f8) + i \in 1..N
      BY SMTT(30), <1>5, <2>6, <3>1
    <3> QED BY <1>6, <2>6, <3>1, <3>2
  <2>9. Written(w[k], f8, f16, outlen)
    BY <1>12
  <2> SUFFICES Written(d, g8, g16, outlen)
    BY <2>1
  <2> HIDE DEF f8, g8, f16, g16, c, d
  <2>10. CASE w[k] = [p |-> Len(f8), out |-> f16, runs |-> TRUE] /\ Len(f16) <= outlen
    <3> DEFINE p == Len(f8)
    <3>1. p \in Nat /\ d = Turn(s, [p |-> p, out |-> f16, runs |-> TRUE], outlen)
          /\ \A i \in 1..Len(Utf8(c)) : s[p + i] = Utf8(c)[i]
      BY <2>2, <2>6, <2>8, <2>10
    <3> HIDE DEF p
    <3>2. CharTurned(d, p, f16, c, outlen)
      BY <2>3, <2>6, <2>10, <3>1, CharTurn
    <3>3. \/ /\ d = [p |-> p + Len(Utf8(c)), out |-> f16 \o Utf16(c), runs |-> TRUE]
             /\ Len(f16) + Len(Utf16(c)) <= outlen
          \/ ~ d.runs /\ d.out = <<>> /\ outlen <= Len(f16) + Len(Utf16(c))
      BY <3>2 DEF CharTurned
    <3> QED BY <2>4, <2>5, <3>3 DEF Written, p
  <2>11. CASE ~ w[k].runs /\ w[k].out = <<>> /\ outlen <= Len(f16)
    <3>1. d = w[k]
      BY <2>2, <2>11 DEF Turn
    <3>2. outlen <= Len(g16)
      <4> DEFINE x == Len(f16)
                 y == Len(Utf16(c))
                 z == Len(g16)
      <4>1. z = x + y /\ x \in Nat /\ y \in 1..2 /\ outlen <= x /\ outlen \in Nat
        BY <2>5, <2>6, <2>7, <2>11
      <4> HIDE DEF x, y, z
      <4>2. outlen <= z
        BY ONLY <4>1
      <4> QED BY <4>2 DEF z
    <3> QED BY <2>11, <3>1, <3>2 DEF Written
  <2> QED BY <2>9, <2>10, <2>11 DEF Written
<1>13. Written(w[m], F8[m], F16[m], outlen)
  <2>1. \A k \in 0..m : k \in W
    <3> HIDE DEF W
    <3> QED BY <1>11, <1>12, UpToInduction
  <2>2. m \in 0..m
    OBVIOUS
  <2> QED BY <2>1, <2>2
<1> HIDE DEF W
(* The turn behind the last character.                                     *)
<1> DEFINE f16 == F16[m]
           d   == w[m + 1]
<1>14. f16 \in Seq(Int) /\ Len(f16) \in Nat /\ units = Append(f16, 0) /\ Len(units) = Len(f16) + 1
  <2>1. m \in 0..m /\ 0 \in Int
    OBVIOUS
  <2>2. f16 \in Seq(Int) /\ Len(f16) \in Nat
    BY <1>8, <2>1
  <2>3. units = Append(f16, 0)
    BY <1>4
  <2> HIDE DEF f16
  <2>4. Len(Append(f16, 0)) = Len(f16) + 1
    BY ONLY <2>1, <2>2, AppendProperties
  <2> QED BY <2>2, <2>3, <2>4
<1>15. d = Turn(s, w[m], outlen)
  <2>1. (m + 1) - 1 = m
    OBVIOUS
  <2> QED BY <1>7, <1>10, <2>1 DEF Turns
<1>16. s[N + 1] = 0
  BY <1>6 DEF PathBytes, L
<1> HIDE DEF f16
<1>17. ~ d.runs /\ d.out = IF Len(f16) < outlen THEN units ELSE <<>>
  <2>1. Written(w[m], b, f16, outlen)
    BY <1>13 DEF b, f16
  <2> HIDE DEF d
  <2>2. CASE w[m] = [p |-> Len(b), out |-> f16, runs |-> TRUE] /\ Len(f16) <= outlen
    <3>1. d = Turn(s, [p |-> N, out |-> f16, runs |-> TRUE], outlen)
      BY <1>15, <2>2 DEF N
    <3>2. Ended(d, f16, outlen)
      BY <1>5, <1>14, <1>16, <3>1, EndTurn
    <3> QED BY <1>14, <3>2 DEF Ended
  <2>3. CASE ~ w[m].runs /\ w[m].out = <<>> /\ outlen <= Len(f16)
    <3>1. d = w[m]
      BY <1>15, <2>3 DEF Turn
    <3>2. ~ (Len(f16) < outlen)
      BY <1>14, <2>3
    <3> QED BY <2>3, <3>1, <3>2
  <2> QED BY <2>1, <2>2, <2>3 DEF Written
<1>18. w[L] = d
  <2>1. m + 1 \in 0..L
    BY <1>10
  <2>2. ~ w[m + 1].runs
    BY <1>17
  <2>3. Turns(w, s, L, outlen) /\ L \in Nat
    BY <1>7, <1>10
  <2> DEFINE j == m + 1
  <2> HIDE DEF j
  <2>4. j \in 0..L /\ ~ w[j].runs
    BY <2>1, <2>2 DEF j
  <2>5. w[L] = w[j]
    BY <2>3, <2>4, TurnsStop
  <2> QED BY <2>5 DEF j
<1>19. Len(f16) < outlen <=> Len(units) <= outlen
  BY <1>14
<1>20. Append(FlattenSeq(q8), 0) = s
  BY <1>3 DEF s, b
<1> HIDE DEF d
<1> QED BY <1>7, <1>17, <1>18, <1>19, <1>20

-----------------------------------------------------------------------------
(* Calls about paths and modes.                                            *)

LEMMA PathsAreSafe ==
  ASSUME NEW b \in Upto(Bytes, MaxBytes), NEW n \in 1..(MaxBytes + 1),
         Called("bytes", <<b, n>>, spr_path_to_wchar(Append(b, 0), n))
  PROVE  NoAsciiInvented' /\ call'.fn = "bytes"
<1> DEFINE out == spr_path_to_wchar(Append(b, 0), n)
<1>1. call'.fn = "bytes" /\ call'.in = <<b, n>> /\ call'.out = out
  BY CallIs
<1>2. call'.in[1] = b /\ call'.in[2] = n
  BY <1>1
<1>3. n \in Nat /\ MaxBytes \in Nat
  BY TextAssumption
<1>4. PICK k \in Nat : b \in [1..k -> 1..255]
  <2>1. PICK k \in Nat : b \in [1..k -> Bytes]
    BY <1>3, UptoIs
  <2>2. Bytes \subseteq 1..255
    BY TextAssumption
  <2> QED BY <2>1, <2>2
<1>5. out # <<>> => Len(out) <= n /\ Ascii(out) = Append(Ascii(b), 0)
  BY <1>3, <1>4, BytesSafe
<1> HIDE DEF out
<1> QED BY <1>1, <1>2, <1>5 DEF NoAsciiInvented

LEMMA PathsAreWhole ==
  ASSUME NEW cs \in Upto(CodePoints, MaxPoints), NEW n \in 1..(MaxBytes + 1),
         Called("wchar", <<cs, n>>,
                spr_path_to_wchar(Append(FlattenSeq([i \in DOMAIN cs |-> Utf8(cs[i])]), 0), n))
  PROVE  PathConverted' /\ call'.fn = "wchar"
<1> DEFINE q8    == [i \in DOMAIN cs |-> Utf8(cs[i])]
           q16   == [i \in DOMAIN cs |-> Utf16(cs[i])]
           units == Append(FlattenSeq(q16), 0)
           out   == spr_path_to_wchar(Append(FlattenSeq(q8), 0), n)
<1>1. call'.fn = "wchar" /\ call'.in = <<cs, n>> /\ call'.out = out
  BY CallIs
<1>2. call'.in[1] = cs /\ call'.in[2] = n
  BY <1>1
<1>3. n \in Nat /\ MaxPoints \in Nat
  BY TextAssumption
<1>4. PICK m \in Nat : cs \in [1..m -> 1..LastPoint] /\ DOMAIN cs = 1..m
  <2>1. PICK m \in Nat : cs \in [1..m -> CodePoints]
    BY <1>3, UptoIs
  <2>2. CodePoints \subseteq 1..LastPoint
    BY TextAssumption
  <2> QED BY <2>1, <2>2
<1>5. q8 = [i \in 1..m |-> Utf8(cs[i])] /\ q16 = [i \in 1..m |-> Utf16(cs[i])]
  BY <1>4
<1>6. units = Append(FlattenSeq(q16), 0) /\ out = spr_path_to_wchar(Append(FlattenSeq(q8), 0), n)
  OBVIOUS
<1> HIDE DEF q8, q16, units, out
<1>7. out = IF Len(units) <= n THEN units ELSE <<>>
  <2>1. Encoded(m, cs, q8, q16, units)
    BY <1>4, <1>5, <1>6 DEF Encoded
  <2>2. spr_path_to_wchar(Append(FlattenSeq(q8), 0), n) = IF Len(units) <= n THEN units ELSE <<>>
    BY <1>3, <2>1, PathWhole
  <2> QED BY <1>6, <2>2
<1> QED BY <1>1, <1>2, <1>7 DEF PathConverted, q16, units

LEMMA PathsAreJoined ==
  ASSUME NEW path \in Strings, NEW file \in Strings, spr_strlen(path) > 0,
         Called("join", <<path, file>>, spr_file_full_path(path, file))
  PROVE  PathJoined' /\ call'.fn = "join"
<1>1. /\ call'.fn = "join" /\ call'.in = <<path, file>>
      /\ call'.out = spr_file_full_path(path, file)
  BY CallIs
<1>2. call'.in[1] = path /\ call'.in[2] = file
  BY <1>1
<1>3. LET t   == TextOf(path)
          u   == TextOf(file)
          dir == IF Last(t) = Separator THEN t ELSE Append(t, Separator)
      IN  Holds(call'.out, dir \o u) /\ DOMAIN call'.out = 0..Len(dir \o u)
  BY <1>1, JoinRight
<1> QED BY <1>1, <1>2, <1>3 DEF PathJoined

(* A property of one kind of call says nothing of the others, and nothing  *)
(* new as long as the call stays.                                          *)
LEMMA PathKinds ==
  /\ call'.fn # "wchar" \/ (PathConverted /\ call' = call) => PathConverted'
  /\ call'.fn # "bytes" \/ (NoAsciiInvented /\ call' = call) => NoAsciiInvented'
  /\ call'.fn # "join" \/ (PathJoined /\ call' = call) => PathJoined'
  /\ call'.fn # "access" \/ (AccessDigits /\ call' = call) => AccessDigits'
<1>1. call'.fn # "wchar" \/ (PathConverted /\ call' = call) => PathConverted'
  BY DEF PathConverted
<1>2. call'.fn # "bytes" \/ (NoAsciiInvented /\ call' = call) => NoAsciiInvented'
  BY DEF NoAsciiInvented
<1>3. call'.fn # "join" \/ (PathJoined /\ call' = call) => PathJoined'
  BY DEF PathJoined
<1>4. call'.fn # "access" \/ (AccessDigits /\ call' = call) => AccessDigits'
  BY DEF AccessDigits
<1> QED BY <1>1, <1>2, <1>3, <1>4

LEMMA PathsConverted ==
  ASSUME Paths
  PROVE  PathsRight' /\ call'.fn \in {"bytes", "wchar", "join"}
<1>1. ASSUME NEW b \in Upto(Bytes, MaxBytes), NEW n \in 1..(MaxBytes + 1),
             Called("bytes", <<b, n>>, spr_path_to_wchar(Append(b, 0), n))
      PROVE  NoAsciiInvented' /\ call'.fn = "bytes"
  BY <1>1, PathsAreSafe
<1>2. ASSUME NEW cs \in Upto(CodePoints, MaxPoints), NEW n \in 1..(MaxBytes + 1),
             Called("wchar", <<cs, n>>,
                    spr_path_to_wchar(Append(FlattenSeq([i \in DOMAIN cs |-> Utf8(cs[i])]), 0), n))
      PROVE  PathConverted' /\ call'.fn = "wchar"
  BY <1>2, PathsAreWhole
<1>3. ASSUME NEW path \in Strings, NEW file \in Strings, spr_strlen(path) > 0,
             Called("join", <<path, file>>, spr_file_full_path(path, file))
      PROVE  PathJoined' /\ call'.fn = "join"
  BY <1>3, PathsAreJoined
<1>4. \/ NoAsciiInvented' /\ call'.fn = "bytes"
      \/ PathConverted' /\ call'.fn = "wchar"
      \/ PathJoined' /\ call'.fn = "join"
  BY <1>1, <1>2, <1>3 DEF Paths
<1> QED BY <1>4, PathKinds DEF PathsRight

LEMMA AccessesAreRight ==
  ASSUME Accesses
  PROVE  AccessDigits' /\ call'.fn = "access"
<1>1. PICK bits \in SUBSET ModeBits : Called("access", bits, spr_stat_get_access(bits))
  BY DEF Accesses
<1>2. call'.fn = "access" /\ call'.in = bits /\ call'.out = spr_stat_get_access(bits)
  BY <1>1, CallIs
<1>3. LET mode == Mask(bits, [bit \in ModeBits |-> bit])
      IN  spr_stat_get_access(bits) =
            (mode \div 512) * 8192 + ((mode \div 64) % 8) * 256
              + ((mode \div 8) % 8) * 16 + (mode % 8)
  BY AccessRight
<1> QED BY <1>2, <1>3 DEF AccessDigits

(* A path in UTF-8 is written in UTF-16 if there is room for all of it,    *)
(* malformed bytes make no separator and no end of a path, names are       *)
(* joined by one separator, and access modes keep their digits, for paths  *)
(* and buffers of any size and every character of Unicode.                 *)
THEOREM PathsAreRight == TextSpec => []PathsRight
<1>1. TextInit => PathsRight
  BY DEF TextInit, Idle, PathsRight, PathConverted, NoAsciiInvented, PathJoined, AccessDigits
<1>2. PathsRight /\ [TextNext]_call => PathsRight'
  <2> SUFFICES ASSUME PathsRight, [TextNext]_call PROVE PathsRight'
    OBVIOUS
  <2>1. CASE Paths
    BY <2>1, PathsConverted
  <2>2. CASE Accesses
    BY <2>2, AccessesAreRight, PathKinds DEF PathsRight
  <2>3. CASE Numbers \/ Compares \/ Searches \/ Copies \/ ErrorTexts
    <3>1. call'.fn \notin {"bytes", "wchar", "join", "access"}
      BY <2>3, NumbersAreRight, ComparesAreRight, SearchesAreRight, CopiesRight, ErrorTextsRight
    <3> QED BY <3>1, PathKinds DEF PathsRight
  <2>4. CASE UNCHANGED call
    BY <2>4, PathKinds DEF PathsRight
  <2> QED BY <2>1, <2>2, <2>3, <2>4 DEF TextNext
<1> QED BY <1>1, <1>2, PTL DEF TextSpec
=============================================================================
