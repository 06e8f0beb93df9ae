--------------------------- MODULE PointersProofs ---------------------------
(***************************************************************************)
(* Induction over the natural numbers for sets, and what it gives for the  *)
(* walks of Pointers.                                                      *)
(***************************************************************************)
EXTENDS Pointers, FiniteSets, FiniteSetTheorems, TLAPS

(* A set of numbers that has 0 and the successor of each of its members    *)
(* has all numbers: the intervals 0..n up to the numbers it lacks would    *)
(* have a smallest one.                                                    *)
LEMMA SetInduction ==
  ASSUME NEW S \in SUBSET Nat, 0 \in S, \A n \in S : n + 1 \in S
  PROVE  S = Nat
<1> DEFINE T     == Nat \ S
           Up(n) == 0..n
           F     == {Up(n) : n \in T}
<1>1. ASSUME T # {} PROVE FALSE
  <2>1. IsWellFoundedOn(StrictSubsetOrdering(Nat), FiniteSubsetsOf(Nat))
    BY FS_StrictSubsetOrderingWellFounded
  <2>2. F \subseteq FiniteSubsetsOf(Nat)
    <3>1. \A n \in Nat : Up(n) \in SUBSET Nat /\ IsFiniteSet(Up(n))
      BY FS_Interval
    <3> QED BY <3>1 DEF FiniteSubsetsOf
  <2>3. F # {}
    BY <1>1
  <2>4. \E x \in F : \A y \in F : <<y, x>> \notin StrictSubsetOrdering(Nat)
    <3> HIDE DEF F
    <3> QED BY <2>1, <2>2, <2>3, WFMin
  <2>5. PICK n \in T : \A m \in T : <<Up(m), Up(n)>> \notin StrictSubsetOrdering(Nat)
    BY <2>4
  <2>6. n \in Nat /\ n - 1 \in Nat
    OBVIOUS
  <2>7. n - 1 \notin T
    <3>1. SUFFICES ASSUME n - 1 \in T PROVE FALSE
      OBVIOUS
    <3>2. Up(n - 1) \in SUBSET Nat /\ Up(n) \in SUBSET Nat
      BY <2>6
    <3>3. Up(n - 1) \subseteq Up(n) /\ n \in Up(n) /\ n \notin Up(n - 1)
      BY <2>6
    <3> HIDE DEF Up
    <3>4. <<Up(n - 1), Up(n)>> \in StrictSubsetOrdering(Nat)
      BY <3>2, <3>3 DEF StrictSubsetOrdering
    <3> QED BY <2>5, <3>1, <3>4
  <2>8. n - 1 \in S
    BY <2>6, <2>7
  <2>9. (n - 1) + 1 \in S
    BY <2>8
  <2> QED BY <2>6, <2>9
<1> QED BY <1>1

-----------------------------------------------------------------------------

(* What walks along field meets in its next step.                          *)
After(field, x) == IF x \in DOMAIN field THEN field[x] ELSE x

(* w is the walk from p along field.                                       *)
IsWay(w, p, field, n) ==
  /\ w = [k \in 0..n |-> w[k]]
  /\ w[0] = p
  /\ \A k \in 1..n : w[k] = After(field, w[k - 1])

(* There is a walk of any length.                                          *)
LEMMA WayExists ==
  ASSUME NEW p, NEW field, NEW n \in Nat
  PROVE  \E w : IsWay(w, p, field, n)
<1> DEFINE S == {m \in Nat : \E w : IsWay(w, p, field, m)}
<1>1. 0 \in S
  <2> DEFINE w == [k \in 0..0 |-> p]
  <2>1. IsWay(w, p, field, 0)
    BY DEF IsWay
  <2> QED BY <2>1
<1>2. ASSUME NEW m \in S PROVE m + 1 \in S
  <2>1. PICK w : IsWay(w, p, field, m)
    OBVIOUS
  <2> DEFINE v == [k \in 0..(m + 1) |-> IF k = m + 1 THEN After(field, w[m]) ELSE w[k]]
  <2>2. v = [k \in 0..(m + 1) |-> v[k]]
    OBVIOUS
  <2>3. v[0] = p
    BY <2>1 DEF IsWay
  <2>4. ASSUME NEW k \in 1..(m + 1) PROVE v[k] = After(field, v[k - 1])
    <3>1. CASE k = m + 1
      <4>1. v[k] = After(field, w[m]) /\ v[k - 1] = w[m]
        BY <3>1
      <4> QED BY <4>1
    <3>2. CASE k # m + 1
      <4>1. v[k] = w[k] /\ v[k - 1] = w[k - 1] /\ k \in 1..m
        BY <3>2
      <4> QED BY <4>1, <2>1 DEF IsWay
    <3> QED BY <3>1, <3>2
  <2>5. IsWay(v, p, field, m + 1)
    <3> HIDE DEF v
    <3> QED BY <2>2, <2>3, <2>4 DEF IsWay
  <2> QED BY <2>5
<1>3. S \in SUBSET Nat
  OBVIOUS
<1>4. S = Nat
  <2> HIDE DEF S
  <2> QED BY <1>1, <1>2, <1>3, SetInduction
<1> QED BY <1>4

(* Way is that walk.                                                       *)
LEMMA WayIsWay ==
  ASSUME NEW p, NEW field, NEW n \in Nat
  PROVE  IsWay(Way(p, field, n), p, field, n)
<1> DEFINE Def(w) == [k \in 0..n |-> IF k = 0 THEN p
                        ELSE IF w[k - 1] \in DOMAIN field THEN field[w[k - 1]] ELSE w[k - 1]]
<1>1. PICK w : IsWay(w, p, field, n)
  BY WayExists
<1>2. w = Def(w)
  <2>1. \A k \in 0..n :
          w[k] = IF k = 0 THEN p
                 ELSE IF w[k - 1] \in DOMAIN field THEN field[w[k - 1]] ELSE w[k - 1]
    <3>1. w[0] = p /\ \A k \in 1..n : w[k] = After(field, w[k - 1])
      BY <1>1 DEF IsWay
    <3>2. \A k \in 0..n : k # 0 => k \in 1..n
      OBVIOUS
    <3> QED BY <3>1, <3>2, ZenonT(20) DEF After
  <2>2. w = [k \in 0..n |-> w[k]]
    BY <1>1 DEF IsWay
  <2> QED BY <2>1, <2>2
<1>3. Way(p, field, n) = CHOOSE v : v = Def(v)
  BY DEF Way
<1>4. Way(p, field, n) = Def(Way(p, field, n))
  BY <1>2, <1>3
<1>5. ASSUME NEW v, v = Def(v) PROVE IsWay(v, p, field, n)
  <2>1. \A k \in 0..n :
          v[k] = IF k = 0 THEN p
                 ELSE IF v[k - 1] \in DOMAIN field THEN field[v[k - 1]] ELSE v[k - 1]
    BY <1>5
  <2>2. v = [k \in 0..n |-> v[k]]
    BY <1>5
  <2>3. v[0] = p
    BY <2>1
  <2>4. \A k \in 1..n : v[k] = After(field, v[k - 1])
    BY <2>1 DEF After
  <2> QED BY <2>2, <2>3, <2>4 DEF IsWay
<1> HIDE DEF Def
<1> QED BY <1>4, <1>5

(* A walk that starts at s[0] and follows s for as long as s lasts.        *)
LEMMA WayFollows ==
  ASSUME NEW p, NEW field, NEW n \in Nat, NEW s, NEW m \in 0..n,
         s[0] = p, \A k \in 1..m : s[k] = After(field, s[k - 1])
  PROVE  \A k \in 0..m : Way(p, field, n)[k] = s[k]
<1> DEFINE w == Way(p, field, n)
           S == {k \in Nat : k <= m => w[k] = s[k]}
<1>0. IsWay(w, p, field, n)
  BY WayIsWay
<1> HIDE DEF w
<1>1. 0 \in S
  BY <1>0 DEF IsWay
<1>2. ASSUME NEW k \in S PROVE k + 1 \in S
  <2>1. SUFFICES ASSUME k + 1 <= m PROVE w[k + 1] = s[k + 1]
    OBVIOUS
  <2>2. k \in Nat /\ k + 1 \in 1..m /\ k + 1 \in 1..n /\ (k + 1) - 1 = k
    BY <2>1
  <2>3. w[k] = s[k]
    BY <2>1, <2>2
  <2>4. w[k + 1] = After(field, w[k])
    BY <1>0, <2>2 DEF IsWay
  <2>5. s[k + 1] = After(field, s[k])
    BY <2>2
  <2> QED BY <2>3, <2>4, <2>5
<1>3. S \in SUBSET Nat
  OBVIOUS
<1>4. S = Nat
  <2> HIDE DEF S
  <2> QED BY <1>1, <1>2, <1>3, SetInduction
<1>5. \A k \in 0..m : k \in S
  BY <1>4
<1> QED BY <1>5 DEF w

-----------------------------------------------------------------------------
(* Lists whose last node points to 0.                                      *)

Elems(n, s) == {s[i] : i \in 1..n}

(* From h along next there are the n nodes s[1], ..., s[n], all different, *)
(* and then 0.                                                             *)
IsList(h, n, s, next, Nodes) ==
  /\ n \in Nat /\ s \in [1..n -> Nodes]
  /\ \A i, j \in 1..n : s[i] = s[j] => i = j
  /\ h = IF n = 0 THEN 0 ELSE s[1]
  /\ \A i \in 1..n : next[s[i]] = IF i = n THEN 0 ELSE s[i + 1]

(* A list does not depend on the fields of other nodes.                    *)
LEMMA ListFrame ==
  ASSUME NEW h, NEW n, NEW s, NEW next, NEW Nodes, IsList(h, n, s, next, Nodes),
         NEW new, \A x \in Elems(n, s) : new[x] = next[x]
  PROVE  IsList(h, n, s, new, Nodes)
BY DEF IsList, Elems

LEMMA ListEmpty ==
  ASSUME NEW s, NEW next, NEW Nodes
  PROVE  IsList(0, 0, [i \in 1..0 |-> 0], next, Nodes) /\ Elems(0, s) = {}
BY DEF IsList, Elems

(* A node put in front.                                                    *)
Pushed(c, n, s) == [i \in 1..(n + 1) |-> IF i = 1 THEN c ELSE s[i - 1]]

LEMMA ListPush ==
  ASSUME NEW h, NEW n, NEW s, NEW next, NEW Nodes, IsList(h, n, s, next, Nodes),
         NEW c \in Nodes, c \notin Elems(n, s), next[c] = h
  PROVE  /\ IsList(c, n + 1, Pushed(c, n, s), next, Nodes)
         /\ Elems(n + 1, Pushed(c, n, s)) = Elems(n, s) \cup {c}
         /\ \A i \in 1..n : Pushed(c, n, s)[i + 1] = s[i]
<1> DEFINE v == Pushed(c, n, s)
<1>1. /\ n \in Nat /\ s \in [1..n -> Nodes]
      /\ \A i, j \in 1..n : s[i] = s[j] => i = j
      /\ \A i \in 1..n : c # s[i]
      /\ h = IF n = 0 THEN 0 ELSE s[1]
      /\ \A i \in 1..n : next[s[i]] = IF i = n THEN 0 ELSE s[i + 1]
  BY DEF IsList, Elems
<1>2. /\ v[1] = c /\ \A i \in 2..(n + 1) : v[i] = s[i - 1] /\ i - 1 \in 1..n
      /\ \A i \in 1..n : v[i + 1] = s[i]
  BY <1>1 DEF Pushed
<1>3. v \in [1..(n + 1) -> Nodes]
  BY <1>1 DEF Pushed
<1> HIDE DEF v
<1>4. \A i, j \in 1..(n + 1) : v[i] = v[j] => i = j
  <2>1. SUFFICES ASSUME NEW i \in 1..(n + 1), NEW j \in 1..(n + 1), v[i] = v[j] PROVE i = j
    OBVIOUS
  <2>2. CASE i = 1
    BY <1>1, <1>2, <2>1, <2>2
  <2>3. CASE j = 1
    BY <1>1, <1>2, <2>1, <2>3
  <2>4. CASE i # 1 /\ j # 1
    <3>1. i \in 2..(n + 1) /\ j \in 2..(n + 1)
      BY <1>1, <2>4
    <3>2. i - 1 = j - 1
      BY <1>1, <1>2, <2>1, <3>1
    <3> QED BY <1>1, <3>1, <3>2
  <2> QED BY <2>2, <2>3, <2>4
<1>5. ASSUME NEW i \in 1..(n + 1) PROVE next[v[i]] = IF i = n + 1 THEN 0 ELSE v[i + 1]
  <2>1. CASE i = 1
    BY <1>1, <1>2, <2>1
  <2>2. CASE i # 1
    <3>1. i \in 2..(n + 1) /\ i - 1 \in 1..n /\ v[i] = s[i - 1]
      BY <1>1, <1>2, <2>2
    <3>2. next[v[i]] = IF i - 1 = n THEN 0 ELSE s[(i - 1) + 1]
      BY <1>1, <3>1
    <3>3. CASE i = n + 1
      BY <1>1, <3>2, <3>3
    <3>4. CASE i # n + 1
      <4>1. i \in 1..n /\ i - 1 # n /\ (i - 1) + 1 = i
        BY <1>1, <3>1, <3>4
      <4> QED BY <1>2, <3>2, <3>4, <4>1
    <3> QED BY <3>3, <3>4
  <2> QED BY <2>1, <2>2
<1>6. Elems(n + 1, v) = Elems(n, s) \cup {c}
  <2>1. ASSUME NEW x \in Elems(n + 1, v) PROVE x \in Elems(n, s) \cup {c}
    <3>1. PICK i \in 1..(n + 1) : x = v[i]
      BY DEF Elems
    <3>2. i = 1 \/ i \in 2..(n + 1)
      BY <1>1
    <3> QED BY <1>2, <3>1, <3>2 DEF Elems
  <2>2. ASSUME NEW x \in Elems(n, s) \cup {c} PROVE x \in Elems(n + 1, v)
    <3>1. CASE x = c
      <4>1. 1 \in 1..(n + 1)
        BY <1>1
      <4> QED BY <1>2, <3>1, <4>1 DEF Elems
    <3>2. CASE x \in Elems(n, s)
      <4>1. PICK i \in 1..n : x = s[i]
        BY <3>2 DEF Elems
      <4>2. i + 1 \in 1..(n + 1) /\ v[i + 1] = x
        BY <1>1, <1>2, <4>1
      <4> QED BY <4>2 DEF Elems
    <3> QED BY <3>1, <3>2
  <2> QED BY <2>1, <2>2
<1>7. IsList(c, n + 1, v, next, Nodes)
  <2>1. n + 1 \in Nat /\ n + 1 # 0
    BY <1>1
  <2> QED BY <1>2, <1>3, <1>4, <1>5, <2>1 DEF IsList
<1> QED BY <1>2, <1>6, <1>7 DEF v

(* A node taken out, with the pointer of the one before it set.            *)
Dropped(k, n, s) == [i \in 1..(n - 1) |-> IF i < k THEN s[i] ELSE s[i + 1]]

LEMMA ListDrop ==
  ASSUME NEW h, NEW n, NEW s, NEW next, NEW Nodes, IsList(h, n, s, next, Nodes),
         NEW k \in 1..n, NEW g, NEW new,
         g = IF k = 1 THEN next[s[1]] ELSE h,
         \A x \in Elems(n, s) : new[x] = IF k > 1 /\ x = s[k - 1] THEN next[s[k]] ELSE next[x]
  PROVE  /\ IsList(g, n - 1, Dropped(k, n, s), new, Nodes)
         /\ Elems(n - 1, Dropped(k, n, s)) = Elems(n, s) \ {s[k]}
<1> DEFINE v == Dropped(k, n, s)
<1>1. /\ n \in Nat /\ s \in [1..n -> Nodes]
      /\ \A i, j \in 1..n : s[i] = s[j] => i = j
      /\ h = IF n = 0 THEN 0 ELSE s[1]
      /\ \A i \in 1..n : next[s[i]] = IF i = n THEN 0 ELSE s[i + 1]
      /\ \A i \in 1..n : s[i] \in Elems(n, s)
  BY DEF IsList, Elems
<1>2. k \in Nat /\ n >= 1 /\ n - 1 \in Nat
  BY <1>1
<1>3. /\ \A i \in 1..(n - 1) : i < k => v[i] = s[i]
      /\ \A i \in 1..(n - 1) : ~ (i < k) => v[i] = s[i + 1]
  BY DEF Dropped
<1>4. \A i \in 1..(n - 1) : i \in 1..n /\ i + 1 \in 1..n
  BY <1>1
<1>5. v \in [1..(n - 1) -> Nodes]
  BY <1>1, <1>4 DEF Dropped
<1> HIDE DEF v
<1>6. \A i, j \in 1..(n - 1) : v[i] = v[j] => i = j
  <2>1. SUFFICES ASSUME NEW i \in 1..(n - 1), NEW j \in 1..(n - 1), v[i] = v[j] PROVE i = j
    OBVIOUS
  <2>2. i < k \/ ~ (i < k)
    OBVIOUS
  <2> QED BY <1>1, <1>2, <1>3, <1>4, <2>1, <2>2
<1>7. g = IF n - 1 = 0 THEN 0 ELSE v[1]
  <2>1. CASE n - 1 = 0
    BY <1>1, <1>2, <2>1
  <2>2. CASE n - 1 # 0
    <3>1. 1 \in 1..(n - 1) /\ 1 \in 1..n
      BY <1>1, <1>2, <2>2
    <3>2. CASE k = 1
      <4>1. v[1] = s[2] /\ next[s[1]] = s[2]
        BY <1>1, <1>2, <1>3, <2>2, <3>1, <3>2
      <4> QED BY <2>2, <3>2, <4>1
    <3>3. CASE k # 1
      BY <1>1, <1>2, <1>3, <2>2, <3>1, <3>3
    <3> QED BY <3>2, <3>3
  <2> QED BY <2>1, <2>2
<1>8. ASSUME NEW i \in 1..(n - 1) PROVE new[v[i]] = IF i = n - 1 THEN 0 ELSE v[i + 1]
  <2>0. i \in 1..n /\ i + 1 \in 1..n /\ i \in Nat
    BY <1>4
  <2>1. CASE i < k - 1
    <3>0. i < k /\ i # n - 1 /\ i + 1 \in 1..(n - 1) /\ i + 1 < k /\ i # n
      BY <1>1, <1>2, <2>0, <2>1
    <3>1. v[i] = s[i] /\ i # n - 1 /\ v[i + 1] = s[i + 1] /\ i # n
      BY <1>3, <3>0
    <3>2. k - 1 \in 1..n /\ s[i] # s[k - 1]
      BY <1>1, <1>2, <2>0, <2>1
    <3>3. new[s[i]] = next[s[i]]
      BY <1>1, <2>0, <3>2
    <3> QED BY <1>1, <2>0, <3>1, <3>3
  <2>2. CASE i = k - 1
    <3>1. v[i] = s[i] /\ k > 1 /\ s[i] = s[k - 1]
      BY <1>2, <1>3, <2>0, <2>2
    <3>2. new[s[i]] = next[s[k]]
      BY <1>1, <2>0, <3>1
    <3>3. next[s[k]] = IF k = n THEN 0 ELSE s[k + 1]
      BY <1>1
    <3>4. i # n - 1 => i + 1 \in 1..(n - 1) /\ ~ (i + 1 < k) /\ v[i + 1] = s[k + 1]
      <4>1. SUFFICES ASSUME i # n - 1 PROVE i + 1 \in 1..(n - 1) /\ ~ (i + 1 < k) /\ v[i + 1] = s[k + 1]
        OBVIOUS
      <4>2. i + 1 \in 1..(n - 1) /\ ~ (i + 1 < k) /\ (i + 1) + 1 = k + 1
        BY <1>2, <2>0, <2>2, <4>1
      <4>3. v[i + 1] = s[(i + 1) + 1]
        BY <1>3, <4>2
      <4> QED BY <4>2, <4>3
    <3>5. i = n - 1 <=> k = n
      BY <1>1, <1>2, <2>0, <2>2
    <3> QED BY <3>1, <3>2, <3>3, <3>4, <3>5
  <2>3. CASE ~ (i < k)
    <3>1. v[i] = s[i + 1]
      BY <1>3, <2>3
    <3>2. k > 1 => k - 1 \in 1..n /\ s[i + 1] # s[k - 1]
      BY <1>1, <1>2, <2>0, <2>3
    <3>3. new[s[i + 1]] = next[s[i + 1]]
      BY <1>1, <2>0, <3>2
    <3>4. next[s[i + 1]] = IF i + 1 = n THEN 0 ELSE s[(i + 1) + 1]
      BY <1>1, <2>0
    <3>5. i # n - 1 => i + 1 \in 1..(n - 1) /\ ~ (i + 1 < k)
      BY <1>2, <2>0, <2>3
    <3>6. i # n - 1 => v[i + 1] = s[(i + 1) + 1]
      BY <1>3, <3>5
    <3>7. i = n - 1 <=> i + 1 = n
      BY <1>1, <2>0
    <3> QED BY <3>1, <3>3, <3>4, <3>6, <3>7
  <2> QED BY <1>2, <2>0, <2>1, <2>2, <2>3
<1>9. Elems(n - 1, v) = Elems(n, s) \ {s[k]}
  <2>1. ASSUME NEW x \in Elems(n - 1, v) PROVE x \in Elems(n, s) \ {s[k]}
    <3>1. PICK i \in 1..(n - 1) : x = v[i]
      BY DEF Elems
    <3>2. CASE i < k
      <4>1. x = s[i] /\ i # k /\ i \in 1..n
        BY <1>2, <1>3, <1>4, <3>1, <3>2
      <4> QED BY <1>1, <4>1
    <3>3. CASE ~ (i < k)
      <4>1. x = s[i + 1] /\ i + 1 # k /\ i + 1 \in 1..n
        BY <1>2, <1>3, <1>4, <3>1, <3>3
      <4> QED BY <1>1, <4>1
    <3> QED BY <3>2, <3>3
  <2>2. ASSUME NEW x \in Elems(n, s) \ {s[k]} PROVE x \in Elems(n - 1, v)
    <3>1. PICK i \in 1..n : x = s[i] /\ i # k
      BY DEF Elems
    <3>2. CASE i < k
      <4>1. i \in 1..(n - 1) /\ v[i] = x
        BY <1>1, <1>2, <1>3, <3>1, <3>2
      <4> QED BY <4>1 DEF Elems
    <3>3. CASE ~ (i < k)
      <4>1. i - 1 \in 1..(n - 1) /\ ~ (i - 1 < k) /\ (i - 1) + 1 = i
        BY <1>1, <1>2, <3>1, <3>3
      <4>2. v[i - 1] = x
        BY <1>3, <3>1, <4>1
      <4> QED BY <4>1, <4>2 DEF Elems
    <3> QED BY <3>2, <3>3
  <2> QED BY <2>1, <2>2
<1>10. IsList(g, n - 1, v, new, Nodes)
  BY <1>2, <1>5, <1>6, <1>7, <1>8 DEF IsList
<1> QED BY <1>9, <1>10 DEF v

(* The walk over a list meets its nodes and comes to its end.              *)
LEMMA ListWay ==
  ASSUME NEW h, NEW n, NEW s, NEW next, NEW Nodes, IsList(h, n, s, next, Nodes),
         IsFiniteSet(Nodes), 0 \notin Nodes, DOMAIN next = Nodes,
         NEW N \in Nat, N >= Cardinality(Nodes)
  PROVE  /\ n <= N
         /\ \A k \in 0..N : Way(h, next, N)[k] = IF k < n THEN s[k + 1] ELSE 0
         /\ {Way(h, next, N)[k] : k \in 0..N} \ {0} = Elems(n, s)
         /\ Way(h, next, N)[N] = 0
<1>1. /\ n \in Nat /\ s \in [1..n -> Nodes]
      /\ \A i, j \in 1..n : s[i] = s[j] => i = j
      /\ h = IF n = 0 THEN 0 ELSE s[1]
      /\ \A i \in 1..n : next[s[i]] = IF i = n THEN 0 ELSE s[i + 1]
  BY DEF IsList
<1>2. n <= N
  <2>1. s \in Injection(1..n, Nodes)
    BY <1>1 DEF Injection, IsInjective
  <2>2. Cardinality(1..n) = n
    BY <1>1, FS_Interval
  <2>3. Cardinality(1..n) <= Cardinality(Nodes)
    BY <2>1, FS_Injection
  <2>4. Cardinality(Nodes) \in Nat
    BY FS_CardinalityType
  <2> QED BY <1>1, <2>2, <2>3, <2>4
<1> DEFINE e == [k \in 0..N |-> IF k < n THEN s[k + 1] ELSE 0]
           w == Way(h, next, N)
<1>3. e[0] = h
  BY <1>1
<1>4. ASSUME NEW k \in 1..N PROVE e[k] = After(next, e[k - 1])
  <2>1. e[k] = (IF k < n THEN s[k + 1] ELSE 0) /\ k - 1 \in 0..N
    OBVIOUS
  <2>2. CASE k - 1 < n
    <3>1. k \in 1..n /\ e[k - 1] = s[k] /\ s[k] \in Nodes
      BY <1>1, <2>1, <2>2
    <3>2. After(next, e[k - 1]) = IF k = n THEN 0 ELSE s[k + 1]
      BY <1>1, <3>1 DEF After
    <3> QED BY <1>1, <2>1, <3>1, <3>2
  <2>3. CASE ~ (k - 1 < n)
    <3>1. e[k - 1] = 0 /\ e[k] = 0
      BY <1>1, <2>1, <2>3
    <3> QED BY <3>1 DEF After
  <2> QED BY <2>2, <2>3
<1>5. \A k \in 0..N : w[k] = e[k]
  <2>1. N \in 0..N
    OBVIOUS
  <2> HIDE DEF e
  <2> QED BY <1>3, <1>4, <2>1, WayFollows
<1>6. \A k \in 0..N : w[k] = IF k < n THEN s[k + 1] ELSE 0
  BY <1>5
<1> HIDE DEF e, w
<1>7. {w[k] : k \in 0..N} \ {0} = Elems(n, s)
  <2>1. ASSUME NEW k \in 0..N, w[k] # 0 PROVE w[k] \in Elems(n, s)
    <3>1. k < n /\ w[k] = s[k + 1] /\ k + 1 \in 1..n
      BY <1>1, <1>6, <2>1
    <3> QED BY <3>1 DEF Elems
  <2>2. ASSUME NEW i \in 1..n PROVE s[i] \in {w[k] : k \in 0..N} \ {0}
    <3>1. i - 1 \in 0..N /\ i - 1 < n /\ (i - 1) + 1 = i
      BY <1>1, <1>2
    <3>2. w[i - 1] = s[i] /\ s[i] # 0
      BY <1>1, <1>6, <3>1
    <3> QED BY <3>1, <3>2
  <2> QED BY <2>1, <2>2 DEF Elems
<1>8. w[N] = 0
  BY <1>1, <1>2, <1>6
<1> QED BY <1>2, <1>6, <1>7, <1>8 DEF w
=============================================================================
