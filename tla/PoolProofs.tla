----------------------------- MODULE PoolProofs -----------------------------
(***************************************************************************)
(* Proofs about Pool for every page size, every number of slots, every     *)
(* header size and any number of memnodes, blocks and cleanup entries: its *)
(* memory, its slot table, its cleanup list with the reserve of cleanup    *)
(* nodes, that it implements CleanupStack, and the sizes it reports.       *)
(***************************************************************************)
EXTENDS PoolCleanup, PoolStats, PointersProofs, SequenceTheorems, TLAPS

-----------------------------------------------------------------------------
(* Arithmetic on size_t.                                                   *)

(* A remainder is a natural number below the modulus.                      *)
LEMMA ModRange ==
  ASSUME NEW a \in Int, NEW n \in Nat \ {0}
  PROVE  a % n \in 0..(n - 1)
BY Z3

(* A size_t that does not wrap around is what integer arithmetic says.     *)
LEMMA ModSmall ==
  ASSUME NEW n \in Nat \ {0}, NEW a \in 0..(n - 1)
  PROVE  a % n = a
BY Z3

(* The quotient by a positive number.                                      *)
LEMMA DivRange ==
  ASSUME NEW a \in Nat, NEW n \in Nat \ {0}
  PROVE  /\ a \div n \in Nat
         /\ n * (a \div n) <= a
         /\ a < n * (a \div n) + n
BY Z3

(* Quotient and remainder.                                                 *)
LEMMA DivMod ==
  ASSUME NEW x \in Nat, NEW n \in Nat \ {0}
  PROVE  /\ x \div n \in Nat /\ x % n \in 0..(n - 1)
         /\ x % n = x - n * (x \div n)
<1>1. x \div n \in Nat
  BY DivRange
<1>2. x % n \in 0..(n - 1)
  BY ModRange
<1>3. x % n = x - n * (x \div n)
  BY SMT
<1> QED BY <1>1, <1>2, <1>3, Zenon

(* A number is its quotient and its remainder only.                        *)
LEMMA ModOf ==
  ASSUME NEW n \in Nat \ {0}, NEW q \in Nat, NEW r \in 0..(n - 1)
  PROVE  (n * q + r) % n = r
BY SMTT(30)

(* Adding to a sum of size_t before or after it has wrapped around.        *)
LEMMA ModAdd ==
  ASSUME NEW n \in Nat \ {0}, NEW x \in Nat, NEW y \in Nat
  PROVE  (x + y) % n = ((x % n) + y) % n
<1>1. PICK q \in Nat, r \in 0..(n - 1) : r = x % n /\ r = x - n * q
  <2>1. x \div n \in Nat /\ x % n \in 0..(n - 1) /\ x % n = x - n * (x \div n)
    BY DivMod, Zenon
  <2> QED BY <2>1
<1>2. PICK z \in Nat : z = r + y
  OBVIOUS
<1>3. PICK v \in Nat, t \in 0..(n - 1) : t = z % n /\ t = z - n * v
  <2>1. z \div n \in Nat /\ z % n \in 0..(n - 1) /\ z % n = z - n * (z \div n)
    BY DivMod, Zenon
  <2> QED BY <2>1
<1>4. n * (q + v) = n * q + n * v /\ n * q \in Nat /\ n * v \in Nat /\ q + v \in Nat
  BY ONLY n \in Nat, q \in Nat, v \in Nat
<1>5. x + y = n * (q + v) + t
  <2>1. PICK a \in Nat, b \in Nat : a = n * q /\ b = n * v
    BY <1>4
  <2> QED BY <1>1, <1>2, <1>3, <1>4, <2>1
<1>6. (n * (q + v) + t) % n = t
  BY <1>4, ModOf
<1> QED BY <1>1, <1>2, <1>3, <1>5, <1>6

(* The names of the constants' types, which the later proofs cite.         *)
LEMMA SizeTypes ==
  /\ Word \in Nat \ {0} /\ SPR_ALIGN_SIZE \in Nat \ {0}
  /\ SPR_PAGE_SIZE \in Nat \ {0} /\ SPR_MAX_POOL_SLOT \in Nat \ {0}
  /\ SizeofMemnode \in Nat \ {0} /\ SizeofPool \in Nat \ {0}
  /\ SizeofMutex \in Nat \ {0} /\ SizeofCleanup \in Nat \ {0}
BY SizesAssumption DEF SizesAssumption

-----------------------------------------------------------------------------
(* Sequences.                                                              *)

(* Putting an element in front of a list keeps its type.                   *)
LEMMA ConsType ==
  ASSUME NEW S, NEW x \in S, NEW s \in Seq(S)
  PROVE  <<x>> \o s \in Seq(S)
OBVIOUS

(* Taking an element out of a list keeps its type.                         *)
LEMMA TakeOutType ==
  ASSUME NEW S, NEW s \in Seq(S), NEW k \in DOMAIN s
  PROVE  SubSeq(s, 1, k - 1) \o SubSeq(s, k + 1, Len(s)) \in Seq(S)
<1>1. k \in 1..Len(s)
  OBVIOUS
<1>2. SubSeq(s, 1, k - 1) \in Seq(S)
  BY <1>1, SubSeqProperties
<1>3. SubSeq(s, k + 1, Len(s)) \in Seq(S)
  BY <1>1, SubSeqProperties
<1> QED
  BY <1>2, <1>3

-----------------------------------------------------------------------------
(* The size arithmetic of spr_palloc and spr_pool_create1.                 *)

(* Aligning a size yields a natural number, whatever it wraps to.          *)
LEMMA AlignNat ==
  ASSUME NEW size \in Nat
  PROVE  spr_align_allocation(size) \in Nat
<1>1. (size + (SPR_ALIGN_SIZE - 1)) % Word \in Nat
  BY SizeTypes, ModRange
<1>2. spr_align_default(size) \in Nat
  BY <1>1, SizeTypes, DivRange DEF spr_align_default
<1> QED
  BY <1>2, SizeTypes DEF spr_align_allocation, SPR_MIN_ALLOC

(* An aligned size is larger than the size by at most the least            *)
(* allocation, if nothing wraps around.                                    *)
LEMMA AlignBounds ==
  ASSUME NEW size \in Nat, size + SPR_MIN_ALLOC < Word
  PROVE  spr_align_allocation(size) <= size + SPR_MIN_ALLOC
<1> DEFINE up == size + (SPR_ALIGN_SIZE - 1)
<1>1. up \in 0..(Word - 1) /\ up \in Nat
  BY SizeTypes DEF SPR_MIN_ALLOC
<1>2. up % Word = up
  BY <1>1, SizeTypes, ModSmall
<1>3. spr_align_default(size) = (up \div SPR_ALIGN_SIZE) * SPR_ALIGN_SIZE
  BY <1>2 DEF spr_align_default
<1>4. (up \div SPR_ALIGN_SIZE) * SPR_ALIGN_SIZE <= up
  BY <1>1, SizeTypes, DivRange
<1>5. spr_align_default(size) <= size + SPR_MIN_ALLOC
  BY <1>3, <1>4, <1>1, SizeTypes, DivRange DEF SPR_MIN_ALLOC
<1> QED
  BY <1>5, AlignNat, SizeTypes DEF spr_align_allocation, SPR_MIN_ALLOC

(* A memnode is asked for with a positive number of pages.                 *)
LEMMA NPagesPositive ==
  ASSUME NEW size \in Nat
  PROVE  spr_get_npages(size) \in Nat \ {0}
<1>1. (size + SizeofMemnode) % Word \in Nat
  BY SizeTypes, ModRange
<1> QED
  BY <1>1, SizeTypes, DivRange DEF spr_get_npages

(* A memnode of that many pages holds its header and the aligned size.     *)
LEMMA NPagesFit ==
  ASSUME NEW size \in Nat, size + SizeofMemnode < Word
  PROVE  size + SizeofMemnode < spr_get_npages(size) * SPR_PAGE_SIZE
<1> DEFINE total == size + SizeofMemnode
<1>1. total % Word = total /\ total \in Nat
  BY SizeTypes, ModSmall
<1>2. CASE total < SPR_PAGE_SIZE
  <2>1. spr_get_npages(size) = 1
    BY <1>1, <1>2 DEF spr_get_npages
  <2> QED
    BY <1>2, <2>1, SizeTypes
<1>3. CASE ~ (total < SPR_PAGE_SIZE)
  <2> DEFINE q == total \div SPR_PAGE_SIZE
  <2>1. spr_get_npages(size) = q + 1
    BY <1>1, <1>3 DEF spr_get_npages
  <2>2. q \in Nat /\ total < SPR_PAGE_SIZE * q + SPR_PAGE_SIZE
    BY <1>1, SizeTypes, DivRange
  <2> HIDE DEF q, total
  <2>3. (q + 1) * SPR_PAGE_SIZE = SPR_PAGE_SIZE * q + SPR_PAGE_SIZE
    BY <2>2, SizeTypes
  <2>4. total < (q + 1) * SPR_PAGE_SIZE
    BY <2>2, <2>3
  <2> QED
    BY <2>1, <2>4 DEF total
<1> QED
  BY <1>2, <1>3

(* The largest memnode a slot index can stand for is below 2^w and holds   *)
(* the headers of a pool.                                                  *)
LEMMA PagesBounds ==
  ASSUME NEW pages \in 1..(SPR_MAX_POOL_SLOT + 1)
  PROVE  /\ pages * SPR_PAGE_SIZE \in Nat
         /\ pages * SPR_PAGE_SIZE < Word
         /\ SizeofMemnode + SizeofPool + SizeofMutex < pages * SPR_PAGE_SIZE
<1>1. pages * SPR_PAGE_SIZE <= (SPR_MAX_POOL_SLOT + 1) * SPR_PAGE_SIZE
  BY SizeTypes
<1>2. SPR_PAGE_SIZE <= pages * SPR_PAGE_SIZE
  BY SizeTypes
<1> QED
  BY <1>1, <1>2, SizeTypes, SizesAssumption DEF SizesAssumption

-----------------------------------------------------------------------------
(* Type correctness.  While a handler runs, cur is the cleanup node that   *)
(* the call which waits for it is going to put into the reserve.           *)
TypeInv ==
  /\ TypeOK
  /\ pc = "handler" => cur \in Cleanup

(* Assigning fields of a memnode leaves a memnode.                         *)
LEMMA FieldsType ==
  ASSUME NEW h \in MemNode, NEW b \in Nat, NEW f \in Nat, NEW s \in Nat, NEW a \in Nat
  PROVE  /\ [h EXCEPT !.begin = b, !.first_avail = f,
                      !.size = s, !.size_avail = a] \in MemNode
         /\ [h EXCEPT !.size_avail = a, !.first_avail = f] \in MemNode
         /\ [h EXCEPT !.first_avail = f, !.size_avail = a] \in MemNode
BY DEF MemNode

(* A new memnode is a memnode.                                             *)
LEMMA MemnodeType ==
  ASSUME NEW pages \in Nat
  PROVE  /\ spr_memnode_allocate(pages) \in MemNode
         /\ \A root \in BOOLEAN : HomeNode(pages, root) \in MemNode
<1> DEFINE size == (pages * SPR_PAGE_SIZE) % Word
<1>1. size \in Nat
  BY SizeTypes, ModRange
<1>2. (size - SizeofMemnode) % Word \in Nat
  BY <1>1, SizeTypes, ModRange
<1>3. spr_memnode_allocate(pages) \in MemNode
  BY <1>2, SizeTypes DEF spr_memnode_allocate, MemNode
<1>4. ASSUME NEW root \in BOOLEAN
      PROVE  HomeNode(pages, root) \in MemNode
  <2> DEFINE h     == spr_memnode_allocate(pages)
             taken == SizeofPool + (IF root THEN SizeofMutex ELSE 0)
  <2>1. h \in MemNode /\ taken \in Nat
    BY <1>3, SizeTypes
  <2> HIDE DEF h, taken
  <2>2. h.size - taken \in Int
    BY <2>1 DEF MemNode
  <2>3. (h.size - taken) % Word \in Nat
    BY <2>2, SizeTypes, ModRange
  <2>4. [h EXCEPT !.begin       = @ + taken,
                  !.first_avail = h.begin + taken,
                  !.size        = (@ - taken) % Word,
                  !.size_avail  = (h.size - taken) % Word] \in MemNode
    <3>1. h.begin + taken \in Nat
      BY <2>1 DEF MemNode
    <3> QED
      BY <2>1, <2>3, <3>1, FieldsType
  <2> QED
    BY <2>4 DEF HomeNode, h, taken
<1> QED
  BY <1>3, <1>4

(* The memnode spr_palloc takes its bytes from, old or new.                *)
LEMMA SourceType ==
  ASSUME TypeOK, NEW n \in Nodes, NEW index \in Nat
  PROVE  Source(n, index) \in MemNode
<1>1. n \in DOMAIN heap => heap[n] \in MemNode
  BY DEF TypeOK
<1>2. spr_memnode_allocate(index + 1) \in MemNode
  BY MemnodeType
<1> QED
  BY <1>1, <1>2 DEF Source

(* Taking bytes keeps the types of everything it changes.                  *)
LEMMA TakeBytesType ==
  ASSUME TypeOK, NEW n \in Nodes, NEW align_size \in Nat, NEW index \in Nat,
         TakeBytes(n, align_size, index)
  PROVE  /\ BlockOf(n, align_size, index) \in Block
         /\ DOMAIN heap' \subseteq Nodes
         /\ heap' \in [DOMAIN heap' -> MemNode]
         /\ nodes' \in [Slots -> Seq(Nodes)]
         /\ parent' \in Nodes \cup {NULL, ParentPool}
         /\ home' \in Nodes \cup {NULL}
         /\ blocks' \subseteq Block
         /\ fault' \in {fault, "overlap"}
<1> DEFINE h == Source(n, index)
<1>1. h \in MemNode
  BY SourceType
<1> HIDE DEF h
<1>2. BlockOf(n, align_size, index) \in Block
  BY <1>1 DEF BlockOf, Block, MemNode, h
<1>3. /\ (h.size_avail - align_size) % Word \in Nat
      /\ (h.first_avail + align_size) % Word \in Nat
  <2>1. h.size_avail - align_size \in Int /\ h.first_avail + align_size \in Int
    BY <1>1 DEF MemNode
  <2>2. (h.size_avail - align_size) % Word \in Nat
    BY <2>1, SizeTypes, ModRange
  <2>3. (h.first_avail + align_size) % Word \in Nat
    BY <2>1, SizeTypes, ModRange
  <2> QED
    BY <2>2, <2>3
<1>4. [h EXCEPT !.size_avail  = (@ - align_size) % Word,
                !.first_avail = (@ + align_size) % Word] \in MemNode
  BY <1>1, <1>3, FieldsType
<1>5. heap' = [m \in DOMAIN heap \cup {n} |->
                 IF m = n
                 THEN [h EXCEPT !.size_avail  = (@ - align_size) % Word,
                                !.first_avail = (@ + align_size) % Word]
                 ELSE heap[m]]
  BY DEF TakeBytes, h
<1>6. DOMAIN heap' \subseteq Nodes /\ heap' \in [DOMAIN heap' -> MemNode]
  BY <1>4, <1>5 DEF TypeOK
<1>7. nodes' \in [Slots -> Seq(Nodes)] /\ parent' \in Nodes \cup {NULL, ParentPool}
  <2>1. CASE UNCHANGED <<nodes, parent>>
    BY <2>1 DEF TypeOK
  <2>2. CASE Register(index, n)
    <3>1. CASE index \in Slots
      <4>1. <<n>> \o nodes[index] \in Seq(Nodes)
        BY <3>1, ConsType DEF TypeOK
      <4> QED
        BY <2>2, <3>1, <4>1 DEF Register, TypeOK
    <3>2. CASE index \notin Slots
      BY <2>2, <3>2 DEF Register, TypeOK
    <3> QED
      BY <3>1, <3>2
  <2> QED
    BY <2>1, <2>2 DEF TakeBytes
<1>8. /\ home' \in Nodes \cup {NULL}
      /\ blocks' \subseteq Block
      /\ fault' \in {fault, "overlap"}
  BY <1>2 DEF TakeBytes, TypeOK
<1> QED
  BY <1>2, <1>6, <1>7, <1>8

(* Registering an entry keeps the types of everything it changes.          *)
LEMMA AddCleanupType ==
  ASSUME TypeOK, NEW d \in Data \cup Large, AddCleanup(d)
  PROVE  /\ DOMAIN heap' \subseteq Nodes
         /\ heap' \in [DOMAIN heap' -> MemNode]
         /\ nodes' \in [Slots -> Seq(Nodes)]
         /\ parent' \in Nodes \cup {NULL, ParentPool}
         /\ home' \in Nodes \cup {NULL}
         /\ blocks' \subseteq Block
         /\ fault' \in {fault, "overlap", "null"}
         /\ cleanups' \in Seq(Cleanup)
         /\ free_cleanups' \in Seq(Block)
<1> DEFINE a     == spr_align_allocation(SizeofCleanup)
           index == SlotIndex(a)
<1>1. a \in Nat /\ index \in Nat
  BY SizeTypes, AlignNat, NPagesPositive DEF SlotIndex
<1> HIDE DEF a, index
<1>2. CASE /\ free_cleanups # <<>>
           /\ cleanups' = <<[at |-> Head(free_cleanups), data |-> d]>> \o cleanups
           /\ free_cleanups' = Tail(free_cleanups)
           /\ UNCHANGED <<memory, fault>>
  <2>1. Head(free_cleanups) \in Block /\ Tail(free_cleanups) \in Seq(Block)
    BY <1>2 DEF TypeOK
  <2>2. [at |-> Head(free_cleanups), data |-> d] \in Cleanup
    BY <2>1 DEF Cleanup
  <2>3. cleanups' \in Seq(Cleanup)
    BY <1>2, <2>2, ConsType DEF TypeOK
  <2> QED
    BY <1>2, <2>1, <2>3 DEF TypeOK, memory
<1>3. CASE \E n \in Nodes :
             /\ TakeBytes(n, a, index)
             /\ cleanups' = <<[at |-> BlockOf(n, a, index), data |-> d]>> \o cleanups
             /\ UNCHANGED free_cleanups
  <2> PICK n \in Nodes :
             /\ TakeBytes(n, a, index)
             /\ cleanups' = <<[at |-> BlockOf(n, a, index), data |-> d]>> \o cleanups
             /\ UNCHANGED free_cleanups
    BY <1>3
  <2>1. BlockOf(n, a, index) \in Block
    BY <1>1, TakeBytesType
  <2>2. [at |-> BlockOf(n, a, index), data |-> d] \in Cleanup
    BY <2>1 DEF Cleanup
  <2>3. cleanups' \in Seq(Cleanup)
    BY <2>2, ConsType DEF TypeOK
  <2>4. free_cleanups' \in Seq(Block)
    BY DEF TypeOK
  <2> QED
    BY <1>1, <2>3, <2>4, TakeBytesType
<1>4. CASE fault' = "null" /\ UNCHANGED <<memory, cleanups, free_cleanups>>
  BY <1>4 DEF TypeOK, memory
<1> QED
  BY <1>2, <1>3, <1>4 DEF AddCleanup, a, index

(* Unlinking an entry keeps the types of the list and of the reserve.      *)
LEMMA UnlinkType ==
  ASSUME TypeOK, NEW k \in DOMAIN cleanups, Unlink(k)
  PROVE  cleanups' \in Seq(Cleanup) /\ free_cleanups' \in Seq(Block)
<1>1. cleanups \in Seq(Cleanup) /\ free_cleanups \in Seq(Block)
  BY DEF TypeOK
<1>2. cleanups[k].at \in Block
  <2>1. cleanups[k] \in Cleanup
    BY <1>1
  <2> QED
    BY <2>1 DEF Cleanup
<1>3. cleanups' \in Seq(Cleanup)
  BY <1>1, TakeOutType DEF Unlink
<1>4. free_cleanups' \in Seq(Block)
  BY <1>1, <1>2, ConsType DEF Unlink
<1> QED
  BY <1>3, <1>4

(* The sizes clients ask for are natural numbers.                          *)
LEMMA SizeInNat == \A size \in Sizes : size \in Nat
BY SizeTypes, PoolAssumption DEF PoolAssumption

(* The size that spr_pool_create1 asks for.                                *)
LEMMA CreateSize ==
  ASSUME NEW size \in Sizes
  PROVE  (spr_align_allocation(size) + SizeofPool) % Word \in Nat
<1>1. size \in Nat
  BY SizeInNat
<1>2. spr_align_allocation(size) \in Nat /\ SizeofPool \in Nat /\ Word \in Nat \ {0}
  BY <1>1, AlignNat, SizeTypes
<1>3. PICK x : x = spr_align_allocation(size) + SizeofPool
  OBVIOUS
<1>4. x \in Int
  BY <1>2, <1>3
<1>5. x % Word \in 0..(Word - 1)
  BY ONLY <1>2, <1>4, ModRange
<1>6. x % Word \in Nat
  BY <1>2, <1>5
<1> QED
  BY <1>3, <1>6

(* No pool exists before the first call.                                   *)
LEMMA TypeInit == Init => TypeInv
<1> SUFFICES ASSUME Init PROVE TypeInv
  OBVIOUS
<1>1. heap \in [DOMAIN heap -> MemNode] /\ DOMAIN heap \subseteq Nodes
  BY DEF Init
<1>2. nodes \in [Slots -> Seq(Nodes)]
  BY DEF Init
<1> QED
  BY <1>1, <1>2 DEF Init, TypeInv, TypeOK

(* spr_pool_create1.                                                       *)
LEMMA TypeCreate ==
  ASSUME TypeInv, NEW size \in Sizes, NEW root \in BOOLEAN,
         spr_pool_create1(size, root)
  PROVE  TypeInv'
<1> DEFINE a     == (spr_align_allocation(size) + SizeofPool) % Word
           index == SlotIndex(a)
<1>1. a \in Nat
  BY CreateSize
<1>2. index \in Nat
  BY <1>1, NPagesPositive DEF SlotIndex
<1> HIDE DEF a, index
<1>3. CASE UNCHANGED vars
  BY <1>3 DEF TypeInv, TypeOK, vars, memory, lists, frame
<1>4. ASSUME NEW n \in Nodes,
             heap' = [m \in {n} |-> HomeNode(index + 1, root)],
             home' = n,
             nodes' = [k \in Slots |-> IF k = index THEN <<n>> ELSE <<>>],
             parent' = IF ~root THEN ParentPool
                       ELSE IF index \in Slots THEN NULL ELSE n,
             pc' = "idle",
             UNCHANGED <<blocks, op, rest, cur, i, lists, fault>>
      PROVE  TypeInv'
  <2>1. HomeNode(index + 1, root) \in MemNode
    BY <1>2, MemnodeType
  <2>2. DOMAIN heap' \subseteq Nodes /\ heap' \in [DOMAIN heap' -> MemNode]
    BY <1>4, <2>1
  <2>3. nodes' \in [Slots -> Seq(Nodes)]
    BY <1>4
  <2> QED
    BY <1>4, <2>2, <2>3 DEF TypeInv, TypeOK, lists
<1> QED
  BY <1>3, <1>4 DEF spr_pool_create1, a, index, vars, memory, lists, frame

(* spr_palloc and spr_pool_cleanup_add1.                                   *)
LEMMA TypeAlloc ==
  ASSUME TypeInv,
         \/ \E size \in Sizes : spr_palloc(size)
         \/ \E d \in Data : spr_pool_cleanup_add1(d)
  PROVE  TypeInv'
<1>1. ASSUME NEW a \in Nat, NEW index \in Nat, PallocSmall(a, index), UNCHANGED frame
      PROVE  TypeInv'
  <2>1. CASE UNCHANGED <<memory, lists, fault>>
    BY <1>1, <2>1 DEF TypeInv, TypeOK, memory, lists, frame
  <2>2. CASE (\E n \in Nodes : TakeBytes(n, a, index)) /\ UNCHANGED lists
    BY <1>1, <2>2, TakeBytesType DEF TypeInv, TypeOK, lists, frame
  <2> QED
    BY <1>1, <2>1, <2>2 DEF PallocSmall
<1>2. ASSUME PallocLarge, UNCHANGED frame
      PROVE  TypeInv'
  <2>1. CASE UNCHANGED <<memory, lists, fault>>
    BY <1>2, <2>1 DEF TypeInv, TypeOK, memory, lists, frame
  <2>2. CASE \E m \in Large \ malloced : malloced' = malloced \cup {m} /\ AddCleanup(m)
    BY <1>2, <2>2, AddCleanupType DEF TypeInv, TypeOK, frame
  <2> QED
    BY <1>2, <2>1, <2>2 DEF PallocLarge
<1>3. ASSUME NEW size \in Sizes, spr_palloc(size)
      PROVE  TypeInv'
  <2>1. spr_align_allocation(size) \in Nat
    BY SizeInNat, AlignNat
  <2>2. SlotIndex(spr_align_allocation(size)) \in Nat
    BY <2>1, NPagesPositive DEF SlotIndex
  <2>3. CASE UNCHANGED <<memory, lists, fault>> /\ UNCHANGED frame
    BY <2>3 DEF TypeInv, TypeOK, memory, lists, frame
  <2> QED
    BY <1>1, <1>2, <1>3, <2>1, <2>2, <2>3 DEF spr_palloc
<1>4. ASSUME NEW d \in Data, spr_pool_cleanup_add1(d)
      PROVE  TypeInv'
  BY <1>4, AddCleanupType DEF TypeInv, TypeOK, spr_pool_cleanup_add1, frame
<1> QED
  BY <1>3, <1>4

(* spr_pool_cleanup_run1, its return and spr_pool_cleanup_remove1.         *)
LEMMA TypeRemove ==
  ASSUME TypeInv, NEW d \in Data \cup Large,
         spr_pool_cleanup_run1(d) \/ spr_pool_cleanup_remove1(d) \/ ReturnToRun1
  PROVE  TypeInv'
<1>1. CASE spr_pool_cleanup_run1(d)
  <2>1. CASE UNCHANGED <<lists, frame>>
    BY <1>1, <2>1 DEF TypeInv, TypeOK, spr_pool_cleanup_run1, memory, lists, frame
  <2>2. ASSUME NEW k \in DOMAIN cleanups, malloced' = malloced \ {d},
               Unlink(k), UNCHANGED frame
        PROVE  TypeInv'
    BY <1>1, <2>2, UnlinkType DEF TypeInv, TypeOK, spr_pool_cleanup_run1, memory, frame
  <2>3. ASSUME NEW k \in DOMAIN cleanups, pc' = "handler", op' = "run",
               cur' = cleanups[k], i' = k, UNCHANGED <<lists, rest>>
        PROVE  TypeInv'
    <3>1. cleanups[k] \in Cleanup /\ k \in Nat
      BY DEF TypeInv, TypeOK
    <3> QED
      BY <1>1, <2>3, <3>1 DEF TypeInv, TypeOK, spr_pool_cleanup_run1, memory, lists
  <2> QED
    BY <1>1, <2>1, <2>2, <2>3 DEF spr_pool_cleanup_run1
<1>2. CASE spr_pool_cleanup_remove1(d)
  <2>1. CASE UNCHANGED lists
    BY <1>2, <2>1 DEF TypeInv, TypeOK, spr_pool_cleanup_remove1, memory, lists, frame
  <2>2. ASSUME NEW k \in DOMAIN cleanups, malloced' = malloced \ {d}, Unlink(k)
        PROVE  TypeInv'
    BY <1>2, <2>2, UnlinkType
       DEF TypeInv, TypeOK, spr_pool_cleanup_remove1, memory, frame
  <2> QED
    BY <1>2, <2>1, <2>2 DEF spr_pool_cleanup_remove1
<1>3. CASE ReturnToRun1
  <2>1. CASE UNCHANGED <<cleanups, free_cleanups>> /\ fault' = "wild"
    BY <1>3, <2>1 DEF TypeInv, TypeOK, ReturnToRun1, memory
  <2>2. ASSUME NEW k \in DOMAIN cleanups, Unlink(k), UNCHANGED fault
        PROVE  TypeInv'
    BY <1>3, <2>2, UnlinkType DEF TypeInv, TypeOK, ReturnToRun1, memory
  <2> QED
    BY <1>3, <2>1, <2>2 DEF ReturnToRun1
<1> QED
  BY <1>1, <1>2, <1>3

(* spr_pool_cleanup_run_all, the end of spr_pool_clear and the loop of     *)
(* spr_pool_destroy.                                                       *)
LEMMA TypeLoops ==
  ASSUME TypeInv,
         \/ spr_pool_clear \/ spr_pool_destroy
         \/ RunNext \/ ReturnToRunAll \/ FinishClear
         \/ StartFree \/ FreeSlot \/ FinishDestroy
  PROVE  TypeInv'
<1>1. CASE spr_pool_clear \/ spr_pool_destroy
  BY <1>1 DEF TypeInv, TypeOK, spr_pool_clear, spr_pool_destroy, StartRunAll,
              Callable, memory, lists
<1>2. CASE RunNext
  <2>1. Head(rest) \in Cleanup /\ Tail(rest) \in Seq(Cleanup)
    BY <1>2 DEF RunNext, TypeInv, TypeOK
  <2>2. Head(rest).at \in Block
    BY <2>1 DEF Cleanup
  <2>3. <<Head(rest).at>> \o free_cleanups \in Seq(Block)
    BY <2>2, ConsType DEF TypeInv, TypeOK
  <2> QED
    BY <1>2, <2>1, <2>3 DEF RunNext, TypeInv, TypeOK, memory
<1>3. CASE ReturnToRunAll
  <2>1. cur.at \in Block
    BY <1>3 DEF ReturnToRunAll, TypeInv, Cleanup
  <2>2. <<cur.at>> \o free_cleanups \in Seq(Block)
    BY <2>1, ConsType DEF TypeInv, TypeOK
  <2> QED
    BY <1>3, <2>2 DEF ReturnToRunAll, TypeInv, TypeOK, memory
<1>4. CASE FinishClear
  <2>1. \A n \in DOMAIN heap :
          [heap[n] EXCEPT !.first_avail = heap[n].begin,
                          !.size_avail  = heap[n].size] \in MemNode
    <3> TAKE n \in DOMAIN heap
    <3>1. heap[n] \in MemNode
      BY DEF TypeInv, TypeOK
    <3>2. heap[n].begin \in Nat /\ heap[n].size \in Nat
      BY <3>1 DEF MemNode
    <3> QED
      BY <3>1, <3>2, FieldsType
  <2>2. DOMAIN heap' \subseteq Nodes /\ heap' \in [DOMAIN heap' -> MemNode]
    BY <1>4, <2>1 DEF FinishClear, TypeInv, TypeOK
  <2> QED
    BY <1>4, <2>2 DEF FinishClear, TypeInv, TypeOK
<1>5. CASE StartFree
  BY <1>5 DEF StartFree, TypeInv, TypeOK, memory
<1>6. CASE FreeSlot
  <2>1. DOMAIN heap' \subseteq Nodes /\ heap' \in [DOMAIN heap' -> MemNode]
    BY <1>6 DEF FreeSlot, TypeInv, TypeOK
  <2>2. blocks' \subseteq Block /\ i' \in Nat
    BY <1>6 DEF FreeSlot, TypeInv, TypeOK
  <2> QED
    BY <1>6, <2>1, <2>2 DEF FreeSlot, TypeInv, TypeOK, lists
<1>7. CASE FinishDestroy
  BY <1>7 DEF FinishDestroy, TypeInv, TypeOK, memory, lists
<1> QED
  BY <1>1, <1>2, <1>3, <1>4, <1>5, <1>6, <1>7

(* Every step keeps the types.                                             *)
LEMMA TypeNext == TypeInv /\ [Next]_vars => TypeInv'
<1> SUFFICES ASSUME TypeInv, [Next]_vars PROVE TypeInv'
  OBVIOUS
<1>1. CASE UNCHANGED vars
  BY <1>1 DEF TypeInv, TypeOK, vars, memory, lists, frame
<1>2. CASE Internal
  <2>1. CASE ReturnToRun1
    <3>1. \E d \in Data \cup Large : TRUE
      <4>1. cur \in Cleanup
        BY <2>1 DEF ReturnToRun1, TypeInv
      <4> QED
        BY <4>1 DEF Cleanup
    <3> QED
      BY <2>1, <3>1, TypeRemove
  <2> QED
    BY <1>2, <2>1, TypeLoops DEF Internal
<1>3. CASE Calls
  BY <1>3, TypeCreate, TypeAlloc, TypeRemove, TypeLoops DEF Calls
<1> QED
  BY <1>1, <1>2, <1>3 DEF Next

(***************************************************************************)
(* Every variable keeps its type in every behaviour of the pool, for sizes *)
(* that wrap around too: all sums stay size_t values.                      *)
(***************************************************************************)
THEOREM TypeCorrect == Spec => []TypeOK
<1>1. TypeInv => TypeOK
  BY DEF TypeInv
<1> QED
  BY <1>1, TypeInit, TypeNext, PTL DEF Spec

-----------------------------------------------------------------------------
(***************************************************************************)
(* Memory safety of spr_palloc.  HeapInv relates the memnodes to the       *)
(* blocks handed out; that no block passes the end of its memnode needs    *)
(* the accounting, and that blocks are disjoint needs that all of them end *)
(* before first_avail, so that none of the four is inductive alone.        *)
(***************************************************************************)
PagesBounded ==
  \A n \in DOMAIN heap : heap[n].pages \in 1..(SPR_MAX_POOL_SLOT + 1)

HeapInv ==
  /\ PagesBounded
  /\ NodeAccounting
  /\ BlocksInNodes
  /\ BlocksDisjoint

IInv == TypeInv /\ HeapInv

(* No requested size is so close to 2^w that a sum wraps around.           *)
SizesFit == \A size \in Sizes : NoWrap(size)

(* What holds of a memnode h that is in use.                               *)
Accounted(h) ==
  /\ h \in MemNode
  /\ h.pages \in 1..(SPR_MAX_POOL_SLOT + 1)
  /\ h.begin <= h.first_avail
  /\ h.first_avail + h.size_avail = h.pages * SPR_PAGE_SIZE
  /\ h.begin + h.size = h.pages * SPR_PAGE_SIZE

(* A new memnode is accounted for, and all of it behind the header free.   *)
LEMMA FreshNode ==
  ASSUME NEW pages \in 1..(SPR_MAX_POOL_SLOT + 1)
  PROVE  /\ Accounted(spr_memnode_allocate(pages))
         /\ spr_memnode_allocate(pages).pages = pages
         /\ spr_memnode_allocate(pages).begin = SizeofMemnode
         /\ spr_memnode_allocate(pages).first_avail = SizeofMemnode
         /\ spr_memnode_allocate(pages).size = pages * SPR_PAGE_SIZE - SizeofMemnode
         /\ spr_memnode_allocate(pages).size_avail
              = pages * SPR_PAGE_SIZE - SizeofMemnode
<1> DEFINE bytes == pages * SPR_PAGE_SIZE
<1>1. /\ bytes \in Nat /\ bytes < Word
      /\ SizeofMemnode + SizeofPool + SizeofMutex < bytes
  BY PagesBounds
<1> HIDE DEF bytes
<1>2. bytes % Word = bytes
  BY <1>1, SizeTypes, ModSmall
<1>3. (bytes - SizeofMemnode) % Word = bytes - SizeofMemnode
  <2>1. bytes - SizeofMemnode \in 0..(Word - 1)
    BY <1>1, SizeTypes
  <2> QED
    BY <2>1, SizeTypes, ModSmall
<1>4. spr_memnode_allocate(pages) =
        [pages |-> pages, begin |-> SizeofMemnode, first_avail |-> SizeofMemnode,
         size |-> bytes - SizeofMemnode, size_avail |-> bytes - SizeofMemnode]
  BY <1>2, <1>3 DEF spr_memnode_allocate, bytes
<1>5. spr_memnode_allocate(pages) \in MemNode
  <2>1. pages \in Nat
    BY SizeTypes
  <2> QED
    BY <2>1, MemnodeType
<1> QED
  BY <1>1, <1>4, <1>5, SizeTypes DEF Accounted, bytes

(* The first memnode of a pool is accounted for behind the pool header.    *)
LEMMA FreshHome ==
  ASSUME NEW pages \in 1..(SPR_MAX_POOL_SLOT + 1), NEW root \in BOOLEAN
  PROVE  Accounted(HomeNode(pages, root))
<1> DEFINE h     == spr_memnode_allocate(pages)
           taken == SizeofPool + (IF root THEN SizeofMutex ELSE 0)
           bytes == pages * SPR_PAGE_SIZE
<1>1. taken \in Nat /\ taken <= SizeofPool + SizeofMutex
  BY SizeTypes
<1>2. /\ bytes \in Nat /\ bytes < Word
      /\ SizeofMemnode + SizeofPool + SizeofMutex < bytes
  BY PagesBounds
<1>3. /\ h \in MemNode /\ h.pages = pages
      /\ h.begin = SizeofMemnode /\ h.size = bytes - SizeofMemnode
  BY FreshNode DEF Accounted
<1>4. HomeNode(pages, root) =
        [h EXCEPT !.begin       = h.begin + taken,
                  !.first_avail = h.begin + taken,
                  !.size        = (h.size - taken) % Word,
                  !.size_avail  = (h.size - taken) % Word]
  BY DEF HomeNode
<1>5. HomeNode(pages, root) \in MemNode
  <2>1. pages \in Nat
    BY SizeTypes
  <2> QED
    BY <2>1, MemnodeType
<1> HIDE DEF h, taken, bytes
<1>6. (h.size - taken) % Word = bytes - SizeofMemnode - taken
  <2>1. h.size - taken \in 0..(Word - 1)
    BY <1>1, <1>2, <1>3, SizeTypes
  <2> QED
    BY <1>3, <2>1, SizeTypes, ModSmall
<1>7. /\ HomeNode(pages, root).pages = pages
      /\ HomeNode(pages, root).begin = SizeofMemnode + taken
      /\ HomeNode(pages, root).first_avail = SizeofMemnode + taken
      /\ HomeNode(pages, root).size = bytes - SizeofMemnode - taken
      /\ HomeNode(pages, root).size_avail = bytes - SizeofMemnode - taken
  BY <1>3, <1>4, <1>6 DEF MemNode
<1> QED
  BY <1>1, <1>2, <1>5, <1>7, SizeTypes DEF Accounted, bytes

(* The memnode spr_palloc settles on is accounted for and has the bytes.   *)
LEMMA SourceFits ==
  ASSUME IInv, NEW n \in Nodes, NEW a \in Nat, NEW index \in 0..SPR_MAX_POOL_SLOT,
         index = SlotIndex(a), a + SizeofMemnode < Word, TakeBytes(n, a, index)
  PROVE  /\ Accounted(Source(n, index))
         /\ a <= Source(n, index).size_avail
<1>1. CASE n \in FirstFit(a, index)
  BY <1>1 DEF FirstFit, Source, Accounted, IInv, TypeInv, TypeOK, HeapInv,
              PagesBounded, NodeAccounting
<1>2. CASE n \notin DOMAIN heap
  <2>1. index + 1 \in 1..(SPR_MAX_POOL_SLOT + 1)
    BY SizeTypes
  <2>2. index + 1 = spr_get_npages(a)
    BY NPagesPositive DEF SlotIndex
  <2>3. a + SizeofMemnode < (index + 1) * SPR_PAGE_SIZE
    BY <2>2, NPagesFit
  <2>4. /\ Accounted(spr_memnode_allocate(index + 1))
        /\ spr_memnode_allocate(index + 1).size_avail
             = (index + 1) * SPR_PAGE_SIZE - SizeofMemnode
    BY <2>1, FreshNode
  <2>5. (index + 1) * SPR_PAGE_SIZE \in Nat
    BY <2>1, PagesBounds
  <2>6. a <= spr_memnode_allocate(index + 1).size_avail
    BY <2>3, <2>4, <2>5, SizeTypes
  <2> QED
    BY <1>2, <2>4, <2>6 DEF Source
<1> QED
  BY <1>1, <1>2 DEF TakeBytes

(* Taking bytes keeps the memnodes accounted for, the blocks inside and    *)
(* disjoint: the new block begins where all others of its memnode end.     *)
LEMMA TakeBytesHeap ==
  ASSUME IInv, NEW n \in Nodes, NEW a \in Nat, NEW index \in 0..SPR_MAX_POOL_SLOT,
         index = SlotIndex(a), a + SizeofMemnode < Word, TakeBytes(n, a, index)
  PROVE  HeapInv'
<1> DEFINE h == Source(n, index)
           g == [h EXCEPT !.size_avail  = (@ - a) % Word,
                          !.first_avail = (@ + a) % Word]
           b == BlockOf(n, a, index)
<1>1. Accounted(h) /\ a <= h.size_avail
  BY SourceFits
<1>2. b = [node |-> n, off |-> h.first_avail, len |-> a]
  BY DEF BlockOf
<1>3. /\ heap' = [m \in DOMAIN heap \cup {n} |-> IF m = n THEN g ELSE heap[m]]
      /\ blocks' = blocks \cup {b}
  BY DEF TakeBytes
<1>4. n \in DOMAIN heap => h = heap[n]
  BY DEF Source
<1> HIDE DEF h, b
<1>5. /\ g.pages = h.pages /\ g.begin = h.begin /\ g.size = h.size
      /\ g.first_avail = h.first_avail + a
      /\ g.size_avail = h.size_avail - a
  <2>1. h.pages * SPR_PAGE_SIZE \in Nat /\ h.pages * SPR_PAGE_SIZE < Word
    BY <1>1, PagesBounds DEF Accounted
  <2>2. h.size_avail - a \in 0..(Word - 1) /\ h.first_avail + a \in 0..(Word - 1)
    BY <1>1, <2>1, SizeTypes DEF Accounted, MemNode
  <2>3. (h.size_avail - a) % Word = h.size_avail - a
    BY <2>2, SizeTypes, ModSmall
  <2>4. (h.first_avail + a) % Word = h.first_avail + a
    BY <2>2, SizeTypes, ModSmall
  <2> QED
    BY <1>1, <2>3, <2>4 DEF Accounted, MemNode
<1> HIDE DEF g
<1>6. PagesBounded' /\ NodeAccounting'
  BY <1>1, <1>3, <1>5, SizeTypes
     DEF IInv, HeapInv, PagesBounded, NodeAccounting, Accounted, MemNode
<1>7. h.pages * SPR_PAGE_SIZE \in Nat
  BY <1>1, PagesBounds DEF Accounted
<1>8. /\ b.node \in DOMAIN heap'
      /\ heap'[b.node].begin <= b.off
      /\ b.off + b.len <= heap'[b.node].first_avail
      /\ heap'[b.node].first_avail <= heap'[b.node].pages * SPR_PAGE_SIZE
  BY <1>1, <1>2, <1>3, <1>5, <1>7 DEF Accounted, MemNode
<1>9. ASSUME NEW c \in blocks
      PROVE  /\ c.node \in DOMAIN heap'
             /\ heap'[c.node].begin <= c.off
             /\ c.off + c.len <= heap'[c.node].first_avail
             /\ heap'[c.node].first_avail <= heap'[c.node].pages * SPR_PAGE_SIZE
             /\ ~ Overlaps(b, c) /\ ~ Overlaps(c, b)
  <2>1. /\ c \in Block /\ c.node \in DOMAIN heap
        /\ heap[c.node].begin <= c.off
        /\ c.off + c.len <= heap[c.node].first_avail
        /\ heap[c.node].first_avail <= heap[c.node].pages * SPR_PAGE_SIZE
    BY DEF IInv, TypeInv, TypeOK, HeapInv, BlocksInNodes
  <2>2. c.off \in Nat /\ c.len \in Nat
    BY <2>1 DEF Block
  <2>3. CASE c.node = n
    BY <1>1, <1>2, <1>3, <1>4, <1>5, <1>7, <2>1, <2>2, <2>3
       DEF Accounted, MemNode, Overlaps
  <2>4. CASE c.node # n
    BY <1>2, <1>3, <2>1, <2>4 DEF Overlaps
  <2> QED
    BY <2>3, <2>4
<1>10. BlocksInNodes'
  BY <1>3, <1>8, <1>9 DEF BlocksInNodes
<1>11. BlocksDisjoint'
  BY <1>3, <1>9 DEF BlocksDisjoint, IInv, HeapInv, Overlaps
<1> QED
  BY <1>6, <1>10, <1>11 DEF HeapInv

(* A step that changes no memnode and no block.                            *)
LEMMA HeapUnchanged ==
  ASSUME HeapInv, UNCHANGED <<heap, blocks>>
  PROVE  HeapInv'
BY DEF HeapInv, PagesBounded, NodeAccounting, BlocksInNodes, BlocksDisjoint, Overlaps

(* A cleanup node is taken from a memnode of one page.                     *)
LEMMA CleanupFits ==
  LET a == spr_align_allocation(SizeofCleanup)
  IN  a \in Nat /\ a + SizeofMemnode < Word /\ SlotIndex(a) = 0
<1> DEFINE a == spr_align_allocation(SizeofCleanup)
<1>1. SPR_PAGE_SIZE < Word
  <2>1. 1 \in 1..(SPR_MAX_POOL_SLOT + 1)
    BY SizeTypes
  <2>2. 1 * SPR_PAGE_SIZE < Word
    BY <2>1, PagesBounds
  <2> QED
    BY <2>2, SizeTypes
<1>2. SizeofMemnode + SizeofCleanup + SPR_MIN_ALLOC < SPR_PAGE_SIZE
  BY SizesAssumption DEF SizesAssumption, SPR_MIN_ALLOC
<1>3. a \in Nat
  BY AlignNat, SizeTypes
<1>4. a <= SizeofCleanup + SPR_MIN_ALLOC
  BY <1>1, <1>2, AlignBounds, SizeTypes DEF SPR_MIN_ALLOC
<1> HIDE DEF a
<1>5. a + SizeofMemnode < SPR_PAGE_SIZE
  BY <1>2, <1>3, <1>4, SizeTypes DEF SPR_MIN_ALLOC
<1>6. (a + SizeofMemnode) % Word = a + SizeofMemnode
  BY <1>1, <1>3, <1>5, ModSmall, SizeTypes
<1>7. spr_get_npages(a) = 1
  BY <1>5, <1>6 DEF spr_get_npages
<1> QED
  BY <1>1, <1>3, <1>5, <1>7, SizeTypes DEF SlotIndex, a

(* Registering an entry takes a node of the reserve or takes bytes.        *)
LEMMA AddCleanupHeap ==
  ASSUME IInv, NEW d, AddCleanup(d)
  PROVE  HeapInv'
<1> DEFINE a == spr_align_allocation(SizeofCleanup)
<1>1. a \in Nat /\ a + SizeofMemnode < Word /\ SlotIndex(a) = 0
  BY CleanupFits
<1> HIDE DEF a
<1>2. CASE UNCHANGED memory
  BY <1>2, HeapUnchanged DEF IInv, memory
<1>3. CASE \E n \in Nodes : TakeBytes(n, a, SlotIndex(a))
  <2>1. 0 \in 0..SPR_MAX_POOL_SLOT
    BY SizeTypes
  <2> QED
    BY <1>1, <1>3, <2>1, TakeBytesHeap
<1> QED
  BY <1>2, <1>3 DEF AddCleanup, a

(* A size that does not wrap around is aligned without wrapping around.    *)
LEMMA AlignedFits ==
  ASSUME SizesFit, NEW size \in Sizes
  PROVE  /\ spr_align_allocation(size) \in Nat
         /\ spr_align_allocation(size) + SizeofPool + SizeofMemnode < Word
<1>1. size \in Nat /\ size + SPR_MIN_ALLOC + SizeofPool + SizeofMemnode < Word
  BY SizeInNat DEF SizesFit, NoWrap
<1>2. SPR_MIN_ALLOC \in Nat
  BY SizeTypes DEF SPR_MIN_ALLOC
<1>3. spr_align_allocation(size) \in Nat
  BY <1>1, AlignNat
<1>4. spr_align_allocation(size) <= size + SPR_MIN_ALLOC
  BY <1>1, <1>2, AlignBounds, SizeTypes
<1> QED
  BY <1>1, <1>2, <1>3, <1>4, SizeTypes

(* The first memnode: spr_pool_create1.                                    *)
LEMMA HeapCreate ==
  ASSUME IInv, SizesFit, NEW size \in Sizes, NEW root \in BOOLEAN,
         pc = "none" => blocks = {}, spr_pool_create1(size, root)
  PROVE  HeapInv'
<1> DEFINE a     == (spr_align_allocation(size) + SizeofPool) % Word
           index == SlotIndex(a)
<1>1. a \in Nat
  BY CreateSize
<1>2. index \in Nat
  BY <1>1, NPagesPositive DEF SlotIndex
<1> HIDE DEF a, index
<1>3. CASE UNCHANGED memory
  BY <1>3, HeapUnchanged DEF IInv, memory
<1>4. ASSUME NEW n \in Nodes, index <= SPR_MAX_POOL_SLOT,
             heap' = [m \in {n} |-> HomeNode(index + 1, root)],
             blocks' = blocks
      PROVE  HeapInv'
  <2>1. index + 1 \in 1..(SPR_MAX_POOL_SLOT + 1)
    BY <1>2, <1>4, SizeTypes
  <2>2. Accounted(HomeNode(index + 1, root))
    BY <2>1, FreshHome
  <2>3. PagesBounded' /\ NodeAccounting'
    BY <1>4, <2>2 DEF PagesBounded, NodeAccounting, Accounted
  <2>4. blocks' = {}
    BY <1>4 DEF spr_pool_create1
  <2> QED
    BY <2>3, <2>4 DEF HeapInv, BlocksInNodes, BlocksDisjoint
<1> QED
  BY <1>3, <1>4 DEF spr_pool_create1, a, index

(* spr_palloc.                                                             *)
LEMMA HeapPalloc ==
  ASSUME IInv, SizesFit, NEW size \in Sizes, spr_palloc(size)
  PROVE  HeapInv'
<1> DEFINE a     == spr_align_allocation(size)
           index == SlotIndex(a)
<1>1. a \in Nat /\ a + SizeofMemnode < Word
  BY AlignedFits, SizeTypes
<1>2. index \in Nat
  BY <1>1, NPagesPositive DEF SlotIndex
<1>3. index = SlotIndex(a)
  OBVIOUS
<1> HIDE DEF a, index
<1>4. CASE UNCHANGED memory
  BY <1>4, HeapUnchanged DEF IInv, memory
<1>5. CASE index <= SPR_MAX_POOL_SLOT /\ \E n \in Nodes : TakeBytes(n, a, index)
  <2>1. index \in 0..SPR_MAX_POOL_SLOT
    BY <1>2, <1>5, SizeTypes
  <2> QED
    BY <1>1, <1>3, <1>5, <2>1, TakeBytesHeap
<1>6. CASE \E m \in Large : AddCleanup(m)
  BY <1>6, AddCleanupHeap
<1> QED
  BY <1>4, <1>5, <1>6 DEF spr_palloc, PallocSmall, PallocLarge, a, index

(* The end of spr_pool_clear makes all memnodes empty again.               *)
LEMMA HeapClear ==
  ASSUME IInv, FinishClear
  PROVE  HeapInv'
<1>1. ASSUME NEW n \in DOMAIN heap
      PROVE  /\ heap'[n].pages = heap[n].pages
             /\ heap'[n].begin = heap[n].begin
             /\ heap'[n].size = heap[n].size
             /\ \/ heap'[n] = heap[n]
                \/ /\ heap'[n].first_avail = heap[n].begin
                   /\ heap'[n].size_avail = heap[n].size
  <2>1. heap[n] \in MemNode
    BY DEF IInv, TypeInv, TypeOK
  <2> DEFINE g == [heap[n] EXCEPT !.first_avail = heap[n].begin,
                                  !.size_avail  = heap[n].size]
  <2>2. heap'[n] = g \/ heap'[n] = heap[n]
    BY DEF FinishClear
  <2>3. /\ g.pages = heap[n].pages /\ g.begin = heap[n].begin /\ g.size = heap[n].size
        /\ g.first_avail = heap[n].begin /\ g.size_avail = heap[n].size
    BY <2>1 DEF MemNode
  <2> HIDE DEF g
  <2> QED
    BY <2>2, <2>3
<1>2. DOMAIN heap' = DOMAIN heap /\ blocks' = {}
  BY DEF FinishClear
<1>3. ASSUME NEW n \in DOMAIN heap PROVE heap[n] \in MemNode
  BY DEF IInv, TypeInv, TypeOK
<1>4. PagesBounded'
  BY <1>1, <1>2 DEF IInv, HeapInv, PagesBounded
<1>5. NodeAccounting'
  BY <1>1, <1>2, <1>3 DEF IInv, HeapInv, NodeAccounting, MemNode
<1> QED
  BY <1>2, <1>4, <1>5 DEF HeapInv, BlocksInNodes, BlocksDisjoint

(* A memnode is freed together with the blocks in it.                      *)
LEMMA HeapFree ==
  ASSUME IInv, FreeSlot
  PROVE  HeapInv'
<1>1. CASE UNCHANGED <<heap, blocks>>
  BY <1>1, HeapUnchanged DEF IInv
<1>2. ASSUME NEW freed, heap' = [n \in DOMAIN heap \ freed |-> heap[n]],
             blocks' = {b \in blocks : b.node \notin freed}
      PROVE  HeapInv'
  BY <1>2 DEF IInv, HeapInv, PagesBounded, NodeAccounting, BlocksInNodes,
              BlocksDisjoint, Overlaps
<1> QED
  BY <1>1, <1>2 DEF FreeSlot

(* No block is handed out before the pool exists.                          *)
EmptyAtFirst == pc = "none" => blocks = {}

(* Every step keeps the memory safe.                                       *)
LEMMA HeapNext ==
  ASSUME IInv, EmptyAtFirst, SizesFit, [Next]_vars
  PROVE  HeapInv'
<1>1. CASE UNCHANGED <<heap, blocks>>
  BY <1>1, HeapUnchanged DEF IInv
<1>2. ASSUME NEW size \in Sizes, NEW root \in BOOLEAN, spr_pool_create1(size, root)
      PROVE  HeapInv'
  BY <1>2, HeapCreate DEF EmptyAtFirst
<1>3. ASSUME NEW size \in Sizes, spr_palloc(size)
      PROVE  HeapInv'
  BY <1>3, HeapPalloc
<1>4. ASSUME NEW d \in Data, spr_pool_cleanup_add1(d)
      PROVE  HeapInv'
  BY <1>4, AddCleanupHeap DEF spr_pool_cleanup_add1
<1>5. ASSUME NEW d \in Data \cup Large,
             spr_pool_cleanup_run1(d) \/ spr_pool_cleanup_remove1(d)
      PROVE  HeapInv'
  BY <1>1, <1>5 DEF spr_pool_cleanup_run1, spr_pool_cleanup_remove1, memory
<1>6. CASE \/ spr_pool_clear \/ spr_pool_destroy \/ RunNext
           \/ ReturnToRunAll \/ ReturnToRun1 \/ StartFree \/ FinishDestroy
  BY <1>1, <1>6 DEF spr_pool_clear, spr_pool_destroy, StartRunAll, RunNext,
                    ReturnToRunAll, ReturnToRun1, StartFree, FinishDestroy, memory
<1>7. CASE FinishClear
  BY <1>7, HeapClear
<1>8. CASE FreeSlot
  BY <1>8, HeapFree
<1>9. CASE UNCHANGED vars
  BY <1>1, <1>9 DEF vars, memory
<1> QED
  BY <1>2, <1>3, <1>4, <1>5, <1>6, <1>7, <1>8, <1>9 DEF Next, Calls, Internal

(* No call on the pool makes it not exist, and none works before it does.  *)
LEMMA EmptyAtFirstNext ==
  ASSUME EmptyAtFirst, [Next]_vars
  PROVE  EmptyAtFirst'
<1>1. ASSUME NEW size \in Sizes, NEW root \in BOOLEAN, spr_pool_create1(size, root)
      PROVE  EmptyAtFirst'
  BY <1>1 DEF EmptyAtFirst, spr_pool_create1, memory, frame
<1>2. ASSUME pc # "none", pc' = pc
      PROVE  EmptyAtFirst'
  BY <1>2 DEF EmptyAtFirst
<1>3. ASSUME NEW size \in Sizes, spr_palloc(size)
      PROVE  EmptyAtFirst'
  BY <1>2, <1>3 DEF spr_palloc, PallocSmall, PallocLarge, Callable, frame
<1>4. ASSUME NEW d \in Data, spr_pool_cleanup_add1(d)
      PROVE  EmptyAtFirst'
  BY <1>2, <1>4 DEF spr_pool_cleanup_add1, Callable, frame
<1>5. ASSUME NEW d \in Data \cup Large,
             spr_pool_cleanup_run1(d) \/ spr_pool_cleanup_remove1(d)
      PROVE  EmptyAtFirst'
  BY <1>5 DEF EmptyAtFirst, spr_pool_cleanup_run1, spr_pool_cleanup_remove1,
              Callable, frame
<1>6. CASE spr_pool_clear \/ spr_pool_destroy \/ Internal
  BY <1>6 DEF EmptyAtFirst, spr_pool_clear, spr_pool_destroy, StartRunAll, Internal,
              RunNext, ReturnToRunAll, ReturnToRun1, FinishClear, StartFree, FreeSlot,
              FinishDestroy
<1>7. CASE UNCHANGED vars
  BY <1>7 DEF EmptyAtFirst, vars, memory, frame
<1> QED
  BY <1>1, <1>3, <1>4, <1>5, <1>6, <1>7 DEF Next, Calls

(* The inductive invariant holds throughout.                               *)
LEMMA Invariance == SizesFit => (Spec => [](IInv /\ EmptyAtFirst))
<1> SUFFICES ASSUME SizesFit PROVE Spec => [](IInv /\ EmptyAtFirst)
  OBVIOUS
<1>1. Init => IInv /\ EmptyAtFirst
  <2> SUFFICES ASSUME Init PROVE IInv /\ EmptyAtFirst
    OBVIOUS
  <2>1. DOMAIN heap = {} /\ blocks = {}
    BY DEF Init
  <2> QED
    BY <2>1, TypeInit DEF IInv, EmptyAtFirst, HeapInv, PagesBounded,
                          NodeAccounting, BlocksInNodes, BlocksDisjoint
<1>2. IInv /\ EmptyAtFirst /\ [Next]_vars => (IInv /\ EmptyAtFirst)'
  BY TypeNext, HeapNext, EmptyAtFirstNext DEF IInv
<1> QED
  BY <1>1, <1>2, PTL DEF Spec

(***************************************************************************)
(* What spr_palloc has carved off a memnode and what size_avail says is    *)
(* left add up to the memnode, in every pool whose clients ask for sizes   *)
(* that do not wrap around.                                                *)
(***************************************************************************)
THEOREM AccountingHolds == SizesFit => (Spec => []NodeAccounting)
<1>1. IInv => NodeAccounting
  BY DEF IInv, HeapInv
<1> QED
  BY <1>1, Invariance, PTL

(***************************************************************************)
(* Every block lies behind the headers of a memnode that is still          *)
(* allocated, under the same condition on the sizes.                       *)
(***************************************************************************)
THEOREM BlocksStayInside == SizesFit => (Spec => []BlocksInNodes)
<1>1. IInv => BlocksInNodes
  BY DEF IInv, HeapInv
<1> QED
  BY <1>1, Invariance, PTL

(***************************************************************************)
(* spr_palloc never hands out a byte twice between two clears, whatever    *)
(* the order of calls, nested handlers included.                           *)
(***************************************************************************)
THEOREM BlocksNeverOverlap == SizesFit => (Spec => []BlocksDisjoint)
<1>1. IInv => BlocksDisjoint
  BY DEF IInv, HeapInv
<1> QED
  BY <1>1, Invariance, PTL

-----------------------------------------------------------------------------
(***************************************************************************)
(* The slot table.  No request is of the one size class whose slot index   *)
(* is SPR_MAX_POOL_SLOT, which spr_palloc and spr_pool_create1 register    *)
(* behind the table; sizes may wrap around.                                *)
(***************************************************************************)
NoExtraSlot ==
  \A size \in Sizes :
    /\ SlotIndex(spr_align_allocation(size)) # SPR_MAX_POOL_SLOT
    /\ SlotIndex((spr_align_allocation(size) + SizeofPool) % Word) # SPR_MAX_POOL_SLOT

InSlots(from) == {n \in Nodes : \E k \in Slots : k >= from /\ \E j \in DOMAIN nodes[k] : n = nodes[k][j]}

(* A memnode is in one place of the table.                                 *)
OnePlace ==
  \A k, k2 \in Slots : \A j \in DOMAIN nodes[k], j2 \in DOMAIN nodes[k2] :
    nodes[k][j] = nodes[k2][j2] => k = k2 /\ j = j2

(* What is in slot k has k + 1 pages while it is allocated.                *)
PagesOfSlot ==
  \A k \in Slots : \A j \in DOMAIN nodes[k] :
    nodes[k][j] \in DOMAIN heap => heap[nodes[k][j]].pages = k + 1

(* The memnodes allocated are those in the table, and while                *)
(* spr_pool_destroy frees them, those in the slots it has still to visit.  *)
AllInTable ==
  /\ pc \in {"none", "idle", "walk", "handler"} => DOMAIN heap = InSlots(0)
  /\ pc = "free" => DOMAIN heap = InSlots(i)
  /\ pc = "gone" => DOMAIN heap = {}

SlotInv == OnePlace /\ PagesOfSlot /\ AllInTable

(* A step that changes no memnode and no slot, and keeps pc among those    *)
(* that agree on what is in the table.                                     *)
LEMMA SlotUnchanged ==
  ASSUME TypeOK, SlotInv, UNCHANGED <<heap, nodes>>,
         \/ pc' = pc /\ i' = i
         \/ {pc, pc'} \subseteq {"idle", "walk", "handler"}
  PROVE  SlotInv'
<1>1. OnePlace' /\ PagesOfSlot'
  BY DEF SlotInv, OnePlace, PagesOfSlot
<1>2. InSlots(0)' = InSlots(0)
  BY DEF InSlots
<1>3. i' = i => InSlots(i)' = InSlots(i)
  BY DEF InSlots
<1> QED
  BY <1>1, <1>2, <1>3 DEF SlotInv, AllInTable

(* What is in a slot is in the table.                                      *)
LEMMA InTable ==
  ASSUME TypeOK, NEW k \in Slots, NEW j \in DOMAIN nodes[k]
  PROVE  nodes[k][j] \in InSlots(0)
<1>1. nodes[k] \in Seq(Nodes)
  BY DEF TypeOK
<1>2. nodes[k][j] \in Nodes
  BY <1>1
<1>3. k >= 0
  BY DEF Slots
<1> QED
  BY <1>2, <1>3 DEF InSlots

(* Taking bytes registers a new memnode in the slot for its pages.         *)
LEMMA SlotTakeBytes ==
  ASSUME TypeOK, SlotInv, NEW n \in Nodes, NEW a \in Nat, NEW index \in Slots,
         TakeBytes(n, a, index), pc \in {"idle", "handler"}, UNCHANGED <<pc, i>>
  PROVE  SlotInv'
<1> DEFINE h == Source(n, index)
           g == [h EXCEPT !.size_avail  = (@ - a) % Word,
                          !.first_avail = (@ + a) % Word]
<1>1. index \in Nat
  BY SizeTypes DEF Slots
<1>2. h \in MemNode /\ (n \notin DOMAIN heap => h.pages = index + 1)
      /\ (n \in DOMAIN heap => h = heap[n])
  BY <1>1, SourceType DEF Source, spr_memnode_allocate
<1>3. heap' = [m \in DOMAIN heap \cup {n} |-> IF m = n THEN g ELSE heap[m]]
  BY DEF TakeBytes
<1> HIDE DEF h
<1>4. g.pages = h.pages
  BY <1>2 DEF MemNode
<1> HIDE DEF g
<1>5. DOMAIN heap = InSlots(0)
  BY DEF SlotInv, AllInTable
<1>6. CASE n \in FirstFit(a, index) /\ UNCHANGED <<nodes, parent>>
  <2>1. n \in DOMAIN heap
    BY <1>6 DEF FirstFit
  <2>2. InSlots(0)' = InSlots(0)
    BY <1>6 DEF InSlots
  <2>3. PagesOfSlot'
    BY <1>2, <1>3, <1>4, <1>6, <2>1 DEF SlotInv, PagesOfSlot
  <2>4. OnePlace'
    BY <1>6 DEF SlotInv, OnePlace
  <2> QED
    BY <1>3, <1>5, <2>1, <2>2, <2>3, <2>4 DEF SlotInv, AllInTable
<1>7. CASE n \notin DOMAIN heap /\ Register(index, n)
  <2>1. nodes' = [nodes EXCEPT ![index] = <<n>> \o nodes[index]]
    BY <1>7 DEF Register
  <2>2. nodes[index] \in Seq(Nodes)
    BY DEF TypeOK
  <2> DEFINE s == <<n>> \o nodes[index]
  <2>3. /\ DOMAIN s = 1..(Len(nodes[index]) + 1) /\ Len(nodes[index]) \in Nat
        /\ DOMAIN nodes[index] = 1..Len(nodes[index])
        /\ s[1] = n /\ \A j \in 2..(Len(nodes[index]) + 1) : s[j] = nodes[index][j - 1]
    BY <2>2
  <2> HIDE DEF s
  <2>4. nodes'[index] = s /\ \A k \in Slots \ {index} : nodes'[k] = nodes[k]
    BY <2>1 DEF TypeOK, s
  <2>5. \A k \in Slots : \A j \in DOMAIN nodes[k] : nodes[k][j] \in InSlots(0)
    BY InTable
  <2>6. \A k \in Slots : \A j \in DOMAIN nodes[k] : nodes[k][j] # n
    BY <1>5, <1>7, <2>5
  <2>7. \A j \in DOMAIN s : s[j] = n => j = 1
    BY <2>3, <2>6
  <2>8. OnePlace'
    <3> SUFFICES ASSUME NEW k \in Slots, NEW k2 \in Slots, NEW j \in DOMAIN nodes'[k],
                        NEW j2 \in DOMAIN nodes'[k2], nodes'[k][j] = nodes'[k2][j2]
                 PROVE  k = k2 /\ j = j2
      BY DEF OnePlace
    <3>1. CASE k # index /\ k2 # index
      BY <2>4, <3>1 DEF SlotInv, OnePlace
    <3>2. ASSUME NEW k3 \in Slots, NEW j3 \in DOMAIN nodes'[k3], k3 = index, j3 # 1
          PROVE  j3 - 1 \in DOMAIN nodes[index] /\ nodes'[k3][j3] = nodes[index][j3 - 1]
                 /\ j3 \in Nat
      <4>1. nodes'[k3] = s /\ j3 \in 2..(Len(nodes[index]) + 1)
        BY <2>3, <2>4, <3>2
      <4>2. j3 \in Nat /\ j3 - 1 \in DOMAIN nodes[index]
        BY <2>3, <4>1
      <4> QED
        BY <2>3, <4>1, <4>2
    <3>3. CASE j # 1 /\ k = index /\ k2 # index
      BY <2>4, <3>2, <3>3 DEF SlotInv, OnePlace
    <3>4. CASE j2 # 1 /\ k # index /\ k2 = index
      BY <2>4, <3>2, <3>4 DEF SlotInv, OnePlace
    <3>5. CASE j # 1 /\ j2 # 1 /\ k = index /\ k2 = index
      <4>1. j - 1 = j2 - 1
        BY <3>2, <3>5 DEF SlotInv, OnePlace
      <4> QED
        BY <3>2, <3>5, <4>1
    <3>6. CASE j = 1 /\ k = index
      <4>1. nodes'[k2][j2] = n
        BY <2>3, <2>4, <3>6
      <4>2. k2 = index
        BY <2>4, <2>6, <4>1
      <4> QED
        BY <2>4, <2>7, <3>6, <4>1, <4>2
    <3>7. CASE j2 = 1 /\ k2 = index
      <4>1. nodes'[k][j] = n
        BY <2>3, <2>4, <3>7
      <4>2. k = index
        BY <2>4, <2>6, <4>1
      <4> QED
        BY <2>4, <2>7, <3>7, <4>1, <4>2
    <3> QED
      BY <3>1, <3>3, <3>4, <3>5, <3>6, <3>7
  <2>9. PagesOfSlot'
    <3> SUFFICES ASSUME NEW k \in Slots, NEW j \in DOMAIN nodes'[k], nodes'[k][j] \in DOMAIN heap'
                 PROVE  heap'[nodes'[k][j]].pages = k + 1
      BY DEF PagesOfSlot
    <3>1. CASE nodes'[k][j] = n
      BY <1>2, <1>3, <1>4, <1>7, <2>3, <2>4, <2>6, <3>1
    <3>2. CASE nodes'[k][j] # n /\ k # index
      BY <1>3, <2>4, <3>2 DEF SlotInv, PagesOfSlot
    <3>3. CASE nodes'[k][j] # n /\ k = index
      <4>1. j \in 2..(Len(nodes[index]) + 1) /\ j - 1 \in DOMAIN nodes[index]
        BY <2>3, <2>4, <3>3
      <4> QED
        BY <1>3, <2>3, <2>4, <3>3, <4>1 DEF SlotInv, PagesOfSlot
    <3> QED
      BY <3>1, <3>2, <3>3
  <2>10. InSlots(0)' = InSlots(0) \cup {n}
    <3>1. ASSUME NEW m \in InSlots(0) PROVE m \in InSlots(0)'
      <4>1. PICK k \in Slots : k >= 0 /\ \E j \in DOMAIN nodes[k] : m = nodes[k][j]
        BY DEF InSlots
      <4>2. PICK j \in DOMAIN nodes[k] : m = nodes[k][j]
        BY <4>1
      <4>3. CASE k # index
        BY <2>4, <4>1, <4>2, <4>3 DEF InSlots
      <4>4. CASE k = index
        <5>1. j + 1 \in DOMAIN s /\ s[j + 1] = m
          BY <2>3, <4>2, <4>4
        <5> QED
          BY <2>4, <4>1, <4>4, <5>1 DEF InSlots
      <4> QED
        BY <4>3, <4>4
    <3>2. n \in InSlots(0)'
      BY <1>1, <2>3, <2>4 DEF InSlots
    <3>3. ASSUME NEW m \in InSlots(0)', m # n PROVE m \in InSlots(0)
      <4>1. PICK k \in Slots : k >= 0 /\ \E j \in DOMAIN nodes'[k] : m = nodes'[k][j]
        BY DEF InSlots
      <4>2. PICK j \in DOMAIN nodes'[k] : m = nodes'[k][j]
        BY <4>1
      <4>3. CASE k # index
        BY <2>4, <2>5, <4>2, <4>3
      <4>4. CASE k = index
        <5>1. j - 1 \in DOMAIN nodes[index] /\ nodes[index][j - 1] = m
          BY <2>3, <2>4, <3>3, <4>2, <4>4
        <5> QED
          BY <2>5, <5>1
      <4> QED
        BY <4>3, <4>4
    <3> QED
      BY <3>1, <3>2, <3>3
  <2> QED
    BY <1>3, <1>5, <2>8, <2>9, <2>10 DEF SlotInv, AllInTable
<1> QED
  BY <1>6, <1>7 DEF TakeBytes

(* Registering an entry.                                                   *)
LEMMA SlotAddCleanup ==
  ASSUME TypeOK, SlotInv, NEW d, AddCleanup(d), pc \in {"idle", "handler"}, UNCHANGED <<pc, i>>
  PROVE  SlotInv'
<1> DEFINE a == spr_align_allocation(SizeofCleanup)
<1>1. a \in Nat /\ SlotIndex(a) = 0
  BY CleanupFits
<1>2. 0 \in Slots
  BY SizeTypes DEF Slots
<1> HIDE DEF a
<1>3. CASE UNCHANGED memory
  BY <1>3, SlotUnchanged DEF memory
<1>4. CASE \E n \in Nodes : TakeBytes(n, a, SlotIndex(a))
  BY <1>1, <1>2, <1>4, SlotTakeBytes
<1> QED
  BY <1>3, <1>4 DEF AddCleanup, a

(* spr_pool_create1 makes the table with the first memnode in it.          *)
LEMMA SlotCreate ==
  ASSUME TypeOK, SlotInv, NoExtraSlot, NEW size \in Sizes, NEW root \in BOOLEAN,
         spr_pool_create1(size, root)
  PROVE  SlotInv'
<1> DEFINE a     == (spr_align_allocation(size) + SizeofPool) % Word
           index == SlotIndex(a)
<1>1. a \in Nat
  BY CreateSize
<1>2. index \in Nat /\ index # SPR_MAX_POOL_SLOT
  BY <1>1, NPagesPositive DEF SlotIndex, NoExtraSlot
<1> HIDE DEF a, index
<1>3. CASE UNCHANGED <<memory, frame>>
  BY <1>3, SlotUnchanged DEF memory, frame
<1>4. ASSUME NEW n \in Nodes, index <= SPR_MAX_POOL_SLOT, pc' = "idle",
             heap' = [m \in {n} |-> HomeNode(index + 1, root)],
             nodes' = [k \in Slots |-> IF k = index THEN <<n>> ELSE <<>>]
      PROVE  SlotInv'
  <2>1. index \in Slots /\ index >= 0
    BY <1>2, <1>4, SizeTypes DEF Slots
  <2>2. HomeNode(index + 1, root).pages = index + 1
    BY <1>2 DEF HomeNode, spr_memnode_allocate
  <2>3. \A k \in Slots : \A j \in DOMAIN nodes'[k] : k = index /\ j = 1 /\ nodes'[k][j] = n
    BY <1>4
  <2>4. 1 \in DOMAIN nodes'[index] /\ nodes'[index][1] = n
    BY <1>4, <2>1
  <2>5. InSlots(0)' = {n}
    BY <2>1, <2>3, <2>4 DEF InSlots
  <2>6. OnePlace' /\ PagesOfSlot'
    BY <1>4, <2>2, <2>3 DEF OnePlace, PagesOfSlot
  <2> QED
    BY <1>4, <2>5, <2>6 DEF SlotInv, AllInTable
<1> QED
  BY <1>3, <1>4 DEF spr_pool_create1, a, index

(* spr_palloc.                                                             *)
LEMMA SlotPalloc ==
  ASSUME TypeOK, SlotInv, NoExtraSlot, NEW size \in Sizes, spr_palloc(size)
  PROVE  SlotInv'
<1> DEFINE a     == spr_align_allocation(size)
           index == SlotIndex(a)
<1>1. a \in Nat
  BY SizeInNat, AlignNat
<1>2. index \in Nat /\ index # SPR_MAX_POOL_SLOT
  BY <1>1, NPagesPositive DEF SlotIndex, NoExtraSlot
<1> HIDE DEF a, index
<1>3. UNCHANGED <<pc, i>>
  BY DEF spr_palloc, frame
<1>4. CASE UNCHANGED memory
  BY <1>3, <1>4, SlotUnchanged DEF memory
<1>5. CASE /\ index <= SPR_MAX_POOL_SLOT /\ pc \in {"idle", "handler"}
           /\ \E n \in Nodes : TakeBytes(n, a, index)
  <2>1. index \in Slots
    BY <1>2, <1>5, SizeTypes DEF Slots
  <2> QED
    BY <1>1, <1>3, <1>5, <2>1, SlotTakeBytes
<1>6. CASE pc \in {"idle", "handler"} /\ \E m \in Large : AddCleanup(m)
  BY <1>3, <1>6, SlotAddCleanup
<1> QED
  BY <1>4, <1>5, <1>6 DEF spr_palloc, PallocSmall, PallocLarge, Callable, a, index

(* The end of spr_pool_clear leaves every memnode in its slot.             *)
LEMMA SlotClear ==
  ASSUME TypeOK, SlotInv, FinishClear
  PROVE  SlotInv'
<1>1. ASSUME NEW n \in DOMAIN heap PROVE heap'[n].pages = heap[n].pages
  <2>1. heap[n] \in MemNode
    BY DEF TypeOK
  <2>2. \/ heap'[n] = heap[n]
        \/ heap'[n] = [heap[n] EXCEPT !.first_avail = heap[n].begin,
                                      !.size_avail  = heap[n].size]
    BY DEF FinishClear
  <2> QED
    BY <2>1, <2>2 DEF MemNode
<1>2. DOMAIN heap' = DOMAIN heap /\ nodes' = nodes /\ pc = "walk" /\ pc' = "idle"
  BY DEF FinishClear
<1>3. InSlots(0)' = InSlots(0)
  BY <1>2 DEF InSlots
<1>4. OnePlace' /\ PagesOfSlot'
  BY <1>1, <1>2 DEF SlotInv, OnePlace, PagesOfSlot
<1> QED
  BY <1>2, <1>3, <1>4 DEF SlotInv, AllInTable

(* One turn of the loop of spr_pool_destroy frees what is in one slot; as  *)
(* no memnode is in two slots, the ones to come are still allocated.       *)
LEMMA SlotFree ==
  ASSUME TypeOK, SlotInv, FreeSlot
  PROVE  SlotInv'
<1>1. CASE UNCHANGED <<heap, i>>
  BY <1>1, SlotUnchanged DEF FreeSlot
<1>2. ASSUME NEW freed, freed = {n \in Nodes : \E j \in DOMAIN nodes[i] : n = nodes[i][j]},
             heap' = [n \in DOMAIN heap \ freed |-> heap[n]], i' = i + 1
      PROVE  SlotInv'
  <2>1. nodes' = nodes /\ pc = "free" /\ pc' = "free" /\ i \in Slots /\ i \in Nat
    BY DEF FreeSlot, TypeOK
  <2>2. OnePlace' /\ PagesOfSlot'
    <3>1. \A n \in DOMAIN heap' : n \in DOMAIN heap /\ heap'[n] = heap[n]
      BY <1>2
    <3>2. OnePlace'
      BY <2>1 DEF SlotInv, OnePlace
    <3>3. PagesOfSlot'
      BY <2>1, <3>1 DEF SlotInv, PagesOfSlot
    <3> QED
      BY <3>2, <3>3
  <2>3. InSlots(i)' = InSlots(i) \ freed
    <3>1. ASSUME NEW n \in InSlots(i)' PROVE n \in InSlots(i) \ freed
      <4>1. PICK k \in Slots : k >= i + 1 /\ \E j \in DOMAIN nodes[k] : n = nodes[k][j]
        BY <1>2, <2>1 DEF InSlots
      <4>2. k # i /\ k >= i
        BY <2>1, <4>1 DEF Slots
      <4>3. n \notin freed
        BY <1>2, <2>1, <4>1, <4>2 DEF SlotInv, OnePlace
      <4> QED
        BY <4>1, <4>2, <4>3 DEF InSlots
    <3>2. ASSUME NEW n \in InSlots(i), n \notin freed PROVE n \in InSlots(i)'
      <4>1. PICK k \in Slots : k >= i /\ \E j \in DOMAIN nodes[k] : n = nodes[k][j]
        BY DEF InSlots
      <4>2. n \in Nodes
        BY DEF InSlots
      <4>3. k # i
        BY <1>2, <3>2, <4>1, <4>2
      <4>4. k >= i + 1
        BY <2>1, <4>1, <4>3 DEF Slots
      <4> QED
        BY <1>2, <2>1, <4>1, <4>2, <4>4 DEF InSlots
    <3> QED
      BY <3>1, <3>2
  <2> QED
    BY <1>2, <2>1, <2>2, <2>3 DEF SlotInv, AllInTable
<1> QED
  BY <1>1, <1>2 DEF FreeSlot

(* Every step keeps the slot table right.                                  *)
LEMMA SlotNext ==
  ASSUME TypeInv, SlotInv, NoExtraSlot, [Next]_vars
  PROVE  SlotInv'
<1>0. TypeOK
  BY DEF TypeInv
<1>1. ASSUME NEW size \in Sizes, NEW root \in BOOLEAN, spr_pool_create1(size, root)
      PROVE  SlotInv'
  BY <1>0, <1>1, SlotCreate
<1>2. ASSUME NEW size \in Sizes, spr_palloc(size)
      PROVE  SlotInv'
  BY <1>0, <1>2, SlotPalloc
<1>3. ASSUME NEW d \in Data, spr_pool_cleanup_add1(d)
      PROVE  SlotInv'
  BY <1>0, <1>3, SlotAddCleanup DEF spr_pool_cleanup_add1, Callable, frame
<1>4. ASSUME NEW d \in Data \cup Large,
             spr_pool_cleanup_run1(d) \/ spr_pool_cleanup_remove1(d)
      PROVE  SlotInv'
  BY <1>0, <1>4, SlotUnchanged
     DEF spr_pool_cleanup_run1, spr_pool_cleanup_remove1, Callable, memory, frame
<1>5. CASE spr_pool_clear \/ spr_pool_destroy
  BY <1>0, <1>5, SlotUnchanged DEF spr_pool_clear, spr_pool_destroy, StartRunAll, Callable, memory
<1>6. CASE RunNext \/ ReturnToRunAll \/ ReturnToRun1
  BY <1>0, <1>6, SlotUnchanged DEF RunNext, ReturnToRunAll, ReturnToRun1, memory
<1>7. CASE FinishClear \/ FreeSlot
  BY <1>0, <1>7, SlotClear, SlotFree
<1>8. CASE StartFree
  <2>1. UNCHANGED <<heap, nodes>> /\ pc = "walk" /\ pc' = "free" /\ i' = 0
    BY <1>8 DEF StartFree, memory
  <2>2. InSlots(i)' = InSlots(0)
    BY <2>1 DEF InSlots
  <2> QED
    BY <2>1, <2>2 DEF SlotInv, OnePlace, PagesOfSlot, AllInTable
<1>9. CASE FinishDestroy
  <2>1. UNCHANGED <<heap, nodes>> /\ pc = "free" /\ pc' = "gone" /\ i \in Nat \ Slots
    BY <1>0, <1>9 DEF FinishDestroy, memory, TypeOK
  <2>2. InSlots(i) = {}
    BY <2>1, SizeTypes DEF InSlots, Slots
  <2> QED
    BY <2>1, <2>2 DEF SlotInv, OnePlace, PagesOfSlot, AllInTable
<1>10. CASE UNCHANGED vars
  BY <1>0, <1>10, SlotUnchanged DEF vars, memory, frame
<1> QED
  BY <1>1, <1>2, <1>3, <1>4, <1>5, <1>6, <1>7, <1>8, <1>9, <1>10 DEF Next, Calls, Internal

(***************************************************************************)
(* Every memnode is in the slot for its pages, once, and spr_pool_destroy  *)
(* frees all of them, as long as no request is of the size class behind    *)
(* the last slot.  That spr_pool_destroy frees everything needs that no    *)
(* memnode is in two slots, and both need that what spr_palloc allocates   *)
(* is registered before anything else happens.                             *)
(***************************************************************************)
THEOREM SlotTableRight == NoExtraSlot => (Spec => []SlotTable)
<1> SUFFICES ASSUME NoExtraSlot PROVE Spec => []SlotTable
  OBVIOUS
<1>1. Init => TypeInv /\ SlotInv
  <2> SUFFICES ASSUME Init PROVE SlotInv
    BY TypeInit
  <2>1. DOMAIN heap = {} /\ \A k \in Slots : DOMAIN nodes[k] = {}
    BY DEF Init
  <2> QED
    BY <2>1 DEF Init, SlotInv, OnePlace, PagesOfSlot, AllInTable, InSlots
<1>2. TypeInv /\ SlotInv /\ [Next]_vars => (TypeInv /\ SlotInv)'
  BY TypeNext, SlotNext
<1>3. TypeInv /\ SlotInv => SlotTable
  <2> SUFFICES ASSUME TypeInv, SlotInv PROVE SlotTable
    OBVIOUS
  <2>1. InSlots(0) = Registered
    BY SizeTypes DEF InSlots, Registered, Slots
  <2>2. AllNodesRegistered
    BY <2>1 DEF SlotInv, AllInTable, AllNodesRegistered
  <2>3. ASSUME NEW k \in Slots, NEW j \in DOMAIN nodes[k], pc \notin {"free", "gone"}
        PROVE  nodes[k][j] \in DOMAIN heap
    <3>1. nodes[k][j] \in InSlots(0)
      BY InTable DEF TypeInv
    <3> QED
      BY <2>3, <3>1 DEF SlotInv, AllInTable, TypeInv, TypeOK
  <2>4. SlotsByPages
    BY <2>3 DEF SlotInv, OnePlace, PagesOfSlot, SlotsByPages
  <2> QED
    BY <2>2, <2>4 DEF SlotTable
<1> QED
  BY <1>1, <1>2, <1>3, PTL DEF Spec

-----------------------------------------------------------------------------
(* Lists of cleanup nodes.                                                 *)

Without(s, k) == SubSeq(s, 1, k - 1) \o SubSeq(s, k + 1, Len(s))

(* Where element j of a list without element k has been.                   *)
Skip(j, k) == IF j < k THEN j ELSE j + 1

Ats(s)   == [k \in DOMAIN s |-> s[k].at]
Datas(s) == [k \in DOMAIN s |-> s[k].data]

(* No two nodes of the lists s and t share a byte, and none is empty.      *)
Separate(s, t) ==
  /\ \A k, k2 \in DOMAIN s : Overlaps(s[k], s[k2]) => k = k2
  /\ \A k, k2 \in DOMAIN t : Overlaps(t[k], t[k2]) => k = k2
  /\ \A k \in DOMAIN s, k2 \in DOMAIN t : ~ Overlaps(s[k], t[k2])
  /\ \A k \in DOMAIN s : s[k].len > 0
  /\ \A k \in DOMAIN t : t[k].len > 0

(* The nodes in use: those of the list or, while spr_pool_cleanup_run_all  *)
(* is under way, those it has still to put into the reserve.               *)
Used ==
  IF RunningAll
  THEN (IF pc = "handler" THEN <<cur.at>> ELSE <<>>) \o Ats(rest)
  ELSE Ats(cleanups)

(* The handler that runs is that of an entry of the list, which            *)
(* spr_pool_cleanup_run1 unlinks when it returns, or of one that           *)
(* spr_pool_cleanup_run_all has left behind.                               *)
CurInv ==
  /\ pc = "handler" => cur \in Cleanup /\ cur.data \notin Large /\ op # "none"
  /\ pc # "handler" => cur = NULL
  /\ pc = "handler" /\ op = "run" => \E k \in DOMAIN cleanups : cleanups[k] = cur
  /\ pc = "walk" => op \in {"clear", "destroy"}

NodesInv == CurInv /\ (fault = "none" => Separate(Used, free_cleanups))

(* Every oversized block has one entry among those still to be visited.    *)
Owned(s, ms) ==
  /\ \A m \in ms : \E k \in DOMAIN s : s[k].data = m
  /\ \A k \in DOMAIN s :
       s[k].data \in Large =>
         /\ s[k].data \in ms
         /\ \A k2 \in DOMAIN s : s[k2].data = s[k].data => k2 = k

(* The list whose entries own the oversized blocks.                        *)
Owners == IF RunningAll THEN rest ELSE cleanups

LargeInv == fault = "none" => Owned(Owners, malloced)

(* While no pool is cleared, cleanup nodes are blocks handed out.          *)
NodesInBlocks ==
  /\ fault # "overlap" /\ op # "clear"
  /\ pc = "none" => CleanupNodes = {}
  /\ pc \notin {"free", "gone"} => CleanupNodes \subseteq blocks

(* Without handlers that register, spr_pool_cleanup_run1 finds its entry   *)
(* where it left it.                                                       *)
EntryInv ==
  pc = "handler" /\ op = "run" => i \in DOMAIN cleanups /\ cleanups[i] = cur

-----------------------------------------------------------------------------

(* The elements of a list with one more in front, and with one taken out.  *)
LEMMA ConsElements ==
  ASSUME NEW S, NEW x \in S, NEW s \in Seq(S)
  PROVE  /\ <<x>> \o s \in Seq(S)
         /\ Len(s) \in Nat /\ DOMAIN s = 1..Len(s)
         /\ DOMAIN (<<x>> \o s) = 1..(Len(s) + 1) /\ Len(<<x>> \o s) = Len(s) + 1
         /\ (<<x>> \o s)[1] = x
         /\ \A j \in 2..(Len(s) + 1) : (<<x>> \o s)[j] = s[j - 1] /\ j - 1 \in DOMAIN s
OBVIOUS

LEMMA TailElements ==
  ASSUME NEW S, NEW s \in Seq(S), s # <<>>
  PROVE  /\ Tail(s) \in Seq(S) /\ Head(s) \in S /\ Head(s) = s[1]
         /\ Len(s) \in Nat \ {0} /\ DOMAIN s = 1..Len(s)
         /\ DOMAIN Tail(s) = 1..(Len(s) - 1) /\ Len(Tail(s)) = Len(s) - 1
         /\ \A j \in 1..(Len(s) - 1) : Tail(s)[j] = s[j + 1]
OBVIOUS

LEMMA WithoutElements ==
  ASSUME NEW S, NEW s \in Seq(S), NEW k \in DOMAIN s
  PROVE  /\ Without(s, k) \in Seq(S)
         /\ Len(s) \in Nat \ {0} /\ DOMAIN s = 1..Len(s) /\ k \in 1..Len(s)
         /\ DOMAIN Without(s, k) = 1..(Len(s) - 1) /\ Len(Without(s, k)) = Len(s) - 1
         /\ \A j \in 1..(Len(s) - 1) : Without(s, k)[j] = s[Skip(j, k)] /\ Skip(j, k) \in 1..Len(s)
<1>1. Len(s) \in Nat \ {0} /\ DOMAIN s = 1..Len(s) /\ k \in 1..Len(s)
  OBVIOUS
<1> DEFINE a == SubSeq(s, 1, k - 1)
           b == SubSeq(s, k + 1, Len(s))
<1>2. /\ a \in Seq(S) /\ Len(a) = k - 1
      /\ \A j \in 1..(k - 1) : a[j] = s[j]
  BY <1>1, SubSeqProperties
<1>3. /\ b \in Seq(S) /\ Len(b) = Len(s) - k
      /\ \A j \in 1..(Len(s) - k) : b[j] = s[k + j]
  <2>1. CASE k = Len(s)
    BY <1>1, <2>1, SubSeqProperties
  <2>2. CASE k < Len(s)
    BY <1>1, <2>2, SubSeqProperties
  <2> QED
    BY <1>1, <2>1, <2>2
<1> HIDE DEF a, b
<1>4. /\ a \o b \in Seq(S) /\ Len(a \o b) = Len(s) - 1
      /\ \A j \in 1..(Len(s) - 1) :
           (a \o b)[j] = IF j <= k - 1 THEN a[j] ELSE b[j - (k - 1)]
  <2>1. Len(a) + Len(b) = Len(s) - 1
    BY <1>1, <1>2, <1>3
  <2>2. /\ a \o b \in Seq(S) /\ Len(a \o b) = Len(a) + Len(b)
        /\ \A j \in 1..(Len(a) + Len(b)) :
             (a \o b)[j] = IF j <= Len(a) THEN a[j] ELSE b[j - Len(a)]
    <3>1. a \in Seq(S) /\ b \in Seq(S)
      BY <1>2, <1>3
    <3> QED
      BY ONLY <3>1, ConcatProperties
  <2> QED
    BY <1>2, <2>1, <2>2
<1>5. ASSUME NEW j \in k..(Len(s) - 1) PROVE (a \o b)[j] = s[j + 1]
  <2>1. j \in 1..(Len(s) - 1) /\ ~ (j <= k - 1) /\ j - (k - 1) \in 1..(Len(s) - k)
    BY <1>1
  <2>2. k + (j - (k - 1)) = j + 1
    BY <1>1
  <2> QED
    BY <1>3, <1>4, <2>1, <2>2
<1>6. ASSUME NEW j \in 1..(k - 1) PROVE (a \o b)[j] = s[j]
  <2>1. j \in 1..(Len(s) - 1) /\ j <= k - 1
    BY <1>1
  <2> QED
    BY <1>2, <1>4, <2>1
<1>7. DOMAIN (a \o b) = 1..(Len(s) - 1)
  BY <1>4, LenProperties
<1>8. ASSUME NEW j \in 1..(Len(s) - 1)
      PROVE  (a \o b)[j] = s[Skip(j, k)] /\ Skip(j, k) \in 1..Len(s)
  <2>1. CASE j < k
    <3>1. Skip(j, k) = j /\ j \in 1..(k - 1) /\ j \in 1..Len(s)
      BY <1>1, <2>1 DEF Skip
    <3> QED
      BY <1>6, <3>1
  <2>2. CASE ~ (j < k)
    <3>1. Skip(j, k) = j + 1 /\ j \in k..(Len(s) - 1) /\ j + 1 \in 1..Len(s)
      BY <1>1, <2>2 DEF Skip
    <3> QED
      BY <1>5, <3>1
  <2> QED
    BY <2>1, <2>2
<1> QED
  BY <1>1, <1>4, <1>7, <1>8 DEF Without, a, b

(* The node and the object of every entry of a list.                       *)
LEMMA FieldLists ==
  ASSUME NEW s \in Seq(Cleanup)
  PROVE  /\ Ats(s) \in Seq(Block) /\ Datas(s) \in Seq(Data \cup Large)
         /\ Len(s) \in Nat /\ DOMAIN s = 1..Len(s)
         /\ Len(Ats(s)) = Len(s) /\ DOMAIN Ats(s) = 1..Len(s)
         /\ Len(Datas(s)) = Len(s) /\ DOMAIN Datas(s) = 1..Len(s)
         /\ \A k \in DOMAIN s : Ats(s)[k] = s[k].at /\ Datas(s)[k] = s[k].data
<1>1. Len(s) \in Nat /\ DOMAIN s = 1..Len(s)
  OBVIOUS
<1>2. ASSUME NEW k \in DOMAIN s PROVE s[k].at \in Block /\ s[k].data \in Data \cup Large
  <2>1. s[k] \in Cleanup
    BY <1>1
  <2> QED
    BY <2>1 DEF Cleanup
<1>3. Ats(s) \in Seq(Block) /\ Datas(s) \in Seq(Data \cup Large)
  <2>1. Ats(s) = [k \in 1..Len(s) |-> s[k].at] /\ Datas(s) = [k \in 1..Len(s) |-> s[k].data]
    BY <1>1 DEF Ats, Datas
  <2>2. [k \in 1..Len(s) |-> s[k].at] \in Seq(Block)
    BY <1>1, <1>2, IsASeq
  <2>3. [k \in 1..Len(s) |-> s[k].data] \in Seq(Data \cup Large)
    BY <1>1, <1>2, IsASeq
  <2> QED
    BY <2>1, <2>2, <2>3
<1>4. DOMAIN Ats(s) = 1..Len(s) /\ DOMAIN Datas(s) = 1..Len(s)
  BY <1>1 DEF Ats, Datas
<1>5. Len(Ats(s)) = Len(s) /\ Len(Datas(s)) = Len(s)
  BY <1>1, <1>3, <1>4, LenProperties
<1> QED
  BY <1>1, <1>3, <1>4, <1>5 DEF Ats, Datas

(* The fields of a list with an entry more or less.                        *)
LEMMA FieldsCons ==
  ASSUME NEW c \in Cleanup, NEW s \in Seq(Cleanup)
  PROVE  Ats(<<c>> \o s) = <<c.at>> \o Ats(s) /\ Datas(<<c>> \o s) = <<c.data>> \o Datas(s)
<1> DEFINE t == <<c>> \o s
<1>1. c.at \in Block /\ c.data \in Data \cup Large
  BY DEF Cleanup
<1>2. /\ t \in Seq(Cleanup) /\ Len(t) = Len(s) + 1 /\ DOMAIN t = 1..(Len(s) + 1) /\ t[1] = c
      /\ \A j \in 2..(Len(s) + 1) : t[j] = s[j - 1] /\ j - 1 \in DOMAIN s
  BY ConsElements
<1> HIDE DEF t
<1>3. /\ Ats(t) \in Seq(Block) /\ Len(Ats(t)) = Len(s) + 1
      /\ Datas(t) \in Seq(Data \cup Large) /\ Len(Datas(t)) = Len(s) + 1
      /\ \A j \in 1..(Len(s) + 1) : Ats(t)[j] = t[j].at /\ Datas(t)[j] = t[j].data
  BY <1>2, FieldLists
<1>4. /\ Ats(s) \in Seq(Block) /\ Datas(s) \in Seq(Data \cup Large) /\ Len(s) \in Nat
      /\ Len(Ats(s)) = Len(s) /\ Len(Datas(s)) = Len(s)
      /\ \A j \in DOMAIN s : Ats(s)[j] = s[j].at /\ Datas(s)[j] = s[j].data
  BY FieldLists
<1>5. /\ <<c.at>> \o Ats(s) \in Seq(Block) /\ Len(<<c.at>> \o Ats(s)) = Len(s) + 1
      /\ (<<c.at>> \o Ats(s))[1] = c.at
      /\ \A j \in 2..(Len(s) + 1) : (<<c.at>> \o Ats(s))[j] = Ats(s)[j - 1]
  BY <1>1, <1>4, ConsElements
<1>6. /\ <<c.data>> \o Datas(s) \in Seq(Data \cup Large) /\ Len(<<c.data>> \o Datas(s)) = Len(s) + 1
      /\ (<<c.data>> \o Datas(s))[1] = c.data
      /\ \A j \in 2..(Len(s) + 1) : (<<c.data>> \o Datas(s))[j] = Datas(s)[j - 1]
  BY <1>1, <1>4, ConsElements
<1>7. \A j \in 1..(Len(s) + 1) : j = 1 \/ j \in 2..(Len(s) + 1)
  BY <1>4
<1>8. \A j \in 1..(Len(s) + 1) : Ats(t)[j] = (<<c.at>> \o Ats(s))[j]
  <2> SUFFICES ASSUME NEW j \in 1..(Len(s) + 1)
               PROVE  Ats(t)[j] = (<<c.at>> \o Ats(s))[j]
    OBVIOUS
  <2>1. Ats(t)[j] = t[j].at
    BY <1>2, <1>3
  <2>2. CASE j = 1
    BY <1>2, <1>5, <2>1, <2>2
  <2>3. CASE j \in 2..(Len(s) + 1)
    <3>1. t[j] = s[j - 1] /\ j - 1 \in DOMAIN s
      BY <1>2, <1>4, <2>3
    <3> QED
      BY <1>4, <1>5, <2>1, <2>3, <3>1
  <2> QED
    BY <1>7, <2>2, <2>3
<1>9. \A j \in 1..(Len(s) + 1) : Datas(t)[j] = (<<c.data>> \o Datas(s))[j]
  <2> SUFFICES ASSUME NEW j \in 1..(Len(s) + 1)
               PROVE  Datas(t)[j] = (<<c.data>> \o Datas(s))[j]
    OBVIOUS
  <2>1. Datas(t)[j] = t[j].data
    BY <1>2, <1>3
  <2>2. CASE j = 1
    BY <1>2, <1>6, <2>1, <2>2
  <2>3. CASE j \in 2..(Len(s) + 1)
    <3>1. t[j] = s[j - 1] /\ j - 1 \in DOMAIN s
      BY <1>2, <1>4, <2>3
    <3> QED
      BY <1>4, <1>6, <2>1, <2>3, <3>1
  <2> QED
    BY <1>7, <2>2, <2>3
<1>10. Ats(t) = <<c.at>> \o Ats(s)
  BY <1>3, <1>5, <1>8, SeqEqual
<1>11. Datas(t) = <<c.data>> \o Datas(s)
  BY <1>3, <1>6, <1>9, SeqEqual
<1> QED
  BY <1>10, <1>11 DEF t

LEMMA FieldsWithout ==
  ASSUME NEW s \in Seq(Cleanup), NEW k \in DOMAIN s
  PROVE  Ats(Without(s, k)) = Without(Ats(s), k) /\ Datas(Without(s, k)) = Without(Datas(s), k)
<1> DEFINE t == Without(s, k)
           a == Ats(s)
           d == Datas(s)
<1>1. /\ t \in Seq(Cleanup) /\ Len(t) = Len(s) - 1 /\ DOMAIN t = 1..(Len(s) - 1)
      /\ k \in 1..Len(s) /\ Len(s) \in Nat \ {0} /\ DOMAIN s = 1..Len(s)
  BY WithoutElements
<1>2. /\ Ats(t) \in Seq(Block) /\ Len(Ats(t)) = Len(s) - 1
      /\ Datas(t) \in Seq(Data \cup Large) /\ Len(Datas(t)) = Len(s) - 1
      /\ \A j \in 1..(Len(s) - 1) : Ats(t)[j] = t[j].at /\ Datas(t)[j] = t[j].data
  <2> HIDE DEF t
  <2> QED
    BY <1>1, FieldLists
<1>3. /\ a \in Seq(Block) /\ d \in Seq(Data \cup Large)
      /\ Len(a) = Len(s) /\ Len(d) = Len(s)
      /\ \A j \in 1..Len(s) : a[j] = s[j].at /\ d[j] = s[j].data
  BY <1>1, FieldLists
<1> HIDE DEF a, d
<1>4. k \in DOMAIN a /\ k \in DOMAIN d
  BY <1>1, <1>3, LenProperties
<1>5. /\ Without(a, k) \in Seq(Block) /\ Len(Without(a, k)) = Len(s) - 1
      /\ \A j \in 1..(Len(s) - 1) : Without(a, k)[j] = a[Skip(j, k)]
  <2> DEFINE B == Block
  <2> HIDE DEF B
  <2>1. a \in Seq(B)
    BY <1>3 DEF B
  <2>2. /\ Without(a, k) \in Seq(B) /\ Len(Without(a, k)) = Len(a) - 1
        /\ \A j \in 1..(Len(a) - 1) : Without(a, k)[j] = a[Skip(j, k)]
    BY <1>4, <2>1, WithoutElements
  <2> QED
    BY <1>3, <2>2 DEF B
<1>6. /\ Without(d, k) \in Seq(Data \cup Large) /\ Len(Without(d, k)) = Len(s) - 1
      /\ \A j \in 1..(Len(s) - 1) : Without(d, k)[j] = d[Skip(j, k)]
  <2> DEFINE D == Data \cup Large
  <2> HIDE DEF D
  <2>1. d \in Seq(D)
    BY <1>3 DEF D
  <2>2. /\ Without(d, k) \in Seq(D) /\ Len(Without(d, k)) = Len(d) - 1
        /\ \A j \in 1..(Len(d) - 1) : Without(d, k)[j] = d[Skip(j, k)]
    BY <1>4, <2>1, WithoutElements
  <2> QED
    BY <1>3, <2>2 DEF D
<1>7. \A j \in 1..(Len(s) - 1) : t[j] = s[Skip(j, k)] /\ Skip(j, k) \in 1..Len(s)
  BY WithoutElements
<1> HIDE DEF t
<1>8. \A j \in 1..(Len(s) - 1) : Ats(t)[j] = Without(a, k)[j] /\ Datas(t)[j] = Without(d, k)[j]
  <2> SUFFICES ASSUME NEW j \in 1..(Len(s) - 1)
               PROVE  Ats(t)[j] = Without(a, k)[j] /\ Datas(t)[j] = Without(d, k)[j]
    OBVIOUS
  <2>1. PICK m : m = Skip(j, k)
    OBVIOUS
  <2>2. t[j] = s[m] /\ m \in 1..Len(s)
    BY <1>7, <2>1
  <2>3. Ats(t)[j] = s[m].at /\ Without(a, k)[j] = a[m]
    BY <1>2, <1>5, <2>1, <2>2
  <2>4. Datas(t)[j] = s[m].data /\ Without(d, k)[j] = d[m]
    BY <1>2, <1>6, <2>1, <2>2
  <2> QED
    BY <1>3, <2>2, <2>3, <2>4
<1>9. Ats(t) = Without(a, k)
  BY <1>2, <1>5, <1>8, SeqEqual
<1>10. Datas(t) = Without(d, k)
  BY <1>2, <1>6, <1>8, SeqEqual
<1> QED
  BY <1>9, <1>10 DEF t, a, d

(* The tail of a list is the list without its first element.               *)
LEMMA TailIsWithout ==
  ASSUME NEW S, NEW s \in Seq(S), s # <<>>
  PROVE  1 \in DOMAIN s /\ Tail(s) = Without(s, 1)
<1>1. 1 \in DOMAIN s
  BY TailElements
<1>2. /\ Without(s, 1) \in Seq(S) /\ Len(Without(s, 1)) = Len(s) - 1
      /\ \A j \in 1..(Len(s) - 1) : Without(s, 1)[j] = s[j + 1]
  <2>1. \A j \in 1..(Len(s) - 1) : Skip(j, 1) = j + 1
    BY DEF Skip
  <2> QED
    BY <1>1, <2>1, WithoutElements
<1>3. /\ Tail(s) \in Seq(S) /\ Len(Tail(s)) = Len(s) - 1
      /\ \A j \in 1..(Len(s) - 1) : Tail(s)[j] = s[j + 1]
  BY TailElements
<1> QED
  BY <1>1, <1>2, <1>3, SeqEqual


-----------------------------------------------------------------------------
(* Moving cleanup nodes between the list and the reserve.                  *)

(* Blocks that share a byte do so both ways.                               *)
LEMMA OverlapsBack ==
  ASSUME NEW b \in Block, NEW c \in Block
  PROVE  /\ Overlaps(b, c) <=> Overlaps(c, b)
         /\ b.len > 0 => Overlaps(b, b)
BY DEF Overlaps, Block

(* A block that is apart from both lists can be put in front of one.       *)
LEMMA SeparateCons ==
  ASSUME NEW s \in Seq(Block), NEW t \in Seq(Block), Separate(s, t), NEW b \in Block, b.len > 0,
         \A k \in DOMAIN s : ~ Overlaps(b, s[k]), \A k \in DOMAIN t : ~ Overlaps(b, t[k])
  PROVE  Separate(<<b>> \o s, t) /\ Separate(s, <<b>> \o t)
<1>1. /\ Len(s) \in Nat /\ DOMAIN s = 1..Len(s)
      /\ DOMAIN (<<b>> \o s) = 1..(Len(s) + 1) /\ (<<b>> \o s)[1] = b
      /\ \A j \in 2..(Len(s) + 1) : (<<b>> \o s)[j] = s[j - 1] /\ j - 1 \in DOMAIN s
  BY ConsElements
<1>2. /\ Len(t) \in Nat /\ DOMAIN t = 1..Len(t)
      /\ DOMAIN (<<b>> \o t) = 1..(Len(t) + 1) /\ (<<b>> \o t)[1] = b
      /\ \A j \in 2..(Len(t) + 1) : (<<b>> \o t)[j] = t[j - 1] /\ j - 1 \in DOMAIN t
  BY ConsElements
<1>3. /\ \A k \in DOMAIN s : s[k] \in Block /\ ~ Overlaps(s[k], b)
      /\ \A k \in DOMAIN t : t[k] \in Block /\ ~ Overlaps(t[k], b)
  BY OverlapsBack
<1> DEFINE bs == <<b>> \o s
           bt == <<b>> \o t
<1>4. /\ \A k \in DOMAIN bs : k \in Nat /\ (k = 1 \/ k \in 2..(Len(s) + 1))
      /\ \A k \in DOMAIN bt : k \in Nat /\ (k = 1 \/ k \in 2..(Len(t) + 1))
  BY <1>1, <1>2
<1> HIDE DEF bs, bt
<1>5. \A k, k2 \in DOMAIN bs : Overlaps(bs[k], bs[k2]) => k = k2
  <2> SUFFICES ASSUME NEW k \in DOMAIN bs, NEW k2 \in DOMAIN bs, Overlaps(bs[k], bs[k2]), k # k2
               PROVE  FALSE
    OBVIOUS
  <2>1. k = 1 \/ k2 = 1
    <3> SUFFICES ASSUME k # 1, k2 # 1 PROVE FALSE
      OBVIOUS
    <3>1. bs[k] = s[k - 1] /\ k - 1 \in DOMAIN s /\ bs[k2] = s[k2 - 1] /\ k2 - 1 \in DOMAIN s
      BY <1>1, <1>4 DEF bs
    <3>2. k - 1 = k2 - 1
      BY <3>1 DEF Separate
    <3> QED
      BY <1>4, <3>2
  <2>2. CASE k = 1
    BY <1>1, <1>4, <2>2 DEF bs
  <2>3. CASE k2 = 1
    BY <1>1, <1>3, <1>4, <2>3 DEF bs
  <2> QED
    BY <2>1, <2>2, <2>3
<1>6. \A k, k2 \in DOMAIN bt : Overlaps(bt[k], bt[k2]) => k = k2
  <2> SUFFICES ASSUME NEW k \in DOMAIN bt, NEW k2 \in DOMAIN bt, Overlaps(bt[k], bt[k2]), k # k2
               PROVE  FALSE
    OBVIOUS
  <2>1. k = 1 \/ k2 = 1
    <3> SUFFICES ASSUME k # 1, k2 # 1 PROVE FALSE
      OBVIOUS
    <3>1. bt[k] = t[k - 1] /\ k - 1 \in DOMAIN t /\ bt[k2] = t[k2 - 1] /\ k2 - 1 \in DOMAIN t
      BY <1>2, <1>4 DEF bt
    <3>2. k - 1 = k2 - 1
      BY <3>1 DEF Separate
    <3> QED
      BY <1>4, <3>2
  <2>2. CASE k = 1
    BY <1>2, <1>4, <2>2 DEF bt
  <2>3. CASE k2 = 1
    BY <1>2, <1>3, <1>4, <2>3 DEF bt
  <2> QED
    BY <2>1, <2>2, <2>3
<1>7. /\ \A k \in DOMAIN bs : bs[k].len > 0 /\ \A k2 \in DOMAIN t : ~ Overlaps(bs[k], t[k2])
      /\ \A k \in DOMAIN bt : bt[k].len > 0 /\ \A k2 \in DOMAIN s : ~ Overlaps(s[k2], bt[k])
  BY <1>1, <1>2, <1>3, <1>4 DEF Separate, bs, bt
<1> QED
  BY <1>5, <1>6, <1>7 DEF Separate, bs, bt

(* Taking a node out of either list.                                       *)
LEMMA SeparateWithout ==
  ASSUME NEW s \in Seq(Block), NEW t \in Seq(Block), Separate(s, t)
  PROVE  /\ \A k \in DOMAIN s :
              /\ Separate(Without(s, k), t) /\ s[k] \in Block /\ s[k].len > 0
              /\ \A j \in DOMAIN Without(s, k) : ~ Overlaps(s[k], Without(s, k)[j])
              /\ \A j \in DOMAIN t : ~ Overlaps(s[k], t[j])
         /\ \A k \in DOMAIN t :
              /\ Separate(s, Without(t, k)) /\ t[k] \in Block /\ t[k].len > 0
              /\ \A j \in DOMAIN Without(t, k) : ~ Overlaps(t[k], Without(t, k)[j])
              /\ \A j \in DOMAIN s : ~ Overlaps(t[k], s[j])
<1>1. ASSUME NEW u \in Seq(Block), NEW v \in Seq(Block), Separate(u, v), NEW k \in DOMAIN u
      PROVE  /\ u[k] \in Block /\ u[k].len > 0
             /\ \A j, j2 \in DOMAIN Without(u, k) :
                  Overlaps(Without(u, k)[j], Without(u, k)[j2]) => j = j2
             /\ \A j \in DOMAIN Without(u, k) : /\ ~ Overlaps(u[k], Without(u, k)[j])
                                                /\ Without(u, k)[j].len > 0
             /\ \A j \in DOMAIN Without(u, k) : \A j2 \in DOMAIN v : ~ Overlaps(Without(u, k)[j], v[j2])
             /\ \A j \in DOMAIN v : ~ Overlaps(u[k], v[j])
  <2> DEFINE w == Without(u, k)
  <2>1. /\ Len(u) \in Nat \ {0} /\ DOMAIN u = 1..Len(u) /\ k \in 1..Len(u)
        /\ DOMAIN w = 1..(Len(u) - 1)
        /\ \A j \in DOMAIN w : w[j] = u[Skip(j, k)] /\ Skip(j, k) \in DOMAIN u
    <3>1. /\ Len(u) \in Nat \ {0} /\ DOMAIN u = 1..Len(u) /\ k \in 1..Len(u)
          /\ DOMAIN w = 1..(Len(u) - 1)
      BY WithoutElements
    <3>2. \A j \in 1..(Len(u) - 1) : w[j] = u[Skip(j, k)] /\ Skip(j, k) \in 1..Len(u)
      BY WithoutElements
    <3> HIDE DEF w
    <3> QED
      BY <3>1, <3>2
  <2> HIDE DEF w
  <2>2. \A j, j2 \in DOMAIN w : (Skip(j, k) = Skip(j2, k) => j = j2) /\ Skip(j, k) # k
    BY <2>1 DEF Skip
  <2>3. \A j, j2 \in DOMAIN w : Overlaps(w[j], w[j2]) => j = j2
    BY <1>1, <2>1, <2>2 DEF Separate
  <2>4. \A j \in DOMAIN w : ~ Overlaps(u[k], w[j]) /\ w[j].len > 0
    BY <1>1, <2>1, <2>2 DEF Separate
  <2>5. \A j \in DOMAIN w : \A j2 \in DOMAIN v : ~ Overlaps(w[j], v[j2])
    BY <1>1, <2>1 DEF Separate
  <2>6. u[k] \in Block /\ u[k].len > 0 /\ \A j \in DOMAIN v : ~ Overlaps(u[k], v[j])
    BY <1>1 DEF Separate
  <2> QED
    BY <2>3, <2>4, <2>5, <2>6 DEF w
<1>2. Separate(t, s)
  <2>1. ASSUME NEW k \in DOMAIN t, NEW j \in DOMAIN s PROVE ~ Overlaps(t[k], s[j])
    <3>1. t[k] \in Block /\ s[j] \in Block
      OBVIOUS
    <3> QED
      BY <3>1, OverlapsBack DEF Separate
  <2> QED
    BY <2>1 DEF Separate
<1>3. ASSUME NEW k \in DOMAIN s
      PROVE  /\ Separate(Without(s, k), t) /\ s[k] \in Block /\ s[k].len > 0
             /\ \A j \in DOMAIN Without(s, k) : ~ Overlaps(s[k], Without(s, k)[j])
             /\ \A j \in DOMAIN t : ~ Overlaps(s[k], t[j])
  BY <1>1 DEF Separate
<1>4. ASSUME NEW k \in DOMAIN t
      PROVE  /\ Separate(s, Without(t, k)) /\ t[k] \in Block /\ t[k].len > 0
             /\ \A j \in DOMAIN Without(t, k) : ~ Overlaps(t[k], Without(t, k)[j])
             /\ \A j \in DOMAIN s : ~ Overlaps(t[k], s[j])
  <2>1. Without(t, k) \in Seq(Block) /\ \A j \in DOMAIN Without(t, k) : Without(t, k)[j] \in Block
    BY WithoutElements
  <2>2. ASSUME NEW j \in DOMAIN Without(t, k), NEW j2 \in DOMAIN s
        PROVE  ~ Overlaps(s[j2], Without(t, k)[j])
    BY <1>1, <1>2, <2>1, OverlapsBack
  <2> QED
    BY <1>1, <1>2, <2>2 DEF Separate
<1> QED
  BY <1>3, <1>4

(* A node moves from one list to the front of the other.                   *)
LEMMA SeparateMove ==
  ASSUME NEW s \in Seq(Block), NEW t \in Seq(Block), Separate(s, t)
  PROVE  /\ \A k \in DOMAIN s : Separate(Without(s, k), <<s[k]>> \o t)
         /\ \A k \in DOMAIN t : Separate(<<t[k]>> \o s, Without(t, k))
<1>1. ASSUME NEW k \in DOMAIN s PROVE Separate(Without(s, k), <<s[k]>> \o t)
  <2>1. Without(s, k) \in Seq(Block)
    BY WithoutElements
  <2> QED
    BY <2>1, SeparateWithout, SeparateCons
<1>2. ASSUME NEW k \in DOMAIN t PROVE Separate(<<t[k]>> \o s, Without(t, k))
  <2>1. Without(t, k) \in Seq(Block)
    BY WithoutElements
  <2> QED
    BY <2>1, SeparateWithout, SeparateCons
<1> QED
  BY <1>1, <1>2


-----------------------------------------------------------------------------
(* Every step keeps the nodes of the list and of the reserve apart.        *)

LEMMA UsedType ==
  ASSUME TypeOK, CurInv
  PROVE  /\ Used \in Seq(Block) /\ free_cleanups \in Seq(Block)
         /\ cleanups \in Seq(Cleanup) /\ rest \in Seq(Cleanup)
         /\ Ats(cleanups) \in Seq(Block) /\ Ats(rest) \in Seq(Block)
         /\ RunningAll /\ pc = "handler" => Used = <<cur.at>> \o Ats(rest) /\ cur.at \in Block
         /\ RunningAll /\ pc # "handler" => Used = Ats(rest)
         /\ ~ RunningAll => Used = Ats(cleanups)
<1>1. /\ free_cleanups \in Seq(Block) /\ cleanups \in Seq(Cleanup) /\ rest \in Seq(Cleanup)
  BY DEF TypeOK
<1>2. Ats(cleanups) \in Seq(Block) /\ Ats(rest) \in Seq(Block)
  BY <1>1, FieldLists
<1>3. pc = "handler" => cur.at \in Block
  BY DEF CurInv, Cleanup
<1>4. RunningAll /\ pc = "handler" => Used = <<cur.at>> \o Ats(rest)
  BY DEF Used
<1>5. RunningAll /\ pc # "handler" => Used = Ats(rest)
  BY <1>2, ConcatEmptySeq DEF Used
<1>6. ~ RunningAll => Used = Ats(cleanups)
  BY DEF Used
<1>7. ASSUME pc = "handler" PROVE <<cur.at>> \o Ats(rest) \in Seq(Block)
  BY <1>2, <1>3, <1>7, ConsElements
<1>8. Used \in Seq(Block)
  BY <1>2, <1>4, <1>5, <1>6, <1>7
<1> QED
  BY <1>1, <1>2, <1>3, <1>4, <1>5, <1>6, <1>8

(* A cleanup node is not empty.                                            *)
LEMMA CleanupSize == spr_align_allocation(SizeofCleanup) > 0
<1> DEFINE up == SizeofCleanup + (SPR_ALIGN_SIZE - 1)
           q  == up \div SPR_ALIGN_SIZE
<1>1. SPR_PAGE_SIZE < Word
  <2>1. 1 \in 1..(SPR_MAX_POOL_SLOT + 1)
    BY SizeTypes
  <2>2. 1 * SPR_PAGE_SIZE < Word
    BY <2>1, PagesBounds
  <2> QED
    BY <2>2, SizeTypes
<1>2. up \in 0..(Word - 1) /\ up \in Nat
  BY <1>1, SizeTypes, SizesAssumption DEF SizesAssumption
<1>3. up % Word = up
  BY <1>2, SizeTypes, ModSmall
<1>4. spr_align_default(SizeofCleanup) = q * SPR_ALIGN_SIZE
  BY <1>3 DEF spr_align_default
<1>5. q \in Nat /\ up < SPR_ALIGN_SIZE * q + SPR_ALIGN_SIZE
  BY <1>2, SizeTypes, DivRange
<1> HIDE DEF q
<1>6. SPR_ALIGN_SIZE * q = q * SPR_ALIGN_SIZE /\ q * SPR_ALIGN_SIZE \in Nat
  BY <1>5, SizeTypes
<1>7. q * SPR_ALIGN_SIZE >= SizeofCleanup
  BY <1>5, <1>6, SizeTypes
<1> QED
  BY <1>4, <1>6, <1>7, SizeTypes DEF spr_align_allocation, SPR_MIN_ALLOC

(* A step that leaves the lists and the frame alone.                       *)
LEMMA NodesUnchanged ==
  ASSUME NodesInv, UNCHANGED <<cleanups, free_cleanups, frame>>, fault = "none" \/ fault' = fault
  PROVE  NodesInv'
<1>1. UNCHANGED <<pc, op, rest, cur>>
  BY DEF frame
<1>2. Used' = Used /\ CurInv'
  BY <1>1 DEF NodesInv, CurInv, Used, RunningAll, Ats
<1> QED
  BY <1>2 DEF NodesInv, Separate

(* The cleanup nodes a new block is compared with include those in use.    *)
LEMMA ApartFromUsed ==
  ASSUME TypeOK, CurInv, NEW n \in Nodes, NEW a \in Nat, NEW index \in Nat,
         TakeBytes(n, a, index), fault' = "none"
  PROVE  LET b == BlockOf(n, a, index)
         IN  /\ b \in Block /\ b.len = a
             /\ \A k \in DOMAIN cleanups : ~ Overlaps(b, cleanups[k].at)
             /\ \A k \in DOMAIN free_cleanups : ~ Overlaps(b, free_cleanups[k])
<1> DEFINE b == BlockOf(n, a, index)
<1>1. b \in Block /\ b.len = a
  BY TakeBytesType DEF BlockOf
<1>2. \A c \in CleanupNodes : ~ Overlaps(b, c)
  BY DEF TakeBytes
<1> HIDE DEF b
<1> QED
  BY <1>1, <1>2 DEF CleanupNodes, b

(* spr_pool_cleanup_add1 takes the node from the reserve, or new memory.   *)
LEMMA NodesAdd ==
  ASSUME TypeOK, NodesInv, NEW d \in Data \cup Large, AddCleanup(d), UNCHANGED frame,
         fault = "none", pc \in {"idle", "handler"}
  PROVE  NodesInv'
<1> DEFINE a     == spr_align_allocation(SizeofCleanup)
           index == SlotIndex(a)
<1>1. a \in Nat /\ index \in Nat /\ a > 0
  BY SizeTypes, AlignNat, NPagesPositive, CleanupSize DEF SlotIndex
<1>2. CurInv /\ Separate(Used, free_cleanups)
  BY DEF NodesInv
<1>3. UNCHANGED <<pc, op, rest, cur, i>> /\ RunningAll' = RunningAll
  BY DEF frame, RunningAll
<1>4. /\ Used \in Seq(Block) /\ free_cleanups \in Seq(Block) /\ cleanups \in Seq(Cleanup)
      /\ Ats(cleanups) \in Seq(Block)
  BY <1>2, UsedType
<1>5. RunningAll => Used' = Used
  BY <1>3 DEF Used
<1>6. ASSUME NEW c \in Cleanup, c.at.len > 0, cleanups' = <<c>> \o cleanups
      PROVE  CurInv' /\ (~ RunningAll => Used' = <<c.at>> \o Used)
  <2>1. /\ \A j \in 2..(Len(cleanups) + 1) : cleanups'[j] = cleanups[j - 1]
        /\ DOMAIN cleanups' = 1..(Len(cleanups) + 1)
        /\ Len(cleanups) \in Nat /\ DOMAIN cleanups = 1..Len(cleanups)
    BY <1>4, <1>6, ConsElements
  <2>2. ASSUME NEW k \in DOMAIN cleanups, cleanups[k] = cur
        PROVE  \E k2 \in DOMAIN cleanups' : cleanups'[k2] = cur
    <3>1. k + 1 \in 2..(Len(cleanups) + 1) /\ (k + 1) - 1 = k /\ k + 1 \in DOMAIN cleanups'
      BY <2>1
    <3>2. cleanups'[k + 1] = cleanups[k]
      BY <2>1, <3>1
    <3> QED
      BY <2>2, <3>1, <3>2
  <2>3. CurInv'
    BY <1>2, <1>3, <2>2 DEF CurInv
  <2>4. ~ RunningAll => Used' = Ats(cleanups)' /\ Used = Ats(cleanups)
    BY <1>3 DEF Used
  <2>5. Ats(cleanups)' = <<c.at>> \o Ats(cleanups)
    BY <1>4, <1>6, FieldsCons DEF Ats
  <2> QED
    BY <2>3, <2>4, <2>5
<1>7. CASE /\ free_cleanups # <<>>
           /\ cleanups' = <<[at |-> Head(free_cleanups), data |-> d]>> \o cleanups
           /\ free_cleanups' = Tail(free_cleanups)
  <2> DEFINE c == [at |-> Head(free_cleanups), data |-> d]
  <2>1. 1 \in DOMAIN free_cleanups /\ Tail(free_cleanups) = Without(free_cleanups, 1)
    BY <1>4, <1>7, TailIsWithout
  <2>2. Head(free_cleanups) = free_cleanups[1] /\ Head(free_cleanups) \in Block
    BY <1>4, <1>7, TailElements
  <2>3. c \in Cleanup /\ c.at = free_cleanups[1]
    BY <2>2 DEF Cleanup
  <2>4. free_cleanups[1].len > 0
    BY <1>2, <2>1 DEF Separate
  <2>5. cleanups' = <<c>> \o cleanups
    BY <1>7
  <2> HIDE DEF c
  <2>6. CurInv' /\ (~ RunningAll => Used' = <<free_cleanups[1]>> \o Used)
    BY <1>6, <2>3, <2>4, <2>5
  <2>7. /\ Separate(Used, Without(free_cleanups, 1))
        /\ Separate(<<free_cleanups[1]>> \o Used, Without(free_cleanups, 1))
    BY <1>2, <1>4, <2>1, SeparateWithout, SeparateMove
  <2>8. Separate(Used', free_cleanups')
    BY <1>5, <1>7, <2>1, <2>6, <2>7
  <2> QED
    BY <2>6, <2>8 DEF NodesInv, Separate
<1>8. ASSUME NEW n \in Nodes, TakeBytes(n, a, index), UNCHANGED free_cleanups,
             cleanups' = <<[at |-> BlockOf(n, a, index), data |-> d]>> \o cleanups
      PROVE  NodesInv'
  <2> DEFINE b == BlockOf(n, a, index)
             c == [at |-> b, data |-> d]
  <2> HIDE DEF a, index
  <2>1. b \in Block /\ b.len = a
    BY <1>1, <1>8, TakeBytesType DEF BlockOf
  <2>2. c \in Cleanup /\ c.at = b /\ cleanups' = <<c>> \o cleanups
    BY <1>8, <2>1 DEF Cleanup
  <2>3. fault' = "none" =>
          /\ \A k \in DOMAIN cleanups : ~ Overlaps(b, cleanups[k].at)
          /\ \A k \in DOMAIN free_cleanups : ~ Overlaps(b, free_cleanups[k])
    BY <1>1, <1>2, <1>8, ApartFromUsed
  <2> HIDE DEF b, c
  <2>4. CurInv' /\ (~ RunningAll => Used' = <<b>> \o Used)
    BY <1>1, <1>6, <2>1, <2>2
  <2>5. ~ RunningAll => Used = Ats(cleanups)
    BY DEF Used
  <2>6. \A k \in DOMAIN cleanups : Ats(cleanups)[k] = cleanups[k].at
    BY DEF Ats
  <2>7. DOMAIN Ats(cleanups) = DOMAIN cleanups
    BY DEF Ats
  <2>8. fault' = "none" /\ ~ RunningAll => Separate(<<b>> \o Used, free_cleanups)
    BY <1>1, <1>2, <1>4, <2>1, <2>3, <2>5, <2>6, <2>7, SeparateCons
  <2>9. fault' = "none" => Separate(Used', free_cleanups')
    BY <1>2, <1>5, <1>8, <2>4, <2>8
  <2> QED
    BY <2>4, <2>9 DEF NodesInv, Separate
<1>9. CASE fault' = "null" /\ UNCHANGED <<memory, cleanups, free_cleanups>>
  BY <1>9, NodesUnchanged
<1> QED
  BY <1>7, <1>8, <1>9 DEF AddCleanup

(* Taking an entry out of the list.                                        *)
LEMMA NodesUnlink ==
  ASSUME TypeOK, CurInv, Separate(Ats(cleanups), free_cleanups),
         NEW k \in DOMAIN cleanups, Unlink(k)
  PROVE  Separate(Ats(cleanups)', free_cleanups')
<1>1. /\ cleanups \in Seq(Cleanup) /\ Ats(cleanups) \in Seq(Block)
      /\ free_cleanups \in Seq(Block)
  BY UsedType
<1>2. /\ cleanups' = Without(cleanups, k)
      /\ free_cleanups' = <<cleanups[k].at>> \o free_cleanups
  BY DEF Unlink, Without
<1>3. k \in DOMAIN Ats(cleanups) /\ Ats(cleanups)[k] = cleanups[k].at
  BY DEF Ats
<1>4. Ats(cleanups)' = Without(Ats(cleanups), k)
  BY <1>1, <1>2, FieldsWithout DEF Ats
<1> QED
  BY <1>1, <1>2, <1>3, <1>4, SeparateMove

(* spr_pool_cleanup_run1 and spr_pool_cleanup_remove1.                     *)
LEMMA NodesRemove ==
  ASSUME TypeInv, NodesInv, NEW d \in Data \cup Large,
         spr_pool_cleanup_run1(d) \/ spr_pool_cleanup_remove1(d)
  PROVE  NodesInv'
<1>1. TypeOK /\ CurInv /\ pc = "idle" /\ fault = "none" /\ fault' = fault
  <2>1. {"run", "remove"} \cap HandlerOps = {}
    BY PoolAssumption DEF PoolAssumption
  <2> QED
    BY <2>1 DEF TypeInv, NodesInv, spr_pool_cleanup_run1, spr_pool_cleanup_remove1, Callable
<1>2. ~ RunningAll /\ Separate(Ats(cleanups), free_cleanups)
  BY <1>1 DEF RunningAll, NodesInv, Used
<1>3. CASE UNCHANGED <<lists, frame>>
  BY <1>1, <1>3, NodesUnchanged DEF lists
<1>4. ASSUME NEW k \in DOMAIN cleanups, Unlink(k), UNCHANGED frame
      PROVE  NodesInv'
  <2>1. Separate(Ats(cleanups)', free_cleanups')
    BY <1>1, <1>2, <1>4, NodesUnlink
  <2>2. pc' = "idle" /\ ~ RunningAll' /\ cur' = cur
    BY <1>1, <1>4 DEF RunningAll, frame
  <2>3. CurInv'
    BY <1>1, <2>2 DEF CurInv
  <2>4. Used' = Ats(cleanups)'
    BY <2>2 DEF Used
  <2> QED
    BY <2>1, <2>3, <2>4 DEF NodesInv, Separate
<1>5. ASSUME NEW k \in DOMAIN cleanups, Found(d, k), d \notin Large, pc' = "handler", op' = "run",
             cur' = cleanups[k], UNCHANGED lists
      PROVE  NodesInv'
  <2>1. ~ RunningAll' /\ UNCHANGED <<cleanups, free_cleanups>>
    BY <1>5 DEF RunningAll, lists
  <2>2. cleanups[k] \in Cleanup /\ cleanups[k].data = d
    BY <1>1, <1>5 DEF TypeOK, Found
  <2>3. CurInv'
    BY <1>5, <2>1, <2>2 DEF CurInv
  <2>4. Used' = Ats(cleanups)
    BY <2>1 DEF Used, Ats
  <2> QED
    BY <1>2, <2>1, <2>3, <2>4 DEF NodesInv, Separate
<1> QED
  BY <1>3, <1>4, <1>5 DEF spr_pool_cleanup_run1, spr_pool_cleanup_remove1

(* The handler of spr_pool_cleanup_run1 returns.                           *)
LEMMA NodesReturn1 ==
  ASSUME TypeInv, NodesInv, ReturnToRun1
  PROVE  NodesInv'
<1>1. TypeOK /\ CurInv /\ ~ RunningAll /\ fault = "none" /\ ~ RunningAll'
  BY DEF TypeInv, NodesInv, ReturnToRun1, RunningAll
<1>2. Separate(Ats(cleanups), free_cleanups)
  BY <1>1 DEF NodesInv, Used
<1>3. CurInv'
  BY DEF CurInv, ReturnToRun1
<1>4. ASSUME NEW k \in DOMAIN cleanups, Unlink(k)
      PROVE  NodesInv'
  <2>1. Separate(Ats(cleanups)', free_cleanups')
    BY <1>1, <1>2, <1>4, NodesUnlink
  <2>2. Used' = Ats(cleanups)'
    BY <1>1 DEF Used
  <2> QED
    BY <1>3, <2>1, <2>2 DEF NodesInv, Separate
<1>5. CASE fault' = "wild"
  BY <1>3, <1>5 DEF NodesInv
<1> QED
  BY <1>4, <1>5 DEF ReturnToRun1

(* spr_pool_cleanup_run_all and what follows it.                           *)
LEMMA NodesLoops ==
  ASSUME TypeInv, NodesInv,
         \/ spr_pool_clear \/ spr_pool_destroy \/ RunNext \/ ReturnToRunAll
         \/ FinishClear \/ StartFree
  PROVE  NodesInv'
<1>1. TypeOK /\ CurInv /\ fault = "none" /\ fault' = fault
  BY DEF TypeInv, NodesInv, spr_pool_clear, spr_pool_destroy, StartRunAll, Callable, RunNext,
         ReturnToRunAll, FinishClear, StartFree
<1>2. /\ Separate(Used, free_cleanups) /\ Used \in Seq(Block) /\ free_cleanups \in Seq(Block)
      /\ rest \in Seq(Cleanup) /\ Ats(rest) \in Seq(Block)
  BY <1>1, UsedType DEF NodesInv
<1>3. CASE spr_pool_clear \/ spr_pool_destroy
  <2>1. /\ pc = "idle" /\ pc' = "walk" /\ op' \in {"clear", "destroy"} /\ rest' = cleanups
        /\ UNCHANGED <<cur, cleanups, free_cleanups>>
    BY <1>3, PoolAssumption
       DEF PoolAssumption, spr_pool_clear, spr_pool_destroy, StartRunAll, Callable, lists
  <2>2. RunningAll' /\ ~ RunningAll /\ CurInv'
    BY <1>1, <2>1 DEF RunningAll, CurInv
  <2>3. Used' = <<>> \o Ats(cleanups) /\ Used = Ats(cleanups)
    BY <2>1, <2>2 DEF Used, Ats
  <2>4. Used' = Used
    BY <1>2, <2>3, ConcatEmptySeq
  <2> QED
    BY <1>2, <2>1, <2>2, <2>4 DEF NodesInv, Separate
<1>4. CASE RunNext
  <2>1. /\ pc = "walk" /\ rest # <<>> /\ rest' = Tail(rest) /\ op' = op /\ op \in {"clear", "destroy"}
        /\ cur = NULL
    BY <1>1, <1>4 DEF RunNext, CurInv
  <2>2. /\ 1 \in DOMAIN rest /\ Tail(rest) = Without(rest, 1) /\ Head(rest) = rest[1]
        /\ rest[1] \in Cleanup
    BY <1>2, <2>1, TailIsWithout, TailElements
  <2>3. Ats(rest)' = Without(Ats(rest), 1)
    BY <1>2, <2>1, <2>2, FieldsWithout DEF Ats
  <2>4. 1 \in DOMAIN Ats(rest) /\ Ats(rest)[1] = rest[1].at /\ rest[1].at \in Block
    BY <2>2 DEF Ats, Cleanup
  <2>5. Used = Ats(rest)
    BY <1>1, <2>1, UsedType DEF RunningAll
  <2>6. CASE Head(rest).data \in Large
    <3>1. pc' = "walk" /\ cur' = cur /\ free_cleanups' = <<rest[1].at>> \o free_cleanups
      BY <1>4, <2>1, <2>2, <2>6 DEF RunNext
    <3>2. RunningAll' /\ CurInv'
      BY <2>1, <3>1 DEF RunningAll, CurInv
    <3>3. Used' = <<>> \o Ats(rest)'
      BY <3>1, <3>2 DEF Used
    <3>4. Without(Ats(rest), 1) \in Seq(Block)
      BY <1>2, <2>4, WithoutElements
    <3>5. Used' = Without(Ats(rest), 1)
      BY <2>3, <3>3, <3>4, ConcatEmptySeq
    <3>6. Separate(Used', free_cleanups')
      BY <1>2, <2>4, <2>5, <3>1, <3>5, SeparateMove
    <3> QED
      BY <3>2, <3>6 DEF NodesInv, Separate
  <2>7. CASE Head(rest).data \notin Large
    <3>1. pc' = "handler" /\ cur' = rest[1] /\ free_cleanups' = free_cleanups
      BY <1>4, <2>1, <2>2, <2>7 DEF RunNext
    <3>2. RunningAll' /\ CurInv'
      BY <2>1, <2>2, <2>7, <3>1 DEF RunningAll, CurInv
    <3>3. Used' = <<rest[1].at>> \o Without(Ats(rest), 1)
      BY <2>3, <3>1, <3>2 DEF Used
    <3>4. Used' = <<Head(Ats(rest))>> \o Tail(Ats(rest)) /\ Ats(rest) # <<>>
      <4>1. Ats(rest) # <<>>
        BY <2>4
      <4>2. Tail(Ats(rest)) = Without(Ats(rest), 1)
        BY <1>2, <4>1, TailIsWithout
      <4>3. Head(Ats(rest)) = rest[1].at
        BY <1>2, <2>4, <4>1, TailElements
      <4> QED
        BY <3>3, <4>1, <4>2, <4>3
    <3>5. Used' = Used
      BY <1>2, <2>5, <3>4
    <3> QED
      BY <1>2, <3>1, <3>2, <3>5 DEF NodesInv, Separate
  <2> QED
    BY <2>6, <2>7
<1>5. CASE ReturnToRunAll
  <2>1. /\ pc = "handler" /\ pc' = "walk" /\ op' = op /\ op \in {"clear", "destroy"} /\ cur' = NULL
        /\ free_cleanups' = <<cur.at>> \o free_cleanups /\ rest' = rest
    BY <1>1, <1>5 DEF ReturnToRunAll, CurInv, TypeOK
  <2>2. RunningAll /\ RunningAll' /\ CurInv'
    BY <2>1 DEF RunningAll, CurInv
  <2>3. Used = <<cur.at>> \o Ats(rest) /\ cur.at \in Block
    BY <1>1, <2>1, <2>2, UsedType
  <2>4. Used' = Ats(rest)
    <3>1. Used' = <<>> \o Ats(rest)
      BY <2>1, <2>2 DEF Used, Ats
    <3> QED
      BY <1>2, <3>1, ConcatEmptySeq
  <2>5. 1 \in DOMAIN Used /\ Used[1] = cur.at /\ Tail(Used) = Ats(rest) /\ Used # <<>>
    BY <1>2, <2>3
  <2>6. Without(Used, 1) = Ats(rest)
    BY <1>2, <2>5, TailIsWithout
  <2>7. Separate(Used', free_cleanups')
    BY <1>2, <2>1, <2>4, <2>5, <2>6, SeparateMove
  <2> QED
    BY <2>2, <2>7 DEF NodesInv, Separate
<1>6. CASE FinishClear \/ StartFree
  <2>1. /\ cleanups' = <<>> /\ pc' \in {"idle", "free"} /\ UNCHANGED <<free_cleanups, cur>>
        /\ cur = NULL
    BY <1>1, <1>6 DEF FinishClear, StartFree, CurInv
  <2>2. ~ RunningAll' /\ CurInv'
    BY <2>1 DEF RunningAll, CurInv
  <2>3. DOMAIN Used' = {}
    BY <2>1, <2>2 DEF Used, Ats
  <2> QED
    BY <1>2, <2>1, <2>2, <2>3 DEF NodesInv, Separate
<1> QED
  BY <1>3, <1>4, <1>5, <1>6

(* Every step keeps the cleanup nodes apart, as far as it is defined.      *)
LEMMA NodesNext ==
  ASSUME TypeInv, NodesInv, [Next]_vars
  PROVE  NodesInv'
<1>0. TypeOK
  BY DEF TypeInv
<1>1. ASSUME NEW size \in Sizes, NEW root \in BOOLEAN, spr_pool_create1(size, root)
      PROVE  NodesInv'
  <2>1. CASE UNCHANGED frame
    BY <1>1, <2>1, NodesUnchanged DEF spr_pool_create1, lists
  <2>2. CASE pc' = "idle" /\ UNCHANGED <<op, rest, cur, i>>
    <3>1. pc = "none" /\ UNCHANGED <<cleanups, free_cleanups, fault>>
      BY <1>1 DEF spr_pool_create1, lists
    <3>2. CurInv' /\ ~ RunningAll /\ ~ RunningAll'
      BY <2>2, <3>1 DEF NodesInv, CurInv, RunningAll
    <3>3. Used' = Used
      BY <3>1, <3>2 DEF Used, Ats
    <3> QED
      BY <3>1, <3>2, <3>3 DEF NodesInv, Separate
  <2> QED
    BY <1>1, <2>1, <2>2 DEF spr_pool_create1
<1>2. ASSUME NEW size \in Sizes, spr_palloc(size)
      PROVE  NodesInv'
  <2>1. fault = "none" /\ pc \in {"idle", "handler"} /\ UNCHANGED frame
    BY <1>2 DEF spr_palloc, PallocSmall, PallocLarge, Callable
  <2>2. CASE UNCHANGED lists
    BY <2>1, <2>2, NodesUnchanged DEF lists
  <2>3. CASE \E m \in Large : AddCleanup(m)
    BY <1>0, <2>1, <2>3, NodesAdd
  <2> QED
    BY <1>2, <2>2, <2>3 DEF spr_palloc, PallocSmall, PallocLarge
<1>3. ASSUME NEW d \in Data, spr_pool_cleanup_add1(d)
      PROVE  NodesInv'
  BY <1>0, <1>3, NodesAdd DEF spr_pool_cleanup_add1, Callable
<1>4. ASSUME NEW d \in Data \cup Large,
             spr_pool_cleanup_run1(d) \/ spr_pool_cleanup_remove1(d)
      PROVE  NodesInv'
  BY <1>4, NodesRemove
<1>5. CASE \/ spr_pool_clear \/ spr_pool_destroy \/ RunNext \/ ReturnToRunAll
           \/ FinishClear \/ StartFree
  BY <1>5, NodesLoops
<1>6. CASE ReturnToRun1
  BY <1>6, NodesReturn1
<1>7. CASE FreeSlot \/ FinishDestroy
  <2>1. /\ pc \in {"free"} /\ pc' \in {"free", "gone"} /\ fault = "none"
        /\ UNCHANGED <<cleanups, free_cleanups, op, rest, cur>>
    BY <1>7 DEF FreeSlot, FinishDestroy, lists
  <2>2. CurInv' /\ ~ RunningAll /\ ~ RunningAll'
    BY <2>1 DEF NodesInv, CurInv, RunningAll
  <2>3. Used' = Used
    BY <2>1, <2>2 DEF Used, Ats
  <2> QED
    BY <2>1, <2>2, <2>3 DEF NodesInv, Separate
<1>8. CASE UNCHANGED vars
  BY <1>8, NodesUnchanged DEF vars, lists
<1> QED
  BY <1>1, <1>2, <1>3, <1>4, <1>5, <1>6, <1>7, <1>8 DEF Next, Calls, Internal

LEMMA NodesInit == Init => NodesInv
<1> SUFFICES ASSUME Init PROVE NodesInv
  OBVIOUS
<1>1. DOMAIN Used = {} /\ DOMAIN free_cleanups = {}
  BY DEF Init, Used, RunningAll, Ats
<1> QED
  BY <1>1 DEF Init, NodesInv, CurInv, Separate

-----------------------------------------------------------------------------
(* The entries that own oversized blocks.                                  *)

(* A list with an entry more or less owns a block more or less.            *)
LEMMA OwnedCons ==
  ASSUME NEW s \in Seq(Cleanup), NEW ms \in SUBSET Large, Owned(s, ms),
         NEW c \in Cleanup, NEW ms2,
         \/ c.data \notin Large /\ ms2 = ms
         \/ c.data \in Large \ ms /\ ms2 = ms \cup {c.data}
  PROVE  Owned(<<c>> \o s, ms2)
<1> DEFINE t == <<c>> \o s
<1>1. /\ Len(s) \in Nat /\ DOMAIN s = 1..Len(s)
      /\ DOMAIN t = 1..(Len(s) + 1) /\ t[1] = c
      /\ \A j \in 2..(Len(s) + 1) : t[j] = s[j - 1] /\ j - 1 \in DOMAIN s
  BY ConsElements
<1> HIDE DEF t
<1>2. \A k \in DOMAIN t : k \in Nat /\ (k = 1 \/ k \in 2..(Len(s) + 1))
  BY <1>1
<1>3. ASSUME NEW m \in ms2 PROVE \E k \in DOMAIN t : t[k].data = m
  <2>1. CASE m = c.data
    BY <1>1, <2>1
  <2>2. CASE m \in ms
    <3>1. PICK k \in DOMAIN s : s[k].data = m
      BY <2>2 DEF Owned
    <3>2. k + 1 \in 2..(Len(s) + 1) /\ (k + 1) - 1 = k /\ k + 1 \in DOMAIN t
      BY <1>1
    <3>3. t[k + 1] = s[k]
      BY <1>1, <3>2
    <3> QED
      BY <3>1, <3>2, <3>3
  <2> QED
    BY <2>1, <2>2
<1>4. ASSUME NEW k \in DOMAIN t, t[k].data \in Large PROVE t[k].data \in ms2
  <2>1. CASE k = 1
    BY <1>1, <1>4, <2>1
  <2>2. CASE k \in 2..(Len(s) + 1)
    <3>1. t[k] = s[k - 1] /\ k - 1 \in DOMAIN s /\ ms \subseteq ms2
      BY <1>1, <2>2
    <3>2. s[k - 1].data \in ms
      BY <1>4, <3>1 DEF Owned
    <3> QED
      BY <3>1, <3>2
  <2> QED
    BY <1>2, <2>1, <2>2
<1>5. ASSUME NEW k \in DOMAIN t, NEW k2 \in DOMAIN t, t[k].data \in Large, t[k2].data = t[k].data
      PROVE  k2 = k
  <2>1. CASE k # 1 /\ k2 # 1
    <3>1. /\ t[k] = s[k - 1] /\ k - 1 \in DOMAIN s
          /\ t[k2] = s[k2 - 1] /\ k2 - 1 \in DOMAIN s
      BY <1>1, <1>2, <2>1
    <3>2. s[k - 1].data \in Large /\ s[k2 - 1].data = s[k - 1].data
      BY <1>5, <3>1
    <3>3. \A a, b \in DOMAIN s : s[a].data \in Large /\ s[b].data = s[a].data => b = a
      BY DEF Owned
    <3>4. k2 - 1 = k - 1
      BY ONLY <3>1, <3>2, <3>3
    <3> QED
      BY <1>2, <3>4
  <2>2. CASE (k = 1) # (k2 = 1)
    <3>1. PICK j \in DOMAIN s : s[j].data = c.data /\ c.data \in Large
      BY <1>1, <1>2, <1>5, <2>2
    <3>2. c.data \in ms
      BY <3>1 DEF Owned
    <3> QED
      BY <3>1, <3>2
  <2> QED
    BY <2>1, <2>2
<1> QED
  BY <1>3, <1>4, <1>5 DEF Owned, t

LEMMA OwnedWithout ==
  ASSUME NEW s \in Seq(Cleanup), NEW ms \in SUBSET Large, Owned(s, ms), NEW k \in DOMAIN s
  PROVE  Owned(Without(s, k), ms \ {s[k].data})
<1> DEFINE t   == Without(s, k)
           ms2 == ms \ {s[k].data}
<1>1. /\ Len(s) \in Nat \ {0} /\ DOMAIN s = 1..Len(s) /\ k \in 1..Len(s)
      /\ DOMAIN t = 1..(Len(s) - 1)
  BY WithoutElements
<1>2. \A j \in 1..(Len(s) - 1) : t[j] = s[Skip(j, k)] /\ Skip(j, k) \in 1..Len(s)
  BY WithoutElements
<1> HIDE DEF t
<1>3. /\ \A j, j2 \in DOMAIN t : (Skip(j, k) = Skip(j2, k) => j = j2) /\ Skip(j, k) # k
      /\ \A l \in DOMAIN s : l # k => \E j \in DOMAIN t : Skip(j, k) = l
  <2>1. \A j, j2 \in DOMAIN t : (Skip(j, k) = Skip(j2, k) => j = j2) /\ Skip(j, k) # k
    BY <1>1 DEF Skip
  <2>2. ASSUME NEW l \in DOMAIN s, l # k PROVE \E j \in DOMAIN t : Skip(j, k) = l
    <3>1. CASE l < k
      BY <1>1, <3>1 DEF Skip
    <3>2. CASE l > k
      <4>1. l - 1 \in DOMAIN t /\ Skip(l - 1, k) = l
        BY <1>1, <3>2 DEF Skip
      <4> QED
        BY <4>1
    <3> QED
      BY <1>1, <2>2, <3>1, <3>2
  <2> QED
    BY <2>1, <2>2
<1>4. ASSUME NEW m \in ms2 PROVE \E j \in DOMAIN t : t[j].data = m
  <2>1. m \in ms /\ m # s[k].data
    BY <1>4
  <2>2. PICK l \in DOMAIN s : s[l].data = m
    BY <2>1 DEF Owned
  <2>3. PICK j \in DOMAIN t : Skip(j, k) = l
    BY <1>3, <2>1, <2>2
  <2> QED
    BY <1>1, <1>2, <2>2, <2>3
<1>5. ASSUME NEW j \in DOMAIN t, t[j].data \in Large PROVE t[j].data \in ms2
  <2>1. t[j] = s[Skip(j, k)] /\ Skip(j, k) \in DOMAIN s /\ Skip(j, k) # k
    BY <1>1, <1>2, <1>3
  <2>2. s[Skip(j, k)].data \in ms /\ s[k].data # s[Skip(j, k)].data
    BY <1>5, <2>1 DEF Owned
  <2> QED
    BY <2>1, <2>2
<1>6. ASSUME NEW j \in DOMAIN t, NEW j2 \in DOMAIN t, t[j].data \in Large, t[j2].data = t[j].data
      PROVE  j2 = j
  <2>1. Skip(j2, k) = Skip(j, k)
    BY <1>1, <1>2, <1>6 DEF Owned
  <2> QED
    BY <1>3, <2>1
<1> QED
  BY <1>4, <1>5, <1>6 DEF Owned, t

(* Registering an entry.                                                   *)
LEMMA LargeAdd ==
  ASSUME TypeOK, LargeInv, NEW d \in Data \cup Large, AddCleanup(d), UNCHANGED frame,
         fault = "none", RunningAll => d \notin Large,
         \/ d \notin Large /\ malloced' = malloced
         \/ d \in Large \ malloced /\ malloced' = malloced \cup {d}
  PROVE  LargeInv'
<1>1. RunningAll' = RunningAll /\ rest' = rest
  BY DEF RunningAll, frame
<1>2. CASE RunningAll
  BY <1>1, <1>2 DEF LargeInv, Owners
<1>3. CASE ~ RunningAll
  <2>1. /\ Owned(cleanups, malloced) /\ cleanups \in Seq(Cleanup) /\ malloced \in SUBSET Large
        /\ Owners' = cleanups'
    BY <1>1, <1>3 DEF LargeInv, Owners, TypeOK
  <2>2. ASSUME NEW b \in Block, cleanups' = <<[at |-> b, data |-> d]>> \o cleanups
        PROVE  LargeInv'
    <3> DEFINE c == [at |-> b, data |-> d]
    <3>1. c \in Cleanup /\ c.data = d /\ cleanups' = <<c>> \o cleanups
      BY <2>2 DEF Cleanup
    <3> HIDE DEF c
    <3> QED
      BY <2>1, <3>1, OwnedCons DEF LargeInv
  <2>3. CASE free_cleanups # <<>> /\ cleanups' = <<[at |-> Head(free_cleanups), data |-> d]>> \o cleanups
    <3>1. Head(free_cleanups) \in Block
      BY <2>3, TailElements DEF TypeOK
    <3> QED
      BY <2>2, <2>3, <3>1
  <2> DEFINE a     == spr_align_allocation(SizeofCleanup)
             index == SlotIndex(a)
  <2>4. a \in Nat /\ index \in Nat
    BY SizeTypes, AlignNat, NPagesPositive DEF SlotIndex
  <2> HIDE DEF a, index
  <2>5. CASE \E n \in Nodes :
               /\ TakeBytes(n, a, index)
               /\ cleanups' = <<[at |-> BlockOf(n, a, index), data |-> d]>> \o cleanups
    BY <2>2, <2>4, <2>5, TakeBytesType
  <2>6. CASE fault' = "null"
    BY <2>6 DEF LargeInv
  <2> QED
    BY <2>3, <2>5, <2>6 DEF AddCleanup, a, index
<1> QED
  BY <1>2, <1>3

(* Nothing is registered and nothing freed.                                *)
LEMMA LargeUnchanged ==
  ASSUME LargeInv, UNCHANGED <<malloced, cleanups, rest>>, RunningAll' = RunningAll,
         fault' = "none" => fault = "none"
  PROVE  LargeInv'
<1>1. Owners' = Owners
  BY DEF Owners
<1> QED
  BY <1>1 DEF LargeInv

(* spr_pool_cleanup_run1 and spr_pool_cleanup_remove1.                     *)
LEMMA LargeRemove ==
  ASSUME TypeOK, LargeInv, NEW d \in Data \cup Large,
         spr_pool_cleanup_run1(d) \/ spr_pool_cleanup_remove1(d)
  PROVE  LargeInv'
<1>1. pc = "idle" /\ fault = "none" /\ fault' = fault
  <2>1. {"run", "remove"} \cap HandlerOps = {}
    BY PoolAssumption DEF PoolAssumption
  <2> QED
    BY <2>1 DEF spr_pool_cleanup_run1, spr_pool_cleanup_remove1, Callable
<1>2. ~ RunningAll
  BY <1>1 DEF RunningAll
<1>3. /\ Owned(cleanups, malloced) /\ cleanups \in Seq(Cleanup) /\ malloced \in SUBSET Large
  BY <1>1, <1>2 DEF LargeInv, Owners, TypeOK
<1>4. CASE UNCHANGED <<lists, frame>>
  BY <1>1, <1>4, LargeUnchanged DEF lists, frame, RunningAll
<1>5. CASE UNCHANGED lists /\ pc' = "handler" /\ op' = "run"
  <2>1. Owners' = cleanups
    BY <1>5 DEF Owners, RunningAll, lists
  <2> QED
    BY <1>3, <1>5, <2>1 DEF LargeInv, lists
<1>6. ASSUME NEW k \in DOMAIN cleanups, Found(d, k), Unlink(k), malloced' = malloced \ {d},
             UNCHANGED frame
      PROVE  LargeInv'
  <2>1. cleanups' = Without(cleanups, k) /\ cleanups[k].data = d
    BY <1>6 DEF Unlink, Without, Found
  <2>2. Owners' = cleanups'
    BY <1>2, <1>6 DEF Owners, RunningAll, frame
  <2> QED
    BY <1>3, <1>6, <2>1, <2>2, OwnedWithout DEF LargeInv
<1> QED
  BY <1>4, <1>5, <1>6 DEF spr_pool_cleanup_run1, spr_pool_cleanup_remove1

(* The node that spr_pool_cleanup_run1 unlinks after the handler is the    *)
(* one whose handler it ran: no other has its address.                     *)
LEMMA UnlinksCur ==
  ASSUME TypeOK, NodesInv, fault = "none", pc = "handler", op = "run",
         NEW k \in DOMAIN cleanups, cleanups[k].at = cur.at
  PROVE  cleanups[k] = cur /\ (\A k2 \in DOMAIN cleanups : cleanups[k2].at = cur.at => k2 = k)
<1>1. CurInv /\ Separate(Used, free_cleanups) /\ Used = Ats(cleanups)
  BY DEF NodesInv, Used, RunningAll
<1>2. PICK k0 \in DOMAIN cleanups : cleanups[k0] = cur
  BY <1>1 DEF CurInv
<1>3. cleanups \in Seq(Cleanup) /\ cur.at \in Block
  BY <1>1 DEF TypeOK, CurInv, Cleanup
<1>4. /\ \A j \in DOMAIN cleanups : Ats(cleanups)[j] = cleanups[j].at
      /\ DOMAIN Ats(cleanups) = DOMAIN cleanups
  BY DEF Ats
<1>5. cur.at.len > 0
  BY <1>1, <1>2, <1>4 DEF Separate
<1>6. Overlaps(cur.at, cur.at)
  BY <1>3, <1>5, OverlapsBack
<1>7. \A j, j2 \in DOMAIN cleanups : cleanups[j].at = cur.at /\ cleanups[j2].at = cur.at => j = j2
  BY <1>1, <1>4, <1>6 DEF Separate
<1> QED
  BY <1>2, <1>7

LEMMA LargeReturn1 ==
  ASSUME TypeOK, NodesInv, LargeInv, ReturnToRun1
  PROVE  LargeInv'
<1>1. /\ pc = "handler" /\ op = "run" /\ fault = "none" /\ malloced' = malloced
      /\ ~ RunningAll /\ ~ RunningAll'
  BY DEF ReturnToRun1, RunningAll
<1>2. /\ Owned(cleanups, malloced) /\ cleanups \in Seq(Cleanup) /\ malloced \in SUBSET Large
      /\ cur.data \notin Large
  BY <1>1 DEF LargeInv, Owners, TypeOK, NodesInv, CurInv
<1>3. ASSUME NEW k \in DOMAIN cleanups, cleanups[k].at = cur.at, Unlink(k)
      PROVE  LargeInv'
  <2>1. cleanups' = Without(cleanups, k) /\ Owners' = cleanups'
    BY <1>1, <1>3 DEF Unlink, Without, Owners
  <2>2. cleanups[k] = cur
    BY <1>1, <1>3, UnlinksCur
  <2>3. malloced' = malloced \ {cleanups[k].data}
    BY <1>1, <1>2, <2>2
  <2> QED
    BY <1>2, <2>1, <2>3, OwnedWithout DEF LargeInv
<1>4. CASE fault' = "wild"
  BY <1>4 DEF LargeInv
<1> QED
  BY <1>3, <1>4 DEF ReturnToRun1

(* spr_pool_cleanup_run_all and what follows it.                           *)
LEMMA LargeLoops ==
  ASSUME TypeInv, NodesInv, LargeInv,
         \/ spr_pool_clear \/ spr_pool_destroy \/ RunNext \/ ReturnToRunAll
         \/ FinishClear \/ StartFree
  PROVE  LargeInv'
<1>1. TypeOK /\ CurInv /\ fault = "none" /\ fault' = fault
  BY DEF TypeInv, NodesInv, spr_pool_clear, spr_pool_destroy, StartRunAll, Callable, RunNext,
         ReturnToRunAll, FinishClear, StartFree
<1>2. rest \in Seq(Cleanup) /\ malloced \in SUBSET Large /\ Owned(Owners, malloced)
  BY <1>1 DEF LargeInv, TypeOK
<1>3. CASE spr_pool_clear \/ spr_pool_destroy
  <2>1. /\ pc = "idle" /\ pc' = "walk" /\ op' \in {"clear", "destroy"} /\ rest' = cleanups
        /\ malloced' = malloced
    BY <1>3, PoolAssumption
       DEF PoolAssumption, spr_pool_clear, spr_pool_destroy, StartRunAll, Callable, lists
  <2>2. Owners' = Owners
    BY <2>1 DEF Owners, RunningAll
  <2> QED
    BY <1>2, <2>1, <2>2 DEF LargeInv
<1>4. CASE RunNext
  <2>1. /\ pc = "walk" /\ rest # <<>> /\ rest' = Tail(rest) /\ op' = op /\ op \in {"clear", "destroy"}
        /\ pc' \in {"walk", "handler"}
    BY <1>1, <1>4 DEF RunNext, CurInv
  <2>2. Owners = rest /\ Owners' = rest'
    BY <2>1 DEF Owners, RunningAll
  <2>3. 1 \in DOMAIN rest /\ Tail(rest) = Without(rest, 1) /\ Head(rest) = rest[1]
    BY <1>2, <2>1, TailIsWithout, TailElements
  <2>4. malloced' = malloced \ {rest[1].data}
    BY <1>2, <1>4, <2>3 DEF RunNext
  <2> QED
    BY <1>2, <2>1, <2>2, <2>3, <2>4, OwnedWithout DEF LargeInv
<1>5. CASE ReturnToRunAll
  <2>1. /\ pc = "handler" /\ pc' = "walk" /\ op' = op /\ op \in {"clear", "destroy"}
        /\ UNCHANGED <<malloced, cleanups, rest>>
    BY <1>1, <1>5 DEF ReturnToRunAll, CurInv, TypeOK
  <2>2. RunningAll /\ RunningAll'
    BY <2>1 DEF RunningAll
  <2> QED
    BY <1>1, <2>1, <2>2, LargeUnchanged
<1>6. CASE FinishClear \/ StartFree
  <2>1. /\ pc = "walk" /\ rest = <<>> /\ op \in {"clear", "destroy"} /\ malloced' = malloced
        /\ cleanups' = <<>> /\ pc' \in {"idle", "free"}
    BY <1>6 DEF FinishClear, StartFree
  <2>2. Owners' = Owners
    BY <2>1 DEF Owners, RunningAll
  <2> QED
    BY <1>2, <2>1, <2>2 DEF LargeInv
<1> QED
  BY <1>3, <1>4, <1>5, <1>6

(* Handlers do not ask for oversized blocks.                               *)
NoLargeInHandlers == "large" \notin HandlerOps

LEMMA LargeNext ==
  ASSUME NoLargeInHandlers, TypeInv, NodesInv, LargeInv, [Next]_vars
  PROVE  LargeInv'
<1>0. TypeOK
  BY DEF TypeInv
<1>1. ASSUME NEW size \in Sizes, NEW root \in BOOLEAN, spr_pool_create1(size, root)
      PROVE  LargeInv'
  <2>1. UNCHANGED <<malloced, cleanups, rest, fault>> /\ ~ RunningAll /\ RunningAll' = RunningAll
    BY <1>1 DEF spr_pool_create1, lists, frame, RunningAll
  <2> QED
    BY <2>1, LargeUnchanged
<1>2. ASSUME NEW size \in Sizes, spr_palloc(size)
      PROVE  LargeInv'
  <2>1. fault = "none" /\ UNCHANGED frame /\ RunningAll' = RunningAll
    BY <1>2 DEF spr_palloc, PallocSmall, PallocLarge, Callable, frame, RunningAll
  <2>2. CASE UNCHANGED lists
    BY <2>1, <2>2, LargeUnchanged DEF lists, frame
  <2>3. ASSUME NEW m \in Large \ malloced, malloced' = malloced \cup {m}, AddCleanup(m),
               Callable("large")
        PROVE  LargeInv'
    <3>1. ~ RunningAll
      BY <2>3 DEF NoLargeInHandlers, Callable, RunningAll
    <3> QED
      BY <1>0, <2>1, <2>3, <3>1, LargeAdd
  <2> QED
    BY <1>2, <2>2, <2>3 DEF spr_palloc, PallocSmall, PallocLarge
<1>3. ASSUME NEW d \in Data, spr_pool_cleanup_add1(d)
      PROVE  LargeInv'
  <2>1. d \notin Large
    BY PoolAssumption DEF PoolAssumption
  <2> QED
    BY <1>0, <1>3, <2>1, LargeAdd DEF spr_pool_cleanup_add1, Callable
<1>4. ASSUME NEW d \in Data \cup Large,
             spr_pool_cleanup_run1(d) \/ spr_pool_cleanup_remove1(d)
      PROVE  LargeInv'
  BY <1>0, <1>4, LargeRemove
<1>5. CASE \/ spr_pool_clear \/ spr_pool_destroy \/ RunNext \/ ReturnToRunAll
           \/ FinishClear \/ StartFree
  BY <1>5, LargeLoops
<1>6. CASE ReturnToRun1
  BY <1>0, <1>6, LargeReturn1
<1>7. CASE FreeSlot \/ FinishDestroy
  <2>1. /\ pc = "free" /\ pc' \in {"free", "gone"} /\ fault = "none"
        /\ UNCHANGED <<malloced, cleanups, rest>>
    BY <1>7 DEF FreeSlot, FinishDestroy, lists
  <2> QED
    BY <2>1, LargeUnchanged DEF RunningAll
<1>8. CASE UNCHANGED vars
  BY <1>8, LargeUnchanged DEF vars, lists, frame, RunningAll
<1> QED
  BY <1>1, <1>2, <1>3, <1>4, <1>5, <1>6, <1>7, <1>8 DEF Next, Calls, Internal

(***************************************************************************)
(* Every oversized block that spr_palloc has got from spr_malloc has       *)
(* exactly one entry in the cleanup list, and no entry is left for one     *)
(* that was freed, through spr_pool_cleanup_run1, remove1, clear and       *)
(* destroy, unless a handler asks for an oversized block: what a handler   *)
(* run by spr_pool_clear registers is lost.                                *)
(***************************************************************************)
THEOREM LargeBlocksOwned == NoLargeInHandlers => (Spec => []LargeOwnership)
<1> SUFFICES ASSUME NoLargeInHandlers PROVE Spec => []LargeOwnership
  OBVIOUS
<1>1. Init => LargeInv
  <2> SUFFICES ASSUME Init PROVE LargeInv
    OBVIOUS
  <2>1. malloced = {} /\ DOMAIN Owners = {}
    BY DEF Init, Owners, RunningAll
  <2> QED
    BY <2>1 DEF LargeInv, Owned
<1>2. TypeInv /\ NodesInv /\ LargeInv /\ [Next]_vars => TypeInv' /\ NodesInv' /\ LargeInv'
  BY TypeNext, NodesNext, LargeNext
<1>3. LargeInv => LargeOwnership
  BY DEF LargeInv, LargeOwnership, Owned, Owners, RunningAll
<1> QED
  BY <1>1, <1>2, <1>3, TypeInit, NodesInit, PTL DEF Spec

-----------------------------------------------------------------------------
(* Without spr_pool_clear no memory is handed out twice, cleanup nodes     *)
(* included.                                                               *)

NoClear == "clear" \notin ClientOps

(* What spr_palloc returns is apart from all it has returned before.       *)
LEMMA NewBlockApart ==
  ASSUME TypeOK, BlocksInNodes, NEW n \in Nodes, NEW a \in Nat, NEW index \in Nat,
         NEW c \in blocks
  PROVE  ~ Overlaps(BlockOf(n, a, index), c)
<1>1. c \in Block /\ c.node \in DOMAIN heap /\ c.off + c.len <= heap[c.node].first_avail
  BY DEF TypeOK, BlocksInNodes
<1>2. heap[c.node].first_avail \in Nat
  BY <1>1 DEF TypeOK, MemNode
<1>3. CASE c.node = n
  <2>1. BlockOf(n, a, index).off = heap[n].first_avail
    BY <1>1, <1>3 DEF BlockOf, Source
  <2> QED
    BY <1>1, <1>2, <1>3, <2>1 DEF Overlaps, Block
<1>4. CASE c.node # n
  BY <1>4 DEF Overlaps, BlockOf
<1> QED
  BY <1>3, <1>4

LEMMA TakesFresh ==
  ASSUME TypeOK, BlocksInNodes, NEW n \in Nodes, NEW a \in Nat, NEW index \in Nat,
         TakeBytes(n, a, index), CleanupNodes \subseteq blocks
  PROVE  /\ fault' = fault /\ blocks \subseteq blocks'
         /\ BlockOf(n, a, index) \in blocks'
<1>1. \A c \in CleanupNodes : ~ Overlaps(BlockOf(n, a, index), c)
  BY NewBlockApart
<1> QED
  BY <1>1 DEF TakeBytes

(* The addresses of the nodes after a step.                                *)
LEMMA NodesAmong ==
  ASSUME NEW B,
         \A j \in DOMAIN cleanups' : cleanups'[j].at \in B,
         \A j \in DOMAIN free_cleanups' : free_cleanups'[j] \in B,
         \A j \in DOMAIN rest' : rest'[j].at \in B,
         cur' = NULL \/ cur'.at \in B
  PROVE  CleanupNodes' \subseteq B
BY DEF CleanupNodes

LEMMA NodesAre ==
  /\ \A j \in DOMAIN cleanups : cleanups[j].at \in CleanupNodes
  /\ \A j \in DOMAIN free_cleanups : free_cleanups[j] \in CleanupNodes
  /\ \A j \in DOMAIN rest : rest[j].at \in CleanupNodes
  /\ cur = NULL \/ cur.at \in CleanupNodes
BY DEF CleanupNodes

LEMMA BlocksAdd ==
  ASSUME TypeOK, BlocksInNodes, CleanupNodes \subseteq blocks, NEW d \in Data \cup Large,
         AddCleanup(d), UNCHANGED frame
  PROVE  CleanupNodes' \subseteq blocks' /\ fault' \in {fault, "null"}
<1> DEFINE a     == spr_align_allocation(SizeofCleanup)
           index == SlotIndex(a)
<1>1. a \in Nat /\ index \in Nat
  BY SizeTypes, AlignNat, NPagesPositive DEF SlotIndex
<1>2. cleanups \in Seq(Cleanup) /\ free_cleanups \in Seq(Block) /\ UNCHANGED <<rest, cur>>
  BY DEF TypeOK, frame
<1>3. ASSUME NEW b \in Block, b \in blocks', blocks \subseteq blocks',
             cleanups' = <<[at |-> b, data |-> d]>> \o cleanups,
             \A j \in DOMAIN free_cleanups' : free_cleanups'[j] \in CleanupNodes
      PROVE  CleanupNodes' \subseteq blocks'
  <2> DEFINE c == [at |-> b, data |-> d]
  <2>1. c \in Cleanup /\ c.at = b /\ cleanups' = <<c>> \o cleanups
    BY <1>3 DEF Cleanup
  <2> HIDE DEF c
  <2>2. /\ DOMAIN cleanups' = 1..(Len(cleanups) + 1) /\ cleanups'[1] = c /\ Len(cleanups) \in Nat
        /\ \A j \in 2..(Len(cleanups) + 1) :
             cleanups'[j] = cleanups[j - 1] /\ j - 1 \in DOMAIN cleanups
    BY <1>2, <2>1, ConsElements
  <2>3. \A j \in DOMAIN cleanups' : j = 1 \/ j \in 2..(Len(cleanups) + 1)
    BY <2>2
  <2>4. \A j \in DOMAIN cleanups' : cleanups'[j].at \in blocks'
    BY <1>3, <2>1, <2>2, <2>3, NodesAre
  <2> QED
    BY <1>2, <1>3, <2>4, NodesAre, NodesAmong
<1>4. CASE /\ free_cleanups # <<>>
           /\ cleanups' = <<[at |-> Head(free_cleanups), data |-> d]>> \o cleanups
           /\ free_cleanups' = Tail(free_cleanups)
           /\ UNCHANGED <<memory, fault>>
  <2>1. /\ Head(free_cleanups) = free_cleanups[1] /\ 1 \in DOMAIN free_cleanups
        /\ Head(free_cleanups) \in Block
        /\ Len(free_cleanups) \in Nat \ {0} /\ DOMAIN free_cleanups = 1..Len(free_cleanups)
        /\ DOMAIN free_cleanups' = 1..(Len(free_cleanups) - 1)
        /\ \A j \in 1..(Len(free_cleanups) - 1) : free_cleanups'[j] = free_cleanups[j + 1]
    BY <1>2, <1>4, TailElements
  <2>2. \A j \in DOMAIN free_cleanups' : j + 1 \in DOMAIN free_cleanups
    BY <2>1
  <2>3. blocks' = blocks
    BY <1>4 DEF memory
  <2> QED
    BY <1>3, <1>4, <2>1, <2>2, <2>3, NodesAre
<1> HIDE DEF a, index
<1>5. ASSUME NEW n \in Nodes, TakeBytes(n, a, index), UNCHANGED free_cleanups,
             cleanups' = <<[at |-> BlockOf(n, a, index), data |-> d]>> \o cleanups
      PROVE  CleanupNodes' \subseteq blocks' /\ fault' = fault
  BY <1>1, <1>3, <1>5, TakesFresh, TakeBytesType, NodesAre
<1>6. CASE fault' = "null" /\ UNCHANGED <<memory, cleanups, free_cleanups>>
  <2>1. CleanupNodes' = CleanupNodes /\ blocks' = blocks
    BY <1>2, <1>6 DEF CleanupNodes, memory
  <2> QED
    BY <1>6, <2>1
<1> QED
  BY <1>4, <1>5, <1>6 DEF AddCleanup, a, index

(* Moving nodes between the lists makes no node of what was none.          *)
LEMMA NodesMoved ==
  ASSUME TypeInv, NodesInv,
         \/ \E d \in Data \cup Large : spr_pool_cleanup_run1(d) \/ spr_pool_cleanup_remove1(d)
         \/ ReturnToRun1 \/ RunNext \/ ReturnToRunAll
         \/ \E call \in {"clear", "destroy"} : StartRunAll(call)
  PROVE  CleanupNodes' \subseteq CleanupNodes
<1>1. /\ cleanups \in Seq(Cleanup) /\ free_cleanups \in Seq(Block) /\ rest \in Seq(Cleanup)
      /\ CurInv
  BY DEF TypeInv, TypeOK, NodesInv
<1>2. ASSUME NEW b \in Block, b \in CleanupNodes, free_cleanups' = <<b>> \o free_cleanups
      PROVE  \A j \in DOMAIN free_cleanups' : free_cleanups'[j] \in CleanupNodes
  <2>1. /\ DOMAIN free_cleanups' = 1..(Len(free_cleanups) + 1) /\ free_cleanups'[1] = b
        /\ Len(free_cleanups) \in Nat
        /\ \A j \in 2..(Len(free_cleanups) + 1) :
             free_cleanups'[j] = free_cleanups[j - 1] /\ j - 1 \in DOMAIN free_cleanups
    BY <1>1, <1>2, ConsElements
  <2>2. \A j \in DOMAIN free_cleanups' : j = 1 \/ j \in 2..(Len(free_cleanups) + 1)
    BY <2>1
  <2> QED
    BY <1>2, <2>1, <2>2, NodesAre
<1>3. ASSUME NEW k \in DOMAIN cleanups, Unlink(k)
      PROVE  /\ \A j \in DOMAIN cleanups' : cleanups'[j].at \in CleanupNodes
             /\ \A j \in DOMAIN free_cleanups' : free_cleanups'[j] \in CleanupNodes
  <2>1. cleanups' = Without(cleanups, k) /\ free_cleanups' = <<cleanups[k].at>> \o free_cleanups
    BY <1>3 DEF Unlink, Without
  <2>2. cleanups[k].at \in Block
    <3>1. cleanups[k] \in Cleanup
      BY <1>1, <1>3
    <3> QED
      BY <3>1 DEF Cleanup
  <2>3. /\ DOMAIN cleanups' = 1..(Len(cleanups) - 1) /\ DOMAIN cleanups = 1..Len(cleanups)
        /\ \A j \in 1..(Len(cleanups) - 1) :
             cleanups'[j] = cleanups[Skip(j, k)] /\ Skip(j, k) \in 1..Len(cleanups)
    BY <1>1, <2>1, WithoutElements
  <2> QED
    BY <1>2, <2>1, <2>2, <2>3, NodesAre
<1>4. ASSUME NEW d \in Data \cup Large, spr_pool_cleanup_run1(d) \/ spr_pool_cleanup_remove1(d)
      PROVE  CleanupNodes' \subseteq CleanupNodes
  <2>1. rest' = rest
    BY <1>4 DEF spr_pool_cleanup_run1, spr_pool_cleanup_remove1, frame
  <2>2. CASE UNCHANGED <<lists, frame>>
    BY <2>2 DEF CleanupNodes, lists, frame
  <2>3. ASSUME NEW k \in DOMAIN cleanups, UNCHANGED lists, cur' = cleanups[k]
        PROVE  CleanupNodes' \subseteq CleanupNodes
    BY <2>1, <2>3, NodesAre, NodesAmong DEF lists
  <2>4. ASSUME NEW k \in DOMAIN cleanups, Unlink(k), UNCHANGED frame
        PROVE  CleanupNodes' \subseteq CleanupNodes
    BY <1>3, <2>1, <2>4, NodesAre, NodesAmong DEF frame
  <2> QED
    BY <1>4, <2>2, <2>3, <2>4 DEF spr_pool_cleanup_run1, spr_pool_cleanup_remove1
<1>5. CASE ReturnToRun1
  <2>1. rest' = rest /\ cur' = NULL
    BY <1>5 DEF ReturnToRun1
  <2>2. CASE \E k \in DOMAIN cleanups : Unlink(k)
    BY <1>3, <2>1, <2>2, NodesAre, NodesAmong
  <2>3. CASE UNCHANGED <<cleanups, free_cleanups>>
    BY <2>1, <2>3, NodesAre, NodesAmong
  <2> QED
    BY <1>5, <2>2, <2>3 DEF ReturnToRun1
<1>6. CASE RunNext
  <2>1. /\ rest' = Tail(rest) /\ cleanups' = cleanups /\ 1 \in DOMAIN rest
        /\ Head(rest) = rest[1] /\ rest[1].at \in Block
        /\ \A j \in DOMAIN rest' : rest'[j] = rest[j + 1] /\ j + 1 \in DOMAIN rest
    <3>1. rest # <<>> /\ rest' = Tail(rest) /\ cleanups' = cleanups
      BY <1>6 DEF RunNext
    <3>2. /\ Head(rest) = rest[1] /\ Head(rest) \in Cleanup
          /\ Len(rest) \in Nat \ {0} /\ DOMAIN rest = 1..Len(rest)
          /\ DOMAIN Tail(rest) = 1..(Len(rest) - 1)
          /\ \A j \in 1..(Len(rest) - 1) : Tail(rest)[j] = rest[j + 1]
      BY <1>1, <3>1, TailElements
    <3>3. \A j \in 1..(Len(rest) - 1) : j + 1 \in 1..Len(rest)
      BY <3>2
    <3>4. 1 \in 1..Len(rest)
      BY <3>2
    <3> QED
      BY <3>1, <3>2, <3>3, <3>4 DEF Cleanup
  <2>2. \A j \in DOMAIN rest' : rest'[j].at \in CleanupNodes
    BY <2>1, NodesAre
  <2>3. CASE free_cleanups' = <<rest[1].at>> \o free_cleanups /\ UNCHANGED cur
    BY <1>2, <2>1, <2>2, <2>3, NodesAre, NodesAmong
  <2>4. CASE free_cleanups' = free_cleanups /\ cur' = rest[1]
    BY <2>1, <2>2, <2>4, NodesAre, NodesAmong
  <2> QED
    BY <1>6, <2>1, <2>3, <2>4 DEF RunNext
<1>7. CASE ReturnToRunAll
  <2>1. /\ cur \in Cleanup /\ cur # NULL /\ cur' = NULL /\ UNCHANGED <<cleanups, rest>>
        /\ free_cleanups' = <<cur.at>> \o free_cleanups
    BY <1>1, <1>7, NullAssumption DEF ReturnToRunAll, CurInv
  <2>2. cur.at \in Block /\ cur.at \in CleanupNodes
    BY <2>1, NodesAre DEF Cleanup
  <2> QED
    BY <1>2, <2>1, <2>2, NodesAre, NodesAmong
<1>8. CASE \E call \in {"clear", "destroy"} : StartRunAll(call)
  BY <1>8, NodesAre, NodesAmong DEF StartRunAll, lists
<1> QED
  BY <1>4, <1>5, <1>6, <1>7, <1>8

LEMMA NodesInBlocksNext ==
  ASSUME NoClear, IInv, NodesInv, NodesInBlocks, [Next]_vars
  PROVE  NodesInBlocks'
<1>0. TypeInv /\ TypeOK /\ BlocksInNodes /\ fault # "overlap" /\ op # "clear"
  BY DEF IInv, TypeInv, HeapInv, NodesInBlocks
<1>1. ASSUME NEW size \in Sizes, NEW root \in BOOLEAN, spr_pool_create1(size, root)
      PROVE  NodesInBlocks'
  <2>1. pc = "none" /\ fault' = fault /\ op' = op /\ CleanupNodes' = CleanupNodes
    BY <1>1 DEF spr_pool_create1, lists, frame, CleanupNodes
  <2> QED
    BY <1>0, <2>1 DEF NodesInBlocks
<1>2. ASSUME pc \in {"idle", "handler"}, UNCHANGED frame,
             CleanupNodes' \subseteq blocks', fault' # "overlap"
      PROVE  NodesInBlocks'
  BY <1>0, <1>2 DEF NodesInBlocks, frame
<1>3. ASSUME NEW size \in Sizes, spr_palloc(size)
      PROVE  NodesInBlocks'
  <2>1. pc \in {"idle", "handler"} /\ fault = "none" /\ UNCHANGED frame
    BY <1>3 DEF spr_palloc, PallocSmall, PallocLarge, Callable
  <2>2. CleanupNodes \subseteq blocks
    BY <2>1 DEF NodesInBlocks
  <2>3. CASE UNCHANGED lists
    <3>1. CleanupNodes' = CleanupNodes
      BY <2>1, <2>3 DEF CleanupNodes, lists, frame
    <3>2. CASE UNCHANGED <<memory, fault>>
      BY <1>2, <2>1, <2>2, <3>1, <3>2 DEF memory
    <3>3. ASSUME NEW a \in Nat, NEW index \in Nat, NEW n \in Nodes, TakeBytes(n, a, index)
          PROVE  NodesInBlocks'
      BY <1>0, <1>2, <2>1, <2>2, <3>1, <3>3, TakesFresh
    <3>4. /\ spr_align_allocation(size) \in Nat
          /\ SlotIndex(spr_align_allocation(size)) \in Nat
      BY SizeInNat, AlignNat, NPagesPositive DEF SlotIndex
    <3>5. CASE \E n \in Nodes : TakeBytes(n, spr_align_allocation(size),
                                          SlotIndex(spr_align_allocation(size)))
      BY <3>3, <3>4, <3>5
    <3>6. CASE PallocLarge
      <4>1. CASE \E m \in Large : AddCleanup(m)
        BY <1>0, <1>2, <2>1, <2>2, <4>1, BlocksAdd
      <4> QED
        BY <3>2, <3>6, <4>1 DEF PallocLarge
    <3> QED
      BY <1>3, <3>2, <3>5, <3>6 DEF spr_palloc, PallocSmall
  <2>4. CASE \E m \in Large : AddCleanup(m)
    BY <1>0, <1>2, <2>1, <2>2, <2>4, BlocksAdd
  <2> QED
    BY <1>3, <2>3, <2>4 DEF spr_palloc, PallocSmall, PallocLarge
<1>4. ASSUME NEW d \in Data, spr_pool_cleanup_add1(d)
      PROVE  NodesInBlocks'
  <2>1. pc \in {"idle", "handler"} /\ fault = "none" /\ UNCHANGED frame /\ AddCleanup(d)
    BY <1>4 DEF spr_pool_cleanup_add1, Callable
  <2>2. CleanupNodes \subseteq blocks
    BY <2>1 DEF NodesInBlocks
  <2> QED
    BY <1>0, <1>2, <2>1, <2>2, BlocksAdd
<1>5. ASSUME pc \in {"idle", "walk", "handler"}, pc' \in {"idle", "walk", "handler"},
             CleanupNodes' \subseteq CleanupNodes, blocks' = blocks, fault' # "overlap",
             op' # "clear"
      PROVE  NodesInBlocks'
  <2>1. CleanupNodes \subseteq blocks
    BY <1>5 DEF NodesInBlocks
  <2> QED
    BY <1>5, <2>1 DEF NodesInBlocks
<1>6. ASSUME NEW d \in Data \cup Large,
             spr_pool_cleanup_run1(d) \/ spr_pool_cleanup_remove1(d)
      PROVE  NodesInBlocks'
  <2>1. /\ pc \in {"idle", "handler"} /\ pc' \in {"idle", "handler"} /\ fault' = fault
        /\ op' \in {op, "run"} /\ blocks' = blocks
    BY <1>6 DEF spr_pool_cleanup_run1, spr_pool_cleanup_remove1, Callable, memory, frame
  <2>2. CleanupNodes' \subseteq CleanupNodes
    BY <1>0, <1>6, NodesMoved
  <2> QED
    BY <1>0, <1>5, <2>1, <2>2
<1>7. CASE spr_pool_clear \/ spr_pool_destroy
  <2>1. ~ Callable("clear")
    BY PoolAssumption DEF NoClear, PoolAssumption, Callable
  <2>2. StartRunAll("destroy")
    BY <1>7, <2>1 DEF spr_pool_clear, spr_pool_destroy, StartRunAll
  <2>3. /\ pc \in {"idle", "handler"} /\ pc' = "walk" /\ fault' = fault
        /\ op' = "destroy" /\ blocks' = blocks
    BY <2>2 DEF StartRunAll, Callable, memory
  <2>4. CleanupNodes' \subseteq CleanupNodes
    BY <1>0, <2>2, NodesMoved
  <2> QED
    BY <1>0, <1>5, <2>3, <2>4
<1>8. CASE RunNext \/ ReturnToRunAll \/ ReturnToRun1
  <2>1. /\ pc \in {"walk", "handler"} /\ pc' \in {"idle", "walk", "handler"}
        /\ fault' \in {fault, "wild"} /\ op' \in {op, "none"} /\ blocks' = blocks
    BY <1>8 DEF RunNext, ReturnToRunAll, ReturnToRun1, memory
  <2>2. CleanupNodes' \subseteq CleanupNodes
    BY <1>0, <1>8, NodesMoved
  <2> QED
    BY <1>0, <1>5, <2>1, <2>2
<1>9. CASE FinishClear
  BY <1>0, <1>9 DEF FinishClear
<1>10. CASE StartFree \/ FreeSlot \/ FinishDestroy
  <2>1. pc' \in {"free", "gone"} /\ fault' \in {fault, "header"} /\ op' = op
    BY <1>10 DEF StartFree, FreeSlot, FinishDestroy
  <2> QED
    BY <1>0, <2>1 DEF NodesInBlocks
<1>11. CASE UNCHANGED vars
  <2>1. UNCHANGED <<cleanups, free_cleanups, rest, cur, blocks, pc, op, fault>>
    BY <1>11 DEF vars, memory, lists, frame
  <2>2. CleanupNodes' = CleanupNodes
    BY <2>1 DEF CleanupNodes
  <2> QED
    BY <2>1, <2>2 DEF NodesInBlocks
<1> QED
  BY <1>1, <1>3, <1>4, <1>6, <1>7, <1>8, <1>9, <1>10, <1>11 DEF Next, Calls, Internal

(***************************************************************************)
(* No two entries of the cleanup list and of the reserve of cleanup nodes  *)
(* share memory, whatever the client and its handlers do.                  *)
(***************************************************************************)
THEOREM NodesDistinct == Spec => []CleanupNodesDistinct
<1>1. NodesInv /\ TypeInv => CleanupNodesDistinct
  <2> SUFFICES ASSUME NodesInv, TypeInv, pc = "idle", fault = "none"
               PROVE  LET all == Ats(cleanups) \o free_cleanups
                      IN  \A k, k2 \in DOMAIN all : Overlaps(all[k], all[k2]) => k = k2
    BY DEF CleanupNodesDistinct, Ats
  <2> DEFINE a   == Ats(cleanups)
             f   == free_cleanups
             all == a \o f
  <2>1. Separate(a, f) /\ a \in Seq(Block) /\ f \in Seq(Block)
    BY UsedType DEF NodesInv, Used, RunningAll, TypeInv
  <2> HIDE DEF a, f
  <2>2. /\ DOMAIN all = 1..(Len(a) + Len(f)) /\ Len(a) \in Nat /\ Len(f) \in Nat
        /\ DOMAIN a = 1..Len(a) /\ DOMAIN f = 1..Len(f)
        /\ \A k \in DOMAIN all : all[k] = IF k <= Len(a) THEN a[k] ELSE f[k - Len(a)]
    BY <2>1
  <2>3. ASSUME NEW k \in DOMAIN all
        PROVE  \/ k \in DOMAIN a /\ all[k] = a[k]
               \/ k > Len(a) /\ k - Len(a) \in DOMAIN f /\ all[k] = f[k - Len(a)]
    BY <2>2
  <2> SUFFICES ASSUME NEW k \in DOMAIN all, NEW k2 \in DOMAIN all, Overlaps(all[k], all[k2])
               PROVE  k = k2
    BY DEF a, f
  <2>4. k \in Nat /\ k2 \in Nat /\ all[k] \in Block /\ all[k2] \in Block
    BY <2>1, <2>2, <2>3
  <2>5. Overlaps(all[k2], all[k])
    BY <2>4, OverlapsBack
  <2> HIDE DEF all
  <2> QED
    BY <2>1, <2>2, <2>3, <2>4, <2>5 DEF Separate
<1>2. TypeInv /\ NodesInv /\ [Next]_vars => TypeInv' /\ NodesInv'
  BY TypeNext, NodesNext
<1> QED
  BY <1>1, <1>2, TypeInit, NodesInit, PTL DEF Spec

(***************************************************************************)
(* A pool that is never cleared keeps its cleanup nodes to itself: no      *)
(* block that spr_palloc returns covers one, and no two share memory.      *)
(* spr_pool_clear hands the memory of the nodes out again; the runs show   *)
(* what comes of it.                                                       *)
(***************************************************************************)
THEOREM CleanupNodesSafe == SizesFit /\ NoClear => (Spec => []CleanupNodesOwned)
<1> SUFFICES ASSUME SizesFit, NoClear PROVE Spec => []CleanupNodesOwned
  OBVIOUS
<1> DEFINE I == IInv /\ EmptyAtFirst /\ NodesInv /\ NodesInBlocks
<1>1. Init => I
  <2> SUFFICES ASSUME Init PROVE I
    OBVIOUS
  <2>1. TypeInv /\ NodesInv
    BY TypeInit, NodesInit
  <2>2. HeapInv /\ EmptyAtFirst
    BY DEF Init, HeapInv, PagesBounded, NodeAccounting, BlocksInNodes, BlocksDisjoint, EmptyAtFirst
  <2>3. CleanupNodes = {}
    BY DEF Init, CleanupNodes
  <2>4. NodesInBlocks
    BY <2>3 DEF Init, NodesInBlocks
  <2> QED
    BY <2>1, <2>2, <2>4 DEF IInv
<1>2. I /\ [Next]_vars => I'
  <2> SUFFICES ASSUME I, [Next]_vars PROVE I'
    OBVIOUS
  <2>1. TypeInv' /\ NodesInv'
    BY TypeNext, NodesNext DEF IInv
  <2>2. HeapInv' /\ EmptyAtFirst'
    BY HeapNext, EmptyAtFirstNext
  <2>3. NodesInBlocks'
    BY NodesInBlocksNext
  <2> QED
    BY <2>1, <2>2, <2>3 DEF IInv
<1>3. I => NoOverlap
  BY DEF NodesInBlocks, NoOverlap
<1>4. Spec => []NoOverlap
  <2> HIDE DEF I
  <2> QED
    BY <1>1, <1>2, <1>3, PTL DEF Spec
<1> QED
  BY <1>4, NodesDistinct, PTL DEF CleanupNodesOwned

-----------------------------------------------------------------------------
(* The pool implements CleanupStack.                                       *)

(* The stack of CleanupStack and its running handler, as CS has them.      *)
Stack   == Datas(Registrations)
Running == IF pc = "handler" THEN cur.data ELSE NULL

(* Handlers do not register handlers.                                      *)
HandlersOnlyAlloc == HandlerOps \subseteq {"palloc"}

(* CS is written in terms of Stack, Running and RunningAll.                *)
LEMMA StackOf ==
  /\ [k \in DOMAIN Registrations |-> Registrations[k].data] = Stack
  /\ [k \in DOMAIN Registrations |-> Registrations[k].data]' = Stack'
  /\ (IF pc = "handler" THEN cur.data ELSE NULL) = Running
  /\ (IF pc = "handler" THEN cur.data ELSE NULL)' = Running'
BY DEF Stack, Running, Datas

LEMMA SameStack ==
  ASSUME UNCHANGED <<cleanups, rest, cur, pc, op>>
  PROVE  UNCHANGED <<Stack, Running, RunningAll>>
<1>1. Entry' = Entry
  BY DEF Entry
<1>2. RunningAll' = RunningAll /\ Running' = Running
  BY DEF RunningAll, Running
<1>3. Registrations' = Registrations
  BY <1>1, <1>2 DEF Registrations
<1> QED
  BY <1>2, <1>3 DEF Stack

(* Two entries of the list do not have the same address.                   *)
LEMMA EntryUnique ==
  ASSUME TypeOK, NodesInv, fault = "none", ~ RunningAll,
         NEW k \in DOMAIN cleanups, NEW k2 \in DOMAIN cleanups, cleanups[k].at = cleanups[k2].at
  PROVE  k = k2
<1>1. Separate(Ats(cleanups), free_cleanups) /\ cleanups[k].at \in Block
  <2>1. cleanups[k] \in Cleanup
    BY DEF TypeOK
  <2> QED
    BY <2>1 DEF NodesInv, Used, Cleanup
<1>2. /\ DOMAIN Ats(cleanups) = DOMAIN cleanups
      /\ Ats(cleanups)[k] = cleanups[k].at /\ Ats(cleanups)[k2] = cleanups[k].at
  BY DEF Ats
<1>3. cleanups[k].at.len > 0
  BY <1>1, <1>2 DEF Separate
<1>4. Overlaps(cleanups[k].at, cleanups[k].at)
  BY <1>1, <1>3, OverlapsBack
<1> QED
  BY <1>1, <1>2, <1>4 DEF Separate

(* The handler of spr_pool_cleanup_run1 leaves its entry where it is.      *)
LEMMA EntryNext ==
  ASSUME HandlersOnlyAlloc, TypeInv, NodesInv, EntryInv, [Next]_vars
  PROVE  EntryInv'
<1>1. CASE UNCHANGED <<cleanups, frame>>
  BY <1>1 DEF EntryInv, frame
<1>2. CASE pc' # "handler" \/ op' \in {"clear", "destroy"}
  BY <1>2 DEF EntryInv
<1>3. ASSUME NEW size \in Sizes, NEW root \in BOOLEAN, spr_pool_create1(size, root)
      PROVE  EntryInv'
  BY <1>1, <1>2, <1>3 DEF spr_pool_create1, frame, lists
<1>4. ASSUME NEW size \in Sizes, spr_palloc(size)
      PROVE  EntryInv'
  BY <1>1, <1>2, <1>4 DEF spr_palloc, PallocSmall, PallocLarge, Callable, HandlersOnlyAlloc,
                          lists, frame
<1>5. ASSUME NEW d \in Data, spr_pool_cleanup_add1(d)
      PROVE  EntryInv'
  BY <1>2, <1>5 DEF spr_pool_cleanup_add1, Callable, HandlersOnlyAlloc, frame
<1>6. ASSUME NEW d \in Data \cup Large,
             spr_pool_cleanup_run1(d) \/ spr_pool_cleanup_remove1(d)
      PROVE  EntryInv'
  <2>1. pc = "idle"
    BY <1>6 DEF spr_pool_cleanup_run1, spr_pool_cleanup_remove1, Callable, HandlersOnlyAlloc
  <2>2. CASE UNCHANGED frame
    BY <1>2, <2>1, <2>2 DEF frame
  <2>3. ASSUME NEW k \in DOMAIN cleanups, UNCHANGED lists, cur' = cleanups[k], i' = k
        PROVE  EntryInv'
    BY <2>3 DEF EntryInv, lists
  <2> QED
    BY <1>6, <2>2, <2>3 DEF spr_pool_cleanup_run1, spr_pool_cleanup_remove1
<1>7. CASE spr_pool_clear \/ spr_pool_destroy \/ ReturnToRunAll \/ ReturnToRun1 \/ FinishClear
           \/ StartFree \/ FreeSlot \/ FinishDestroy
  BY <1>2, <1>7 DEF spr_pool_clear, spr_pool_destroy, StartRunAll, ReturnToRunAll, ReturnToRun1,
                    FinishClear, StartFree, FreeSlot, FinishDestroy
<1>8. CASE RunNext
  BY <1>2, <1>8 DEF RunNext, NodesInv, CurInv
<1>9. CASE UNCHANGED vars
  BY <1>1, <1>9 DEF vars, lists
<1> QED
  BY <1>3, <1>4, <1>5, <1>6, <1>7, <1>8, <1>9 DEF Next, Calls, Internal

(* Registering an entry is Add, unless there is no memory for it.          *)
LEMMA AddMaps ==
  ASSUME TypeOK, pc = "idle", NEW d \in Data \cup Large, AddCleanup(d), UNCHANGED frame
  PROVE  CS!Add(d) \/ UNCHANGED <<Stack, Running, RunningAll>>
<1>1. UNCHANGED <<pc, op, rest, cur>> /\ cleanups \in Seq(Cleanup)
  BY DEF frame, TypeOK
<1>2. /\ Registrations = cleanups /\ Registrations' = cleanups'
      /\ Running = NULL /\ Running' = Running /\ ~ RunningAll /\ RunningAll' = RunningAll
  BY <1>1 DEF Registrations, Running, RunningAll
<1>3. ASSUME NEW b \in Block, cleanups' = <<[at |-> b, data |-> d]>> \o cleanups
      PROVE  CS!Add(d)
  <2> DEFINE c == [at |-> b, data |-> d]
  <2>1. c \in Cleanup /\ c.data = d /\ cleanups' = <<c>> \o cleanups
    BY <1>3 DEF Cleanup
  <2> HIDE DEF c
  <2>2. Stack' = <<d>> \o Stack
    BY <1>1, <1>2, <2>1, FieldsCons DEF Stack, Datas
  <2> QED
    BY <1>2, <2>2, StackOf DEF CS!Add
<1>4. CASE free_cleanups # <<>> /\ cleanups' = <<[at |-> Head(free_cleanups), data |-> d]>> \o cleanups
  <2>1. Head(free_cleanups) \in Block
    BY <1>4, TailElements DEF TypeOK
  <2> QED
    BY <1>3, <1>4, <2>1
<1> DEFINE a     == spr_align_allocation(SizeofCleanup)
           index == SlotIndex(a)
<1>5. a \in Nat /\ index \in Nat
  BY SizeTypes, AlignNat, NPagesPositive DEF SlotIndex
<1> HIDE DEF a, index
<1>6. CASE \E n \in Nodes :
             /\ TakeBytes(n, a, index)
             /\ cleanups' = <<[at |-> BlockOf(n, a, index), data |-> d]>> \o cleanups
  BY <1>3, <1>5, <1>6, TakeBytesType
<1>7. CASE UNCHANGED cleanups
  BY <1>1, <1>7, SameStack
<1> QED
  BY <1>4, <1>6, <1>7 DEF AddCleanup, a, index

(* Taking the entry that a walk finds out of the stack.                    *)
LEMMA TakesOut ==
  ASSUME TypeOK, pc = "idle", NEW d \in Data \cup Large, NEW k \in DOMAIN cleanups, Found(d, k)
  PROVE  Datas(Without(cleanups, k)) \in CS!TakenOut(d)
<1>1. Registrations = cleanups /\ cleanups \in Seq(Cleanup)
  BY DEF Registrations, RunningAll, TypeOK
<1>2. Datas(Without(cleanups, k)) = Without(Stack, k) /\ Stack = Datas(cleanups)
  BY <1>1, FieldsWithout DEF Stack
<1>3. /\ DOMAIN Stack = DOMAIN cleanups
      /\ \A j \in DOMAIN cleanups : Stack[j] = cleanups[j].data
  BY <1>2 DEF Datas
<1>4. k \in 1..Len(cleanups) /\ DOMAIN cleanups = 1..Len(cleanups) /\ Len(cleanups) \in Nat
  BY <1>1
<1>5. \A k2 \in 1..(k - 1) : k2 \in DOMAIN cleanups
  BY <1>4
<1>6. k \in DOMAIN Stack /\ Stack[k] = d /\ \A k2 \in 1..(k - 1) : Stack[k2] # d
  BY <1>3, <1>5 DEF Found
<1>7. Without(Stack, k) \in CS!TakenOut(d)
  BY <1>6, StackOf DEF CS!TakenOut, Without
<1> QED
  BY <1>2, <1>7

LEMMA RemoveMaps ==
  ASSUME HandlersOnlyAlloc, TypeOK, NodesInv, NEW d \in Data \cup Large,
         spr_pool_cleanup_run1(d) \/ spr_pool_cleanup_remove1(d)
  PROVE  CS!Run(d) \/ CS!Remove(d) \/ UNCHANGED <<Stack, Running, RunningAll>>
<1>1. pc = "idle" /\ fault = "none" /\ fault' = fault
  BY DEF spr_pool_cleanup_run1, spr_pool_cleanup_remove1, Callable, HandlersOnlyAlloc
<1>2. Registrations = cleanups /\ Running = NULL /\ ~ RunningAll /\ cleanups \in Seq(Cleanup)
  BY <1>1 DEF Registrations, Running, RunningAll, TypeOK
<1>3. CASE UNCHANGED <<lists, frame>>
  BY <1>3, SameStack DEF lists, frame
<1>4. ASSUME NEW k \in DOMAIN cleanups, Found(d, k), Unlink(k), UNCHANGED frame
      PROVE  CS!Remove(d) /\ (d \in Large => CS!Run(d))
  <2>1. UNCHANGED <<pc, op, rest, cur>> /\ cleanups' = Without(cleanups, k)
    BY <1>4 DEF frame, Unlink, Without
  <2>2. Registrations' = cleanups' /\ Running' = NULL /\ RunningAll' = RunningAll
    BY <1>1, <2>1 DEF Registrations, Running, RunningAll
  <2>3. Stack' \in CS!TakenOut(d)
    <3>1. Stack' = Datas(Without(cleanups, k))
      BY <2>1, <2>2 DEF Stack, Datas
    <3> QED
      BY <1>1, <1>4, <3>1, TakesOut
  <2> QED
    BY <1>2, <2>2, <2>3, StackOf DEF CS!Remove, CS!Run, CS!Start
<1>5. ASSUME NEW k \in DOMAIN cleanups, Found(d, k), d \notin Large, pc' = "handler", op' = "run",
             cur' = cleanups[k], UNCHANGED lists
      PROVE  CS!Run(d)
  <2>1. cleanups' = cleanups /\ ~ RunningAll' /\ cur'.data = d
    BY <1>5 DEF lists, RunningAll, Found
  <2>2. Entry' = CHOOSE j \in DOMAIN cleanups : cleanups[j].at = cleanups[k].at
    BY <1>5, <2>1 DEF Entry
  <2>3. Entry' = k
    BY <1>1, <1>2, <2>2, EntryUnique
  <2>4. Running' = d /\ RunningAll' = RunningAll
    BY <1>1, <1>5, <2>1 DEF Running, RunningAll
  <2>7. Registrations' = Without(cleanups, k)
    BY <1>5, <2>1, <2>3 DEF Registrations, Without
  <2>5. Stack' = Datas(Without(cleanups, k))
    BY <2>7 DEF Stack, Datas
  <2>6. Stack' \in CS!TakenOut(d)
    BY <1>1, <1>5, <2>5, TakesOut
  <2> QED
    BY <1>2, <1>5, <2>4, <2>6, StackOf DEF CS!Run, CS!Start
<1> QED
  BY <1>3, <1>4, <1>5 DEF spr_pool_cleanup_run1, spr_pool_cleanup_remove1

(* A handler that spr_pool_cleanup_run1 has called returns.                *)
LEMMA Return1Maps ==
  ASSUME TypeOK, NodesInv, EntryInv, ReturnToRun1
  PROVE  CS!Return
<1>1. /\ pc = "handler" /\ op = "run" /\ fault = "none" /\ pc' = "idle"
      /\ ~ RunningAll /\ RunningAll' = RunningAll /\ cleanups \in Seq(Cleanup)
  BY DEF ReturnToRun1, RunningAll, TypeOK
<1>2. PICK k \in DOMAIN cleanups :
        /\ cleanups[k].at = cur.at
        /\ \/ (k = 1 \/ i > 1) /\ Unlink(k)
           \/ k > 1 /\ i = 1
  BY DEF ReturnToRun1
<1>3. i \in DOMAIN cleanups /\ cleanups[i] = cur
  BY <1>1 DEF EntryInv
<1>4. i = k
  BY <1>1, <1>2, <1>3, EntryUnique
<1>5. cleanups' = Without(cleanups, k)
  <2>1. ~ (k > 1 /\ i = 1)
    BY <1>1, <1>4
  <2>2. Unlink(k)
    BY <1>2, <2>1
  <2> QED
    BY <2>2 DEF Unlink, Without
<1>6. Entry = k
  BY <1>1, <1>2, EntryUnique DEF Entry
<1>7. Registrations = Without(cleanups, k) /\ Registrations' = cleanups'
  BY <1>1, <1>6 DEF Registrations, Without
<1>8. Stack' = Stack
  BY <1>5, <1>7 DEF Stack
<1>9. Running = cur.data /\ cur.data \in Data \cup Large /\ Running' = NULL
  BY <1>1 DEF Running, NodesInv, CurInv, Cleanup
<1>10. Running # NULL
  BY <1>9, NullAssumption
<1> QED
  BY <1>1, <1>8, <1>9, <1>10, StackOf DEF CS!Return

(* spr_pool_clear and spr_pool_destroy.                                    *)
LEMMA LoopsMap ==
  ASSUME HandlersOnlyAlloc, TypeOK, NodesInv,
         \/ spr_pool_clear \/ spr_pool_destroy \/ RunNext \/ ReturnToRunAll
         \/ FinishClear \/ StartFree
  PROVE  CS!StartDrain \/ CS!RunTop \/ CS!Return \/ CS!EndDrain
<1>1. CurInv /\ rest \in Seq(Cleanup) /\ cleanups \in Seq(Cleanup)
  BY DEF NodesInv, TypeOK
<1>2. CASE spr_pool_clear \/ spr_pool_destroy
  <2>1. pc = "idle" /\ pc' = "walk" /\ op' \in {"clear", "destroy"} /\ rest' = cleanups
    BY <1>2 DEF spr_pool_clear, spr_pool_destroy, StartRunAll, Callable, HandlersOnlyAlloc
  <2>2. /\ ~ RunningAll /\ RunningAll' /\ Running = NULL /\ Running' = NULL
        /\ Registrations = cleanups /\ Registrations' = cleanups
    BY <2>1 DEF RunningAll, Running, Registrations
  <2>3. Stack' = Stack
    BY <2>2 DEF Stack
  <2>4. CS!StartDrain
    BY <2>2, <2>3, StackOf DEF CS!StartDrain
  <2> QED
    BY <2>4
<1>3. CASE RunNext
  <2>1. /\ pc = "walk" /\ rest # <<>> /\ rest' = Tail(rest) /\ op' = op /\ op \in {"clear", "destroy"}
        /\ pc' \in {"walk", "handler"}
    BY <1>1, <1>3 DEF RunNext, CurInv
  <2>2. /\ RunningAll /\ RunningAll' /\ Running = NULL
        /\ Registrations = rest /\ Registrations' = rest'
    BY <2>1 DEF RunningAll, Running, Registrations
  <2>3. 1 \in DOMAIN rest /\ Tail(rest) = Without(rest, 1) /\ Head(rest) = rest[1]
    BY <1>1, <2>1, TailIsWithout, TailElements
  <2>4. Stack = Datas(rest) /\ Stack' = Without(Datas(rest), 1)
    BY <1>1, <2>1, <2>2, <2>3, FieldsWithout DEF Stack
  <2>5. Stack # <<>> /\ Head(Stack) = rest[1].data /\ Stack' = Tail(Stack)
    <3> DEFINE s == Datas(rest)
               D == Data \cup Large
    <3>1. s \in Seq(D) /\ DOMAIN s = DOMAIN rest /\ s[1] = rest[1].data
      BY <1>1, <2>3, FieldLists DEF Datas
    <3> HIDE DEF s, D
    <3>2. s # <<>>
      BY <2>3, <3>1
    <3>3. Head(s) = s[1] /\ Tail(s) = Without(s, 1)
      BY <3>1, <3>2, TailElements, TailIsWithout
    <3> QED
      BY <2>4, <3>1, <3>2, <3>3 DEF s
  <2>6. Running' = IF rest[1].data \in Large THEN NULL ELSE rest[1].data
    BY <1>3, <2>1, <2>3 DEF RunNext, Running
  <2>7. CS!RunTop
    BY <2>2, <2>5, <2>6, StackOf DEF CS!RunTop, CS!Start
  <2> QED
    BY <2>7
<1>4. CASE ReturnToRunAll
  <2>1. /\ pc = "handler" /\ pc' = "walk" /\ op' = op /\ op \in {"clear", "destroy"}
        /\ rest' = rest /\ cur \in Cleanup
    BY <1>1, <1>4 DEF ReturnToRunAll, CurInv, TypeOK
  <2>2. /\ RunningAll /\ RunningAll' /\ Running = cur.data /\ Running' = NULL
        /\ Registrations = rest /\ Registrations' = rest
    BY <2>1 DEF RunningAll, Running, Registrations
  <2>3. Running # NULL
    BY <2>1, <2>2, NullAssumption DEF Cleanup
  <2>4. Stack' = Stack
    BY <2>2 DEF Stack
  <2>5. CS!Return
    BY <2>2, <2>3, <2>4, StackOf DEF CS!Return
  <2> QED
    BY <2>5
<1>5. CASE FinishClear \/ StartFree
  <2>1. /\ pc = "walk" /\ rest = <<>> /\ op \in {"clear", "destroy"} /\ cleanups' = <<>>
        /\ pc' \in {"idle", "free"}
    BY <1>5 DEF FinishClear, StartFree
  <2>2. /\ RunningAll /\ ~ RunningAll' /\ Running = NULL /\ Running' = NULL
        /\ Registrations = <<>> /\ Registrations' = <<>>
    BY <2>1 DEF RunningAll, Running, Registrations
  <2>3. Stack = <<>> /\ Stack' = Stack
    <3>1. Datas(rest) \in Seq(Data \cup Large) /\ Len(Datas(rest)) = Len(rest)
      BY <1>1, FieldLists
    <3>2. Datas(rest) = <<>>
      BY <2>1, <3>1
    <3> QED
      BY <2>1, <2>2, <3>2 DEF Stack
  <2>4. CS!EndDrain
    BY <2>2, <2>3, StackOf DEF CS!EndDrain
  <2> QED
    BY <2>4
<1> QED
  BY <1>2, <1>3, <1>4, <1>5

LEMMA StepMaps ==
  ASSUME HandlersOnlyAlloc, TypeInv, NodesInv, EntryInv, [Next]_vars
  PROVE  CS!Next \/ UNCHANGED <<Stack, Running, RunningAll>>
<1>0. TypeOK
  BY DEF TypeInv
<1>1. CASE UNCHANGED <<cleanups, rest, cur, pc, op>>
  BY <1>1, SameStack
<1>2. CASE /\ pc \notin {"walk", "handler"} /\ pc' \notin {"walk", "handler"}
           /\ cleanups' = cleanups
  <2>1. /\ ~ RunningAll /\ ~ RunningAll' /\ Running' = Running
        /\ Registrations = cleanups /\ Registrations' = cleanups
    BY <1>2 DEF RunningAll, Running, Registrations
  <2> QED
    BY <2>1 DEF Stack, RunningAll
<1>3. ASSUME NEW size \in Sizes, NEW root \in BOOLEAN, spr_pool_create1(size, root)
      PROVE  CS!Next \/ UNCHANGED <<Stack, Running, RunningAll>>
  BY <1>2, <1>3 DEF spr_pool_create1, lists, frame
<1>4. ASSUME NEW d \in Data \cup Large, CS!Add(d) \/ CS!Run(d) \/ CS!Remove(d)
      PROVE  CS!Next
  BY <1>4 DEF CS!Next
<1>5. ASSUME NEW size \in Sizes, spr_palloc(size)
      PROVE  CS!Next \/ UNCHANGED <<Stack, Running, RunningAll>>
  <2>1. UNCHANGED frame
    BY <1>5 DEF spr_palloc
  <2>2. CASE UNCHANGED lists
    BY <1>1, <2>1, <2>2 DEF lists, frame
  <2>3. ASSUME NEW m \in Large, AddCleanup(m), Callable("large")
        PROVE  CS!Next \/ UNCHANGED <<Stack, Running, RunningAll>>
    <3>1. pc = "idle"
      BY <2>3 DEF Callable, HandlersOnlyAlloc
    <3>2. m \in Data \cup Large
      OBVIOUS
    <3> QED
      BY <1>0, <1>4, <2>1, <2>3, <3>1, <3>2, AddMaps
  <2> QED
    BY <1>5, <2>2, <2>3 DEF spr_palloc, PallocSmall, PallocLarge
<1>6. ASSUME NEW d \in Data, spr_pool_cleanup_add1(d)
      PROVE  CS!Next \/ UNCHANGED <<Stack, Running, RunningAll>>
  <2>1. pc = "idle" /\ AddCleanup(d) /\ UNCHANGED frame /\ d \in Data \cup Large
    BY <1>6 DEF spr_pool_cleanup_add1, Callable, HandlersOnlyAlloc
  <2> QED
    BY <1>0, <1>4, <2>1, AddMaps
<1>7. ASSUME NEW d \in Data \cup Large,
             spr_pool_cleanup_run1(d) \/ spr_pool_cleanup_remove1(d)
      PROVE  CS!Next \/ UNCHANGED <<Stack, Running, RunningAll>>
  BY <1>0, <1>4, <1>7, RemoveMaps
<1>8. CASE \/ spr_pool_clear \/ spr_pool_destroy \/ RunNext \/ ReturnToRunAll
           \/ FinishClear \/ StartFree
  BY <1>0, <1>8, LoopsMap DEF CS!Next
<1>9. CASE ReturnToRun1
  BY <1>0, <1>9, Return1Maps DEF CS!Next
<1>10. CASE FreeSlot \/ FinishDestroy
  BY <1>2, <1>10 DEF FreeSlot, FinishDestroy, lists
<1>11. CASE UNCHANGED vars
  BY <1>1, <1>11 DEF vars, lists, frame
<1> QED
  BY <1>3, <1>5, <1>6, <1>7, <1>8, <1>9, <1>10, <1>11 DEF Next, Calls, Internal

(***************************************************************************)
(* The cleanup list does what include/spr_pool.h promises, as CleanupStack *)
(* states it: a registered handler runs exactly once unless it is taken    *)
(* out before, and spr_pool_clear and spr_pool_destroy run what is left,   *)
(* the last registered first.  Handlers may allocate but not register.     *)
(***************************************************************************)
THEOREM ImplementsCleanupStack == HandlersOnlyAlloc => (Spec => CleanupRegistry)
<1> SUFFICES ASSUME HandlersOnlyAlloc PROVE Spec => CleanupRegistry
  OBVIOUS
<1>1. Init => CS!Init
  <2> SUFFICES ASSUME Init PROVE CS!Init
    OBVIOUS
  <2>1. Registrations = <<>> /\ Running = NULL /\ ~ RunningAll /\ rest = <<>>
    BY DEF Init, Registrations, Running, RunningAll
  <2>2. <<>> \in Seq(Cleanup)
    OBVIOUS
  <2>3. Datas(<<>>) \in Seq(Data \cup Large) /\ Len(Datas(<<>>)) = Len(<<>>)
    BY <2>2, FieldLists
  <2>4. Stack = <<>>
    BY <2>1, <2>3 DEF Stack
  <2> QED
    BY <2>1, <2>4, StackOf DEF CS!Init
<1>2. Init => EntryInv
  BY DEF Init, EntryInv
<1> DEFINE I == TypeInv /\ NodesInv /\ EntryInv
<1>3. I /\ [Next]_vars => I'
  BY TypeNext, NodesNext, EntryNext
<1>4. I /\ [Next]_vars => [CS!Next]_(CS!vars)
  <2> SUFFICES ASSUME I, [Next]_vars, ~ CS!Next PROVE UNCHANGED CS!vars
    OBVIOUS
  <2>1. UNCHANGED <<Stack, Running, RunningAll>>
    BY StepMaps
  <2> QED
    BY <2>1, StackOf DEF CS!vars
<1> QED
  <2> HIDE DEF I
  <2>1. Init => I
    BY <1>2, TypeInit, NodesInit DEF I
  <2> QED
    BY <1>1, <1>3, <1>4, <2>1, PTL DEF Spec, CleanupRegistry, CS!Spec

-----------------------------------------------------------------------------
(* Sums over finite sets, as the library's SumFunctionOnSet has them.      *)

(* The element that a sum over s takes first.                              *)
First(s) == CHOOSE x \in s : TRUE

(* w has the sum over s, and w is the function of all sums over subsets.   *)
Adds(w, f, s) == w[s] = IF s = {} THEN 0 ELSE f[First(s)] + w[s \ {First(s)}]

IsSum(w, f, S) ==
  w = [s \in SUBSET S |-> IF s = {} THEN 0 ELSE f[First(s)] + w[s \ {First(s)}]]

(* It is one of them.                                                      *)
LEMMA FirstIn == ASSUME NEW s, s # {} PROVE First(s) \in s
  BY DEF First

(* A set without one of its elements is smaller by one.                    *)
LEMMA LessOne ==
  ASSUME NEW s, IsFiniteSet(s), s # {}, NEW x \in s
  PROVE  /\ IsFiniteSet(s \ {x}) /\ Cardinality(s) \in Nat \ {0}
         /\ Cardinality(s \ {x}) = Cardinality(s) - 1
<1>1. Cardinality(s) \in Nat
  BY FS_CardinalityType
<1>2. Cardinality(s) # 0
  BY FS_EmptySet
<1>3. IsFiniteSet(s \ {x}) /\ Cardinality(s \ {x}) = Cardinality(s) - 1
  BY FS_RemoveElement
<1> QED BY <1>1, <1>2, <1>3

(* A family of subsets of a finite set that has a set whenever it has all  *)
(* those with one element less has all subsets.                            *)
LEMMA SubsetInduction ==
  ASSUME NEW S, IsFiniteSet(S), NEW C \in SUBSET (SUBSET S), {} \in C,
         \A s \in SUBSET S : s # {} /\ (\A x \in s : s \ {x} \in C) => s \in C
  PROVE  C = SUBSET S
<1> DEFINE T == {n \in Nat : \A s \in SUBSET S : Cardinality(s) = n => s \in C}
<1>1. \A s \in SUBSET S : IsFiniteSet(s) /\ Cardinality(s) \in Nat
  BY FS_Subset, FS_CardinalityType
<1>2. 0 \in T
  <2>1. \A s \in SUBSET S : Cardinality(s) = 0 => s = {}
    BY <1>1, FS_EmptySet
  <2> QED BY <2>1
<1>3. ASSUME NEW n \in T PROVE n + 1 \in T
  <2>1. ASSUME NEW s \in SUBSET S, Cardinality(s) = n + 1 PROVE s \in C
    <3>1. s # {}
      BY <2>1, FS_EmptySet
    <3>2. ASSUME NEW x \in s PROVE s \ {x} \in C
      <4>1. Cardinality(s \ {x}) = Cardinality(s) - 1
        BY <1>1, <3>1, LessOne
      <4>2. Cardinality(s \ {x}) = n /\ s \ {x} \in SUBSET S
        BY <2>1, <4>1
      <4> QED BY <4>2
    <3> QED BY <3>1, <3>2
  <2> QED BY <2>1
<1>4. T \in SUBSET Nat
  OBVIOUS
<1>5. T = Nat
  <2> HIDE DEF T
  <2> QED BY <1>2, <1>3, <1>4, SetInduction
<1>6. ASSUME NEW s \in SUBSET S PROVE s \in C
  BY <1>1, <1>5
<1> QED BY <1>6

(* The sums over all subsets of at most n elements exist.                  *)
LEMMA AddsExists ==
  ASSUME NEW f, NEW S, IsFiniteSet(S), NEW n \in Nat
  PROVE  \E w : \A s \in SUBSET S : Cardinality(s) <= n => Adds(w, f, s)
<1> DEFINE T == {m \in Nat : \E w : \A s \in SUBSET S : Cardinality(s) <= m => Adds(w, f, s)}
<1>0. \A s \in SUBSET S : IsFiniteSet(s) /\ Cardinality(s) \in Nat
  BY FS_Subset, FS_CardinalityType
<1>1. 0 \in T
  <2> DEFINE w == [s \in SUBSET S |-> 0]
  <2>1. ASSUME NEW s \in SUBSET S, Cardinality(s) <= 0 PROVE Adds(w, f, s)
    <3>1. s = {}
      BY <1>0, <2>1, FS_EmptySet
    <3> QED BY <3>1 DEF Adds
  <2> HIDE DEF w
  <2> QED BY <2>1
<1>2. ASSUME NEW m \in T PROVE m + 1 \in T
  <2>1. PICK w : \A s \in SUBSET S : Cardinality(s) <= m => Adds(w, f, s)
    OBVIOUS
  <2> DEFINE v == [s \in SUBSET S |-> IF Cardinality(s) <= m THEN w[s]
                                      ELSE f[First(s)] + w[s \ {First(s)}]]
  <2>2. ASSUME NEW s \in SUBSET S, Cardinality(s) <= m + 1, s # {}
        PROVE  s \ {First(s)} \in SUBSET S /\ Cardinality(s \ {First(s)}) <= m
    <3>1. First(s) \in s
      BY <2>2, FirstIn
    <3> QED BY <1>0, <2>2, <3>1, LessOne
  <2>3. ASSUME NEW s \in SUBSET S, Cardinality(s) <= m + 1 PROVE Adds(v, f, s)
    <3>1. CASE s = {}
      <4>1. Cardinality(s) <= m
        BY <3>1, FS_EmptySet
      <4>2. w[s] = 0
        BY <2>1, <3>1, <4>1 DEF Adds
      <4> QED BY <3>1, <4>1, <4>2 DEF Adds
    <3>2. CASE s # {}
      <4>1. v[s \ {First(s)}] = w[s \ {First(s)}]
        BY <2>2, <2>3, <3>2
      <4>2. v[s] = f[First(s)] + w[s \ {First(s)}]
        <5>1. Cardinality(s) <= m => w[s] = f[First(s)] + w[s \ {First(s)}]
          BY <2>1, <3>2 DEF Adds
        <5> QED BY <5>1
      <4> HIDE DEF v
      <4> QED BY <3>2, <4>1, <4>2 DEF Adds
    <3> QED BY <3>1, <3>2
  <2> HIDE DEF v
  <2> QED BY <2>3
<1>3. T \in SUBSET Nat
  OBVIOUS
<1>4. T = Nat
  <2> HIDE DEF T
  <2> QED BY <1>1, <1>2, <1>3, SetInduction
<1> QED BY <1>4

(* The sums over all subsets exist.                                        *)
LEMMA SumExists ==
  ASSUME NEW f, NEW S, IsFiniteSet(S)
  PROVE  \E w : IsSum(w, f, S)
<1>1. Cardinality(S) \in Nat /\ \A s \in SUBSET S : Cardinality(s) <= Cardinality(S)
  BY FS_Subset, FS_CardinalityType
<1>2. PICK w : \A s \in SUBSET S : Cardinality(s) <= Cardinality(S) => Adds(w, f, s)
  BY <1>1, AddsExists
<1> DEFINE v == [s \in SUBSET S |-> w[s]]
<1>3. ASSUME NEW s \in SUBSET S
      PROVE  v[s] = IF s = {} THEN 0 ELSE f[First(s)] + v[s \ {First(s)}]
  <2>1. w[s] = IF s = {} THEN 0 ELSE f[First(s)] + w[s \ {First(s)}]
    BY <1>1, <1>2 DEF Adds
  <2>2. v[s] = w[s] /\ v[s \ {First(s)}] = w[s \ {First(s)}]
    OBVIOUS
  <2> QED BY <2>1, <2>2
<1>4. v = [s \in SUBSET S |-> v[s]]
  OBVIOUS
<1> HIDE DEF v
<1>5. v = [s \in SUBSET S |-> IF s = {} THEN 0 ELSE f[First(s)] + v[s \ {First(s)}]]
  BY <1>3, <1>4
<1> QED BY <1>5 DEF IsSum

(* The sum of the library is that of IsSum.                                *)
LEMMA SumIs ==
  ASSUME NEW f, NEW S, IsFiniteSet(S)
  PROVE  \E w : IsSum(w, f, S) /\ SumFunctionOnSet(f, S) = w[S]
<1> DEFINE Def(w) == [s \in SUBSET S |-> IF s = {} THEN 0
                        ELSE f[CHOOSE x \in s : TRUE] + w[s \ {CHOOSE x \in s : TRUE}]]
<1>1. PICK w : IsSum(w, f, S)
  BY SumExists
<1>2. w = Def(w)
  BY <1>1 DEF IsSum, First
<1>3. SumFunctionOnSet(f, S) = (CHOOSE v : v = Def(v))[S]
  BY DEF SumFunctionOnSet, FoldFunctionOnSet, MapThenFoldSet
<1>4. \A v : v = Def(v) => IsSum(v, f, S)
  BY DEF IsSum, First
<1> HIDE DEF Def
<1>5. PICK v : v = (CHOOSE u : u = Def(u))
  OBVIOUS
<1>6. v = Def(v)
  BY <1>2, <1>5
<1> QED BY <1>3, <1>4, <1>5, <1>6

(* Two such functions agree where both are defined.                        *)
LEMMA SumUnique ==
  ASSUME NEW f, NEW S, IsFiniteSet(S), NEW R \in SUBSET S,
         NEW w, IsSum(w, f, S), NEW v, IsSum(v, f, R)
  PROVE  \A s \in SUBSET R : v[s] = w[s]
<1> DEFINE C == {s \in SUBSET R : v[s] = w[s]}
<1>1. IsFiniteSet(R)
  BY FS_Subset
<1>2. \A s \in SUBSET R :
        /\ v[s] = IF s = {} THEN 0 ELSE f[First(s)] + v[s \ {First(s)}]
        /\ w[s] = IF s = {} THEN 0 ELSE f[First(s)] + w[s \ {First(s)}]
  BY DEF IsSum
<1>3. {} \in C
  BY <1>2
<1>4. ASSUME NEW s \in SUBSET R, s # {}, \A x \in s : s \ {x} \in C PROVE s \in C
  <2>1. First(s) \in s
    BY <1>4, FirstIn
  <2> QED BY <1>2, <1>4, <2>1
<1>5. C \in SUBSET (SUBSET R)
  OBVIOUS
<1>6. C = SUBSET R
  <2> HIDE DEF C
  <2> QED BY <1>1, <1>3, <1>4, <1>5, SubsetInduction
<1> QED BY <1>6

(* A sum over a set takes one element off it.                              *)
LEMMA SumStep ==
  ASSUME NEW f, NEW S, IsFiniteSet(S)
  PROVE  /\ S = {} => SumFunctionOnSet(f, S) = 0
         /\ S # {} => SumFunctionOnSet(f, S)
                        = f[First(S)] + SumFunctionOnSet(f, S \ {First(S)})
<1>1. PICK w : IsSum(w, f, S) /\ SumFunctionOnSet(f, S) = w[S]
  BY SumIs
<1>2. w[S] = IF S = {} THEN 0 ELSE f[First(S)] + w[S \ {First(S)}]
  BY <1>1 DEF IsSum
<1>3. PICK R : R = S \ {First(S)}
  OBVIOUS
<1>4. R \in SUBSET S /\ IsFiniteSet(R)
  BY <1>3, FS_Subset
<1>5. PICK v : IsSum(v, f, R) /\ SumFunctionOnSet(f, R) = v[R]
  BY <1>4, SumIs
<1>6. v[R] = w[R]
  <2>1. IsSum(w, f, S) /\ IsSum(v, f, R)
    BY <1>1, <1>5
  <2>2. \A s \in SUBSET R : v[s] = w[s]
    BY ONLY <1>4, <2>1, IsFiniteSet(S), SumUnique
  <2> QED BY <2>2
<1> QED BY <1>1, <1>2, <1>3, <1>5, <1>6

(* The sum over no element.                                                *)
LEMMA SumEmpty == ASSUME NEW f PROVE SumFunctionOnSet(f, {}) = 0
  BY SumStep, FS_EmptySet

(* A sum of numbers is a number.                                           *)
LEMMA SumType ==
  ASSUME NEW f, NEW S, IsFiniteSet(S), \A x \in S : f[x] \in Nat
  PROVE  SumFunctionOnSet(f, S) \in Nat
<1> DEFINE C == {s \in SUBSET S : SumFunctionOnSet(f, s) \in Nat}
<1>1. {} \in C
  BY SumEmpty
<1>2. ASSUME NEW s \in SUBSET S, s # {}, \A x \in s : s \ {x} \in C PROVE s \in C
  <2>1. First(s) \in s
    BY <1>2, FirstIn
  <2>2. f[First(s)] \in Nat /\ SumFunctionOnSet(f, s \ {First(s)}) \in Nat
    BY <1>2, <2>1
  <2>3. IsFiniteSet(s)
    BY FS_Subset
  <2>4. SumFunctionOnSet(f, s) = f[First(s)] + SumFunctionOnSet(f, s \ {First(s)})
    BY <1>2, <2>3, SumStep
  <2>5. SumFunctionOnSet(f, s) \in Nat
    BY ONLY <2>2, <2>4
  <2> QED BY <2>5
<1>3. C \in SUBSET (SUBSET S)
  OBVIOUS
<1>4. C = SUBSET S
  <2> HIDE DEF C
  <2> QED BY <1>1, <1>2, <1>3, SubsetInduction
<1> QED BY <1>4

(* The order of a sum does not matter: any element may be taken off first. *)
LEMMA SumTakeOff ==
  ASSUME NEW f, NEW S, IsFiniteSet(S), \A x \in S : f[x] \in Nat, NEW e \in S
  PROVE  SumFunctionOnSet(f, S) = f[e] + SumFunctionOnSet(f, S \ {e})
<1> DEFINE Sum(s) == SumFunctionOnSet(f, s)
           C == {s \in SUBSET S : \A x \in s : Sum(s) = f[x] + Sum(s \ {x})}
<1>1. {} \in C
  OBVIOUS
<1>2. ASSUME NEW s \in SUBSET S, s # {}, \A x \in s : s \ {x} \in C PROVE s \in C
  <2>1. SUFFICES ASSUME NEW x \in s PROVE Sum(s) = f[x] + Sum(s \ {x})
    OBVIOUS
  <2>2. PICK c : c = First(s)
    OBVIOUS
  <2>3. c \in s /\ IsFiniteSet(s)
    BY <1>2, <2>2, FirstIn, FS_Subset
  <2>4. Sum(s) = f[c] + Sum(s \ {c})
    BY <1>2, <2>2, <2>3, SumStep
  <2>5. CASE x = c
    BY <2>4, <2>5
  <2>6. CASE x # c
    <3>1. c \in s \ {x} /\ x \in s \ {c}
      BY <2>3, <2>6
    <3>2. Sum(s \ {x}) = f[c] + Sum((s \ {x}) \ {c})
      BY <1>2, <3>1
    <3>3. Sum(s \ {c}) = f[x] + Sum((s \ {c}) \ {x})
      BY <1>2, <2>3, <3>1
    <3>4. PICK r : r = (s \ {x}) \ {c}
      OBVIOUS
    <3>5. r = (s \ {c}) \ {x} /\ IsFiniteSet(r) /\ r \in SUBSET S
      BY <2>3, <3>4, FS_Subset
    <3>6. Sum(r) \in Nat /\ f[x] \in Nat /\ f[c] \in Nat
      BY <2>3, <3>5, SumType
    <3> HIDE DEF Sum
    <3>7. Sum(s) = f[c] + (f[x] + Sum(r)) /\ Sum(s \ {x}) = f[c] + Sum(r)
      BY <2>4, <3>2, <3>3, <3>4, <3>5
    <3> QED BY ONLY <3>6, <3>7
  <2> QED BY <2>5, <2>6
<1>3. C \in SUBSET (SUBSET S)
  OBVIOUS
<1>4. C = SUBSET S
  <2> HIDE DEF C
  <2> QED BY <1>1, <1>2, <1>3, SubsetInduction
<1>5. \A x \in S : Sum(S) = f[x] + Sum(S \ {x})
  BY <1>4
<1> QED BY <1>5

(* Sums over two sets that h maps one to one, of the same numbers.         *)
LEMMA SumAcross ==
  ASSUME NEW f, NEW g, NEW S, IsFiniteSet(S), NEW R, NEW h,
         \A x \in S : h[x] \in R /\ f[x] = g[h[x]] /\ f[x] \in Nat,
         \A x, y \in S : h[x] = h[y] => x = y,
         \A z \in R : \E x \in S : h[x] = z
  PROVE  SumFunctionOnSet(f, S) = SumFunctionOnSet(g, R)
<1> DEFINE Img(s) == {h[x] : x \in s}
           C == {s \in SUBSET S : SumFunctionOnSet(f, s) = SumFunctionOnSet(g, Img(s))}
<1>1. {} \in C
  <2>1. Img({}) = {}
    OBVIOUS
  <2> HIDE DEF Img
  <2> QED BY <2>1, SumEmpty
<1>2. ASSUME NEW s \in SUBSET S, s # {}, \A x \in s : s \ {x} \in C PROVE s \in C
  <2>1. PICK x : x \in s
    BY <1>2
  <2>2. SumFunctionOnSet(f, s \ {x}) = SumFunctionOnSet(g, Img(s \ {x}))
    BY <1>2, <2>1
  <2>3. Img(s \ {x}) = Img(s) \ {h[x]} /\ h[x] \in Img(s)
    BY <2>1
  <2>4. IsFiniteSet(s) /\ IsFiniteSet(Img(s))
    <3>1. IsFiniteSet(s)
      BY FS_Subset
    <3>3. [u \in s |-> h[u]] \in Surjection(s, Img(s))
      BY DEF Surjection
    <3> HIDE DEF Img
    <3> QED BY <3>1, <3>3, FS_Surjection
  <2>5. (\A u \in s : f[u] \in Nat) /\ (\A z \in Img(s) : g[z] \in Nat) /\ f[x] = g[h[x]]
    BY <2>1
  <2> HIDE DEF Img
  <2>6. SumFunctionOnSet(f, s) = f[x] + SumFunctionOnSet(f, s \ {x})
    BY <2>1, <2>4, <2>5, SumTakeOff
  <2>7. SumFunctionOnSet(g, Img(s)) = g[h[x]] + SumFunctionOnSet(g, Img(s) \ {h[x]})
    BY <2>3, <2>4, <2>5, SumTakeOff
  <2>8. SumFunctionOnSet(f, s) = SumFunctionOnSet(g, Img(s))
    BY ONLY <2>2, <2>3, <2>5, <2>6, <2>7
  <2> QED BY <2>8
<1>3. C \in SUBSET (SUBSET S)
  OBVIOUS
<1>4. C = SUBSET S
  <2> HIDE DEF C
  <2> QED BY ONLY <1>1, <1>2, <1>3, IsFiniteSet(S), SubsetInduction
<1>5. Img(S) = R
  OBVIOUS
<1> HIDE DEF Img
<1> QED BY <1>4, <1>5

(* Functions that agree on a set have the same sum over it.                *)
LEMMA SumSame ==
  ASSUME NEW f, NEW g, NEW S, IsFiniteSet(S), \A x \in S : f[x] = g[x] /\ f[x] \in Nat
  PROVE  SumFunctionOnSet(f, S) = SumFunctionOnSet(g, S)
<1> DEFINE h == [x \in S |-> x]
<1>1. \A x \in S : h[x] = x
  OBVIOUS
<1> HIDE DEF h
<1>2. /\ \A x \in S : h[x] \in S /\ f[x] = g[h[x]] /\ f[x] \in Nat
      /\ \A x, y \in S : h[x] = h[y] => x = y
      /\ \A z \in S : \E x \in S : h[x] = z
  BY <1>1
<1> QED BY <1>2, SumAcross

(* The numbers f over S become those of g over R: the element x comes in   *)
(* or has a new number, and k is the sum over all others.                  *)
Changed(f, S, g, R, x, k) ==
  /\ IsFiniteSet(S) /\ R = S \cup {x} /\ k = SumFunctionOnSet(f, S \ {x})
  /\ \A y \in S \ {x} : f[y] = g[y] /\ f[y] \in Nat
  /\ g[x] \in Nat /\ (x \in S => f[x] \in Nat)

SumsOf(f, S, g, R, x, k) ==
  /\ IsFiniteSet(R) /\ k \in Nat
  /\ SumFunctionOnSet(g, R) = g[x] + k
  /\ SumFunctionOnSet(f, S) = IF x \in S THEN f[x] + k ELSE k

(* Then both sums are k and the number of x.                               *)
LEMMA SumChanged ==
  ASSUME NEW f, NEW S, NEW g, NEW R, NEW x, NEW k, Changed(f, S, g, R, x, k)
  PROVE  SumsOf(f, S, g, R, x, k)
<1>0. /\ IsFiniteSet(S) /\ R = S \cup {x} /\ k = SumFunctionOnSet(f, S \ {x})
      /\ \A y \in S \ {x} : f[y] = g[y] /\ f[y] \in Nat
      /\ g[x] \in Nat /\ (x \in S => f[x] \in Nat)
  BY DEF Changed
<1>1. IsFiniteSet(R) /\ IsFiniteSet(S \ {x})
  BY <1>0, FS_AddElement, FS_Subset
<1>2. k \in Nat
  BY <1>0, <1>1, SumType
<1>3. SumFunctionOnSet(g, R) = g[x] + SumFunctionOnSet(g, R \ {x})
  <2>1. x \in R /\ \A y \in R : g[y] \in Nat
    BY <1>0
  <2> QED BY <1>1, <2>1, SumTakeOff
<1>4. SumFunctionOnSet(g, S \ {x}) = k
  BY <1>0, <1>1, SumSame
<1>5. R \ {x} = S \ {x}
  BY <1>0
<1>6. ASSUME x \in S PROVE SumFunctionOnSet(f, S) = f[x] + k
  <2>1. \A y \in S : f[y] \in Nat
    BY <1>0, <1>6
  <2> QED BY <1>0, <1>6, <2>1, SumTakeOff
<1>7. x \notin S => S \ {x} = S
  OBVIOUS
<1> QED BY <1>0, <1>1, <1>2, <1>3, <1>4, <1>5, <1>6, <1>7 DEF SumsOf

-----------------------------------------------------------------------------
(***************************************************************************)
(* The sums that the size queries are about, over the memnodes themselves. *)
(* That what is taken off the free bytes is the length of one new block    *)
(* needs that the block is new, and so that blocks of a memnode end before *)
(* first_avail and have a length; that sums exist needs that only finitely *)
(* many memnodes and blocks are there.                                     *)
(***************************************************************************)
SizeOf  == [n \in DOMAIN heap |-> heap[n].size]
AvailOf == [n \in DOMAIN heap |-> heap[n].size_avail]
LenOf   == [b \in blocks |-> b.len]

Taken(size, avail, len) == size \in Nat /\ avail \in Nat /\ len \in Nat /\ size = avail + len

Finite == IsFiniteSet(DOMAIN heap) /\ IsFiniteSet(blocks)

Conserved ==
  pc \in {"idle", "walk", "handler"} =>
    Taken(SumFunctionOnSet(SizeOf, DOMAIN heap), SumFunctionOnSet(AvailOf, DOMAIN heap),
          SumFunctionOnSet(LenOf, blocks))

SumsInv == Finite /\ Conserved

(* The block that spr_palloc returns is none of those it has returned.     *)
LEMMA TakenBlockNew ==
  ASSUME IInv, NEW n \in Nodes, NEW a \in Nat \ {0}, NEW index,
         n \in DOMAIN heap \/ Source(n, index) \in MemNode
  PROVE  BlockOf(n, a, index) \notin blocks
<1>1. SUFFICES ASSUME BlockOf(n, a, index) \in blocks PROVE FALSE
  OBVIOUS
<1>2. PICK b : b = BlockOf(n, a, index)
  OBVIOUS
<1>3. b.node = n /\ b.off = Source(n, index).first_avail /\ b.len = a
  BY <1>2 DEF BlockOf
<1>4. n \in DOMAIN heap /\ b.off + b.len <= heap[n].first_avail
  BY <1>1, <1>2, <1>3 DEF IInv, HeapInv, BlocksInNodes
<1>5. heap[n] \in MemNode
  BY <1>4 DEF IInv, TypeInv, TypeOK
<1>6. Source(n, index) = heap[n] /\ heap[n].first_avail \in Nat
  BY <1>4, <1>5 DEF Source, MemNode
<1> QED BY <1>3, <1>4, <1>6

(* Taking bytes moves them from what is free to what is handed out.        *)
LEMMA SumsTakeBytes ==
  ASSUME IInv, Finite, pc \in {"idle", "handler"}, Conserved,
         NEW n \in Nodes, NEW a \in Nat \ {0}, NEW index \in 0..SPR_MAX_POOL_SLOT,
         index = SlotIndex(a), a + SizeofMemnode < Word, TakeBytes(n, a, index)
  PROVE  SumsInv'
<1>1. PICK h : h = Source(n, index)
  OBVIOUS
<1>2. Accounted(h) /\ a <= h.size_avail /\ h \in MemNode
  BY <1>1, SourceFits DEF Accounted
<1>3. h.size \in Nat /\ h.size_avail \in Nat /\ h.first_avail \in Nat
  BY <1>2 DEF MemNode
<1>4. n \in DOMAIN heap => h = heap[n]
  BY <1>1 DEF Source
<1>5. n \notin DOMAIN heap => h.size = h.size_avail
  <2>1. ASSUME n \notin DOMAIN heap PROVE h = spr_memnode_allocate(index + 1)
    BY <1>1, <2>1 DEF Source
  <2> QED BY <2>1 DEF spr_memnode_allocate
<1>6. PICK g : g = [h EXCEPT !.size_avail  = (h.size_avail - a) % Word,
                             !.first_avail = (h.first_avail + a) % Word]
  OBVIOUS
<1>7. PICK b : b = BlockOf(n, a, index)
  OBVIOUS
<1>8. /\ heap' = [m \in DOMAIN heap \cup {n} |-> IF m = n THEN g ELSE heap[m]]
      /\ blocks' = blocks \cup {b}
  BY <1>1, <1>6, <1>7 DEF TakeBytes
<1>9. g.size = h.size /\ g.size_avail = h.size_avail - a
  <2>1. h.pages * SPR_PAGE_SIZE \in Nat /\ h.pages * SPR_PAGE_SIZE < Word
    BY <1>2, PagesBounds DEF Accounted
  <2>2. h.size_avail - a \in 0..(Word - 1)
    BY <1>2, <1>3, <2>1, SizeTypes DEF Accounted
  <2>3. (h.size_avail - a) % Word = h.size_avail - a
    BY <2>2, SizeTypes, ModSmall
  <2> QED BY <1>2, <1>6, <2>3 DEF MemNode
<1>10. b \notin blocks /\ b.len = a
  BY <1>1, <1>2, <1>7, TakenBlockNew DEF BlockOf
<1>11. \A m \in DOMAIN heap : heap[m].size \in Nat /\ heap[m].size_avail \in Nat
  BY DEF IInv, TypeInv, TypeOK, MemNode
<1>12. PICK D, E : D = DOMAIN heap /\ E = DOMAIN heap'
  OBVIOUS
<1>13. E = D \cup {n} /\ IsFiniteSet(D)
  BY <1>8, <1>12 DEF Finite
<1>14. PICK ks, kv : /\ ks = SumFunctionOnSet(SizeOf, D \ {n})
                     /\ kv = SumFunctionOnSet(AvailOf, D \ {n})
  OBVIOUS
<1>15. PICK s, t : s = SizeOf /\ t = SizeOf'
  OBVIOUS
<1>16. PICK v, w : v = AvailOf /\ w = AvailOf'
  OBVIOUS
<1>17. /\ t[n] = h.size /\ w[n] = h.size_avail - a
       /\ \A m \in D \ {n} : /\ s[m] = t[m] /\ s[m] \in Nat
                              /\ v[m] = w[m] /\ v[m] \in Nat
       /\ n \in D => s[n] = h.size /\ v[n] = h.size_avail
  BY <1>4, <1>8, <1>9, <1>11, <1>12, <1>15, <1>16 DEF SizeOf, AvailOf
<1>18. h.size_avail - a \in Nat
  BY <1>2, <1>3
<1>19. /\ IsFiniteSet(E) /\ ks \in Nat
       /\ SumFunctionOnSet(t, E) = t[n] + ks
       /\ SumFunctionOnSet(s, D) = IF n \in D THEN s[n] + ks ELSE ks
  <2>1. Changed(s, D, t, E, n, ks)
    BY <1>3, <1>13, <1>14, <1>15, <1>17 DEF Changed
  <2>2. SumsOf(s, D, t, E, n, ks)
    BY ONLY <2>1, SumChanged
  <2> QED BY ONLY <2>2 DEF SumsOf
<1>20. /\ kv \in Nat
       /\ SumFunctionOnSet(w, E) = w[n] + kv
       /\ SumFunctionOnSet(v, D) = IF n \in D THEN v[n] + kv ELSE kv
  <2>1. Changed(v, D, w, E, n, kv)
    BY <1>3, <1>13, <1>14, <1>16, <1>17, <1>18 DEF Changed
  <2>2. SumsOf(v, D, w, E, n, kv)
    BY ONLY <2>1, SumChanged
  <2> QED BY ONLY <2>2 DEF SumsOf
<1>21. PICK l, k : l = LenOf /\ k = LenOf'
  OBVIOUS
<1>22. /\ IsFiniteSet(blocks') /\ SumFunctionOnSet(k, blocks') = a + SumFunctionOnSet(l, blocks)
  <2>1. \A c \in blocks : c.len \in Nat
    BY DEF IInv, TypeInv, TypeOK, Block
  <2>2. /\ k[b] = a /\ \A c \in blocks \ {b} : l[c] = k[c] /\ l[c] \in Nat
        /\ blocks \ {b} = blocks
    BY <1>8, <1>10, <1>21, <2>1 DEF LenOf
  <2>3. PICK r : r = SumFunctionOnSet(l, blocks \ {b})
    OBVIOUS
  <2>4. IsFiniteSet(blocks)
    BY DEF Finite
  <2>5. IsFiniteSet(blocks') /\ SumFunctionOnSet(k, blocks') = k[b] + r
    <3>1. Changed(l, blocks, k, blocks', b, r)
      BY <1>8, <1>10, <2>2, <2>3, <2>4 DEF Changed
    <3>2. SumsOf(l, blocks, k, blocks', b, r)
      BY ONLY <3>1, SumChanged
    <3> QED BY ONLY <3>2 DEF SumsOf
  <2> QED BY <2>2, <2>3, <2>5
<1>23. Taken(SumFunctionOnSet(s, D), SumFunctionOnSet(v, D), SumFunctionOnSet(l, blocks))
  BY <1>12, <1>15, <1>16, <1>21 DEF Conserved
<1>24. Taken(SumFunctionOnSet(t, E), SumFunctionOnSet(w, E), SumFunctionOnSet(k, blocks'))
  <2>2. PICK x, y, z : /\ x = SumFunctionOnSet(s, D) /\ y = SumFunctionOnSet(v, D)
                       /\ z = SumFunctionOnSet(l, blocks)
    OBVIOUS
  <2>3. /\ x = IF n \in D THEN h.size + ks ELSE ks
        /\ y = IF n \in D THEN h.size_avail + kv ELSE kv
        /\ n \notin D => h.size = h.size_avail
    BY <1>5, <1>12, <1>17, <1>19, <1>20, <2>2
  <2>4. PICK x2, y2, z2 : /\ x2 = SumFunctionOnSet(t, E) /\ y2 = SumFunctionOnSet(w, E)
                          /\ z2 = SumFunctionOnSet(k, blocks')
    OBVIOUS
  <2>5. x2 = h.size + ks /\ y2 = (h.size_avail - a) + kv /\ z2 = a + z
    BY <1>17, <1>19, <1>20, <1>22, <2>2, <2>4
  <2>6. Taken(x, y, z)
    BY <1>23, <2>2
  <2>7. Taken(x2, y2, z2)
    <3>1. PICK hs \in Nat, hv \in Nat : hs = h.size /\ hv = h.size_avail
      BY <1>3
    <3>2. a <= hv
      BY <1>2, <3>1
    <3>3. CASE n \in D
      <4>1. /\ x = hs + ks /\ y = hv + kv
            /\ x2 = hs + ks /\ y2 = (hv - a) + kv /\ z2 = a + z
        BY <2>3, <2>5, <3>1, <3>3
      <4> QED BY ONLY <1>19, <1>20, <2>6, <3>2, <4>1, a \in Nat, hs \in Nat, hv \in Nat
              DEF Taken
    <3>4. CASE n \notin D
      <4>1. /\ x = ks /\ y = kv /\ hs = hv
            /\ x2 = hs + ks /\ y2 = (hv - a) + kv /\ z2 = a + z
        BY <2>3, <2>5, <3>1, <3>4
      <4> QED BY ONLY <1>19, <1>20, <2>6, <3>2, <4>1, a \in Nat, hs \in Nat, hv \in Nat
              DEF Taken
    <3> QED BY <3>3, <3>4
  <2> QED BY <2>4, <2>7
<1>25. Finite'
  BY <1>12, <1>19, <1>22 DEF Finite
<1>26. Conserved'
  BY <1>12, <1>15, <1>16, <1>21, <1>24 DEF Conserved
<1> QED BY <1>25, <1>26 DEF SumsInv

(* A step that changes no memnode and no block.                            *)
LEMMA SumsUnchanged ==
  ASSUME SumsInv, UNCHANGED <<heap, blocks>>,
         pc' \in {"idle", "walk", "handler"} => pc \in {"idle", "walk", "handler"}
  PROVE  SumsInv'
<1>1. Finite' /\ SizeOf' = SizeOf /\ AvailOf' = AvailOf /\ LenOf' = LenOf
  BY DEF SumsInv, Finite, SizeOf, AvailOf, LenOf
<1>2. Conserved'
  BY <1>1 DEF SumsInv, Conserved
<1> QED BY <1>1, <1>2 DEF SumsInv

(* All of every memnode is free, and no block is handed out.               *)
AllFree ==
  /\ IsFiniteSet(DOMAIN heap) /\ blocks = {}
  /\ \A n \in DOMAIN heap : heap[n].size \in Nat /\ heap[n].size_avail = heap[n].size

(* Then the sizes are what is free.                                        *)
LEMMA SumsAllFree ==
  ASSUME AllFree'
  PROVE  SumsInv'
<1>1. PICK D, s, v, l : D = DOMAIN heap' /\ s = SizeOf' /\ v = AvailOf' /\ l = LenOf'
  OBVIOUS
<1>2. IsFiniteSet(D) /\ \A n \in D : s[n] = v[n] /\ s[n] \in Nat
  BY <1>1 DEF AllFree, SizeOf, AvailOf
<1>3. SumFunctionOnSet(s, D) \in Nat
  BY <1>2, SumType
<1>4. SumFunctionOnSet(s, D) = SumFunctionOnSet(v, D)
  BY <1>2, SumSame
<1>5. blocks' = {} /\ SumFunctionOnSet(l, {}) = 0
  BY SumEmpty DEF AllFree
<1>6. Taken(SumFunctionOnSet(s, D), SumFunctionOnSet(v, D), SumFunctionOnSet(l, {}))
  BY <1>3, <1>4, <1>5 DEF Taken
<1>7. Conserved'
  BY <1>1, <1>5, <1>6 DEF Conserved
<1>8. Finite'
  BY <1>1, <1>2, <1>5, FS_EmptySet DEF Finite
<1> QED BY <1>7, <1>8 DEF SumsInv

(* Registering an entry takes a node of the reserve or takes bytes.        *)
LEMMA SumsAddCleanup ==
  ASSUME IInv, SumsInv, pc \in {"idle", "handler"}, UNCHANGED pc, NEW d, AddCleanup(d)
  PROVE  SumsInv'
<1> DEFINE a == spr_align_allocation(SizeofCleanup)
<1>1. a \in Nat /\ a + SizeofMemnode < Word /\ SlotIndex(a) = 0
  BY CleanupFits
<1>2. a > 0
  BY CleanupSize
<1> HIDE DEF a
<1>3. CASE UNCHANGED memory
  BY <1>3, SumsUnchanged DEF memory
<1>4. CASE \E n \in Nodes : TakeBytes(n, a, SlotIndex(a))
  <2>1. 0 \in 0..SPR_MAX_POOL_SLOT /\ a \in Nat \ {0}
    BY <1>1, <1>2, SizeTypes
  <2> QED
    BY <1>1, <1>4, <2>1, SumsTakeBytes DEF SumsInv
<1> QED
  BY <1>3, <1>4 DEF AddCleanup, a

(* The first memnode of a pool is all free behind the pool header.         *)
LEMMA HomeFree ==
  ASSUME NEW pages \in Nat, NEW root \in BOOLEAN
  PROVE  HomeNode(pages, root).size_avail = HomeNode(pages, root).size
<1> DEFINE h     == spr_memnode_allocate(pages)
           taken == SizeofPool + (IF root THEN SizeofMutex ELSE 0)
<1>1. HomeNode(pages, root) =
        [h EXCEPT !.begin       = h.begin + taken,
                  !.first_avail = h.begin + taken,
                  !.size        = (h.size - taken) % Word,
                  !.size_avail  = (h.size - taken) % Word]
  BY DEF HomeNode
<1>2. h \in MemNode
  BY MemnodeType
<1> HIDE DEF h, taken
<1> QED BY <1>1, <1>2 DEF MemNode

(* spr_pool_create1 makes such a memnode.                                  *)
LEMMA SumsCreate ==
  ASSUME IInv, SumsInv, EmptyAtFirst, SizesFit, NEW size \in Sizes, NEW root \in BOOLEAN,
         spr_pool_create1(size, root)
  PROVE  SumsInv'
<1> DEFINE index == SlotIndex((spr_align_allocation(size) + SizeofPool) % Word)
<1>1. index \in Nat
  BY CreateSize, NPagesPositive DEF SlotIndex
<1> HIDE DEF index
<1>2. CASE UNCHANGED <<memory, frame>>
  BY <1>2, SumsUnchanged DEF memory, frame
<1>3. ASSUME NEW n \in Nodes, index <= SPR_MAX_POOL_SLOT,
             heap' = [m \in {n} |-> HomeNode(index + 1, root)], blocks' = blocks
      PROVE  SumsInv'
  <2>1. index + 1 \in 1..(SPR_MAX_POOL_SLOT + 1) /\ index + 1 \in Nat
    BY <1>1, <1>3, SizeTypes
  <2>2. HomeNode(index + 1, root) \in MemNode
    BY <2>1, FreshHome DEF Accounted
  <2>3. HomeNode(index + 1, root).size_avail = HomeNode(index + 1, root).size
    BY <2>1, HomeFree
  <2>4. DOMAIN heap' = {n} /\ IsFiniteSet({n})
    BY <1>3, FS_Singleton
  <2>5. blocks' = {}
    BY <1>3 DEF EmptyAtFirst, spr_pool_create1
  <2>6. AllFree'
    BY <1>3, <2>2, <2>3, <2>4, <2>5 DEF AllFree, MemNode
  <2> QED BY <2>6, SumsAllFree
<1> QED
  BY <1>2, <1>3 DEF spr_pool_create1, index

(* spr_palloc.                                                             *)
LEMMA SumsPalloc ==
  ASSUME IInv, SumsInv, SizesFit, NEW size \in Sizes, spr_palloc(size)
  PROVE  SumsInv'
<1> DEFINE a     == spr_align_allocation(size)
           index == SlotIndex(a)
<1>1. a \in Nat /\ a + SizeofMemnode < Word
  BY AlignedFits, SizeTypes
<1>2. index \in Nat
  BY <1>1, NPagesPositive DEF SlotIndex
<1>3. index = SlotIndex(a)
  OBVIOUS
<1> HIDE DEF a, index
<1>4. UNCHANGED pc
  BY DEF spr_palloc, frame
<1>5. CASE UNCHANGED memory
  BY <1>4, <1>5, SumsUnchanged DEF memory
<1>6. CASE /\ a # 0 /\ index <= SPR_MAX_POOL_SLOT /\ pc \in {"idle", "handler"}
           /\ \E n \in Nodes : TakeBytes(n, a, index)
  <2>1. index \in 0..SPR_MAX_POOL_SLOT /\ a \in Nat \ {0}
    BY <1>1, <1>2, <1>6, SizeTypes
  <2> QED
    BY <1>1, <1>3, <1>6, <2>1, SumsTakeBytes DEF SumsInv
<1>7. CASE pc \in {"idle", "handler"} /\ \E m \in Large : AddCleanup(m)
  BY <1>4, <1>7, SumsAddCleanup
<1> QED
  BY <1>5, <1>6, <1>7 DEF spr_palloc, PallocSmall, PallocLarge, Callable, a, index

(* The end of spr_pool_clear: as all memnodes are in the table, the loop   *)
(* over the slots makes each of them all free.                             *)
LEMMA SumsClear ==
  ASSUME IInv, SumsInv, SlotInv, FinishClear
  PROVE  SumsInv'
<1>1. InSlots(0) = Registered
  BY SizeTypes DEF InSlots, Registered, Slots
<1>2. DOMAIN heap = Registered
  BY <1>1 DEF SlotInv, AllInTable, FinishClear
<1>3. DOMAIN heap' = DOMAIN heap /\ blocks' = {}
  BY DEF FinishClear
<1>4. ASSUME NEW n \in DOMAIN heap
      PROVE  heap'[n].size \in Nat /\ heap'[n].size_avail = heap'[n].size
  <2>1. heap[n] \in MemNode
    BY DEF IInv, TypeInv, TypeOK
  <2>2. heap'[n] = [heap[n] EXCEPT !.first_avail = heap[n].begin,
                                   !.size_avail  = heap[n].size]
    BY <1>2 DEF FinishClear
  <2> QED BY <2>1, <2>2 DEF MemNode
<1>5. IsFiniteSet(DOMAIN heap')
  BY <1>3 DEF SumsInv, Finite
<1>6. AllFree'
  BY <1>3, <1>4, <1>5 DEF AllFree
<1> QED BY <1>6, SumsAllFree

(* Once spr_pool_destroy frees memnodes, no call asks for sizes any more.  *)
LEMMA SumsFree ==
  ASSUME SumsInv, FreeSlot
  PROVE  SumsInv'
<1>1. pc' \notin {"idle", "walk", "handler"}
  BY DEF FreeSlot
<1>2. DOMAIN heap' \subseteq DOMAIN heap /\ blocks' \subseteq blocks
  BY DEF FreeSlot
<1>3. Finite'
  BY <1>2, FS_Subset DEF SumsInv, Finite
<1> QED BY <1>1, <1>3 DEF SumsInv, Conserved

(* Every step keeps the sums.                                              *)
LEMMA SumsNext ==
  ASSUME IInv, SumsInv, SlotInv, EmptyAtFirst, SizesFit, [Next]_vars
  PROVE  SumsInv'
<1>1. ASSUME NEW size \in Sizes, NEW root \in BOOLEAN, spr_pool_create1(size, root)
      PROVE  SumsInv'
  BY <1>1, SumsCreate
<1>2. ASSUME NEW size \in Sizes, spr_palloc(size)
      PROVE  SumsInv'
  BY <1>2, SumsPalloc
<1>3. ASSUME NEW d \in Data, spr_pool_cleanup_add1(d)
      PROVE  SumsInv'
  BY <1>3, SumsAddCleanup DEF spr_pool_cleanup_add1, Callable, frame
<1>4. ASSUME NEW d \in Data \cup Large,
             spr_pool_cleanup_run1(d) \/ spr_pool_cleanup_remove1(d)
      PROVE  SumsInv'
  BY <1>4, SumsUnchanged
     DEF spr_pool_cleanup_run1, spr_pool_cleanup_remove1, Callable, memory, frame
<1>5. CASE spr_pool_clear \/ spr_pool_destroy
  BY <1>5, SumsUnchanged DEF spr_pool_clear, spr_pool_destroy, StartRunAll, Callable, memory
<1>6. CASE RunNext \/ ReturnToRunAll \/ ReturnToRun1
  BY <1>6, SumsUnchanged DEF RunNext, ReturnToRunAll, ReturnToRun1, memory
<1>7. CASE FinishClear \/ FreeSlot
  BY <1>7, SumsClear, SumsFree
<1>8. CASE StartFree \/ FinishDestroy
  BY <1>8, SumsUnchanged DEF StartFree, FinishDestroy, memory
<1>9. CASE UNCHANGED vars
  BY <1>9, SumsUnchanged DEF vars, memory, frame
<1> QED
  BY <1>1, <1>2, <1>3, <1>4, <1>5, <1>6, <1>7, <1>8, <1>9 DEF Next, Calls, Internal

(* What stands at a place of the table.                                    *)
At(p) == nodes[p[1]][p[2]]

(* Each memnode stands at one place of the table.                          *)
LEMMA PlacesAre ==
  ASSUME TypeOK, SlotInv, pc \in {"idle", "handler"}
  PROVE  /\ \A p \in Places : At(p) \in DOMAIN heap /\ p[1] \in Slots
                                /\ heap[At(p)].pages = p[1] + 1
         /\ \A p, q \in Places : At(p) = At(q) => p = q
         /\ \A n \in DOMAIN heap : \E p \in Places : At(p) = n
<1>1. DOMAIN heap = InSlots(0)
  BY DEF SlotInv, AllInTable
<1>2. ASSUME NEW p \in Places
      PROVE  \E k \in Slots : \E j \in DOMAIN nodes[k] : p = <<k, j>> /\ At(p) = nodes[k][j]
  <2>1a. PICK k \in Slots : \E j \in DOMAIN nodes[k] : p = <<k, j>>
    BY DEF Places
  <2>1. PICK j \in DOMAIN nodes[k] : p = <<k, j>>
    BY <2>1a
  <2>2. At(p) = nodes[k][j]
    BY <2>1 DEF At
  <2> QED BY <2>1, <2>2
<1>3. ASSUME NEW p \in Places
      PROVE  At(p) \in DOMAIN heap /\ p[1] \in Slots /\ heap[At(p)].pages = p[1] + 1
  <2>1a. PICK k \in Slots : \E j \in DOMAIN nodes[k] : p = <<k, j>> /\ At(p) = nodes[k][j]
    BY <1>2
  <2>1. PICK j \in DOMAIN nodes[k] : p = <<k, j>> /\ At(p) = nodes[k][j]
    BY <2>1a
  <2>2. nodes[k][j] \in DOMAIN heap
    BY <1>1, InTable
  <2>3. heap[nodes[k][j]].pages = k + 1
    BY <2>2 DEF SlotInv, PagesOfSlot
  <2> QED BY <2>1, <2>2, <2>3
<1>4. ASSUME NEW p \in Places, NEW q \in Places, At(p) = At(q) PROVE p = q
  <2>1a. PICK k \in Slots : \E j \in DOMAIN nodes[k] : p = <<k, j>> /\ At(p) = nodes[k][j]
    BY <1>2
  <2>1. PICK j \in DOMAIN nodes[k] : p = <<k, j>> /\ At(p) = nodes[k][j]
    BY <2>1a
  <2>2a. PICK k2 \in Slots : \E j2 \in DOMAIN nodes[k2] : q = <<k2, j2>> /\ At(q) = nodes[k2][j2]
    BY <1>2
  <2>2. PICK j2 \in DOMAIN nodes[k2] : q = <<k2, j2>> /\ At(q) = nodes[k2][j2]
    BY <2>2a
  <2>3. k = k2 /\ j = j2
    BY <1>4, <2>1, <2>2 DEF SlotInv, OnePlace
  <2> QED BY <2>1, <2>2, <2>3
<1>5. ASSUME NEW n \in DOMAIN heap PROVE \E p \in Places : At(p) = n
  <2>1a. PICK k \in Slots : \E j \in DOMAIN nodes[k] : n = nodes[k][j]
    BY <1>1 DEF InSlots
  <2>1. PICK j \in DOMAIN nodes[k] : n = nodes[k][j]
    BY <2>1a
  <2>2. <<k, j>> \in Places
    BY DEF Places
  <2>3. At(<<k, j>>) = n
    BY <2>1 DEF At
  <2> QED BY <2>2, <2>3
<1> QED BY <1>3, <1>4, <1>5

(* A loop over the table adds up what it would over the memnodes.          *)
LEMMA PlaceSums ==
  ASSUME TypeOK, SlotInv, Finite, pc \in {"idle", "handler"}, NEW f, NEW g,
         \A p \in Places : f[p] = g[At(p)], \A n \in DOMAIN heap : g[n] \in Nat
  PROVE  SumFunctionOnSet(f, Places) = SumFunctionOnSet(g, DOMAIN heap)
<1> DEFINE h == [n \in DOMAIN heap |-> CHOOSE p \in Places : At(p) = n]
<1>1. /\ \A p \in Places : At(p) \in DOMAIN heap
      /\ \A p, q \in Places : At(p) = At(q) => p = q
      /\ \A n \in DOMAIN heap : \E p \in Places : At(p) = n
  BY PlacesAre
<1>2. \A n \in DOMAIN heap : h[n] \in Places /\ At(h[n]) = n
  BY <1>1
<1> HIDE DEF h
<1>3. \A n \in DOMAIN heap : h[n] \in Places /\ g[n] = f[h[n]] /\ g[n] \in Nat
  BY <1>2
<1>4. \A n, m \in DOMAIN heap : h[n] = h[m] => n = m
  BY <1>2
<1>5. \A p \in Places : \E n \in DOMAIN heap : h[n] = p
  <2>1. ASSUME NEW p \in Places PROVE At(p) \in DOMAIN heap /\ h[At(p)] = p
    BY <1>1, <1>2
  <2> QED BY <2>1
<1>6. PICK D : D = DOMAIN heap
  OBVIOUS
<1>7. IsFiniteSet(D)
  BY <1>6 DEF Finite
<1> QED BY ONLY <1>3, <1>4, <1>5, <1>6, <1>7, SumAcross

(* The queries agree with the memnodes and the blocks.                     *)
LEMMA SizesFollow ==
  ASSUME IInv, SlotInv, SumsInv
  PROVE  SizesTrue
<1> SUFFICES ASSUME pc \in {"idle", "handler"}
             PROVE  /\ spr_pool_get_size =
                         (spr_pool_get_free_size + SumFunction([b \in blocks |-> b.len])) % Word
                    /\ spr_pool_get_total_size =
                         SumFunction([n \in DOMAIN heap |-> heap[n].pages * SPR_PAGE_SIZE]) % Word
  BY DEF SizesTrue, SizesConserved, TotalSizeIsAllocated
<1>1. TypeOK /\ Finite /\ Conserved
  BY DEF IInv, TypeInv, SumsInv
<1>2. \A n \in DOMAIN heap : heap[n] \in MemNode
  BY <1>1 DEF TypeOK
<1>3. \A n \in DOMAIN heap : /\ heap[n].size \in Nat /\ heap[n].size_avail \in Nat
                              /\ heap[n].pages \in Nat
  BY <1>2 DEF MemNode
<1>4. /\ \A p \in Places : At(p) \in DOMAIN heap /\ p[1] \in Slots
                             /\ heap[At(p)].pages = p[1] + 1
  BY <1>1, PlacesAre
<1>5. PICK f : f = [p \in Places |-> NodeAt(p).size]
  OBVIOUS
<1>6. PICK x : x = SumFunctionOnSet(SizeOf, DOMAIN heap)
  OBVIOUS
<1>7. spr_pool_get_size = x % Word
  <2>1. /\ \A p \in Places : f[p] = SizeOf[At(p)]
        /\ \A n \in DOMAIN heap : SizeOf[n] \in Nat
    BY <1>3, <1>4, <1>5 DEF SizeOf, NodeAt, At
  <2>2. SumFunctionOnSet(f, Places) = x
    BY <1>1, <1>6, <2>1, PlaceSums
  <2>3. spr_pool_get_size = SumFunctionOnSet(f, Places) % Word
    BY <1>5 DEF spr_pool_get_size, SumFunction
  <2> QED BY <2>2, <2>3
<1>8. PICK g : g = [p \in Places |-> NodeAt(p).size_avail]
  OBVIOUS
<1>9. PICK y : y = SumFunctionOnSet(AvailOf, DOMAIN heap)
  OBVIOUS
<1>10. spr_pool_get_free_size = y % Word
  <2>1. /\ \A p \in Places : g[p] = AvailOf[At(p)]
        /\ \A n \in DOMAIN heap : AvailOf[n] \in Nat
    BY <1>3, <1>4, <1>8 DEF AvailOf, NodeAt, At
  <2>2. SumFunctionOnSet(g, Places) = y
    BY <1>1, <1>9, <2>1, PlaceSums
  <2>3. spr_pool_get_free_size = SumFunctionOnSet(g, Places) % Word
    BY <1>8 DEF spr_pool_get_free_size, SumFunction
  <2> QED BY <2>2, <2>3
<1>11. PICK z : z = SumFunctionOnSet(LenOf, blocks)
  OBVIOUS
<1>12. SumFunction([b \in blocks |-> b.len]) = z
  BY <1>11 DEF LenOf, SumFunction
<1>13. Taken(x, y, z)
  BY <1>1, <1>6, <1>9, <1>11 DEF Conserved
<1>14. x % Word = ((y % Word) + z) % Word
  <2>1. y \in Nat /\ z \in Nat /\ x = y + z /\ Word \in Nat \ {0}
    BY <1>13, SizeTypes DEF Taken
  <2>2. (y + z) % Word = ((y % Word) + z) % Word
    BY ONLY <2>1, ModAdd
  <2> QED BY ONLY <2>1, <2>2
<1>15. PICK t : t = [p \in Places |-> SPR_PAGE_SIZE * (p[1] + 1)]
  OBVIOUS
<1>16. PICK u : u = [n \in DOMAIN heap |-> heap[n].pages * SPR_PAGE_SIZE]
  OBVIOUS
<1>17. SumFunctionOnSet(t, Places) = SumFunctionOnSet(u, DOMAIN heap)
  <2>1. \A k \in Nat : SPR_PAGE_SIZE * k = k * SPR_PAGE_SIZE /\ k * SPR_PAGE_SIZE \in Nat
    BY SizeTypes
  <2>2. \A n \in DOMAIN heap : u[n] = heap[n].pages * SPR_PAGE_SIZE /\ u[n] \in Nat
    BY <1>3, <1>16, <2>1
  <2>3. ASSUME NEW p \in Places PROVE t[p] = u[At(p)]
    <3>1. PICK k \in Nat : k = p[1] + 1
      BY <1>4 DEF Slots
    <3>2. t[p] = SPR_PAGE_SIZE * k
      BY <1>15, <3>1
    <3>3. u[At(p)] = k * SPR_PAGE_SIZE
      BY <1>4, <2>2, <3>1
    <3> QED BY <2>1, <3>2, <3>3
  <2> QED BY <1>1, <2>2, <2>3, PlaceSums
<1>18. spr_pool_get_total_size = SumFunction(u) % Word
  <2>1. SumFunction(t) = SumFunctionOnSet(t, Places)
    BY <1>15 DEF SumFunction
  <2>2. SumFunction(u) = SumFunctionOnSet(u, DOMAIN heap)
    BY <1>16 DEF SumFunction
  <2>3. spr_pool_get_total_size = SumFunction(t) % Word
    BY <1>15 DEF spr_pool_get_total_size
  <2> QED BY <1>17, <2>1, <2>2, <2>3
<1> QED BY <1>7, <1>10, <1>12, <1>14, <1>16, <1>18

(***************************************************************************)
(* spr_pool_get_size is what spr_pool_get_free_size reports plus the bytes *)
(* of all blocks handed out since the last spr_pool_clear, and             *)
(* spr_pool_get_total_size is what the memnodes were allocated with, for   *)
(* any number of memnodes and blocks and also where a sum exceeds size_t,  *)
(* in every pool whose clients ask for sizes that do not wrap around and   *)
(* are not of the size class behind the last slot.                         *)
(***************************************************************************)
THEOREM SizesReportedRight == SizesFit /\ NoExtraSlot => (Spec => []SizesTrue)
<1> SUFFICES ASSUME SizesFit, NoExtraSlot PROVE Spec => []SizesTrue
  OBVIOUS
<1> DEFINE I == IInv /\ EmptyAtFirst /\ SlotInv /\ SumsInv
<1>1. Init => SlotInv /\ SumsInv
  <2> SUFFICES ASSUME Init PROVE SlotInv /\ SumsInv
    OBVIOUS
  <2>1. DOMAIN heap = {} /\ blocks = {} /\ pc = "none" /\ \A k \in Slots : DOMAIN nodes[k] = {}
    BY DEF Init
  <2>2. SlotInv
    BY <2>1 DEF SlotInv, OnePlace, PagesOfSlot, AllInTable, InSlots
  <2>3. SumsInv
    BY <2>1, FS_EmptySet DEF SumsInv, Finite, Conserved
  <2> QED BY <2>2, <2>3
<1>2. I /\ [Next]_vars => (SlotInv /\ SumsInv)'
  BY SlotNext, SumsNext DEF IInv
<1>3. I => SizesTrue
  BY SizesFollow
<1>4. Spec => [](IInv /\ EmptyAtFirst)
  BY Invariance
<1> QED
  BY <1>1, <1>2, <1>3, <1>4, PTL DEF Spec
=============================================================================
