----------------------------- MODULE PoolSizes -----------------------------
(***************************************************************************)
(* The size arithmetic of lib/memory/spr_pool.c: how a requested size is   *)
(* aligned and how many pages a memnode for it takes.  All of it is done   *)
(* on size_t, so every sum is taken modulo Word.                           *)
(***************************************************************************)
EXTENDS Integers

CONSTANTS
  Word,               \* 2^w, one more than the largest size_t
  SPR_ALIGN_SIZE,     \* sizeof(uintptr_t), include/spr_memory.h
  SPR_PAGE_SIZE,      \* spr_get_page_size()
  SPR_MAX_POOL_SLOT,  \* number of slots of spr_pool_s.nodes, 20 in the code
  SizeofMemnode,      \* SPR_SIZEOF_MEMNODE_T_ALIGN
  SizeofPool,         \* SPR_SIZEOF_MEMPOOL_T_ALIGN
  SizeofMutex,        \* SPR_SIZEOF_MUTEX_T_ALIGN
  SizeofCleanup       \* sizeof(spr_cleanup_node_t)

(***************************************************************************)
(* What holds of these constants on every supported platform: a page takes *)
(* the three headers, the largest memnode is far below 2^w, and a cleanup  *)
(* node fits into a memnode of one page.                                   *)
(***************************************************************************)
ASSUME SizesAssumption ==
  /\ {Word, SPR_ALIGN_SIZE, SPR_PAGE_SIZE, SPR_MAX_POOL_SLOT} \subseteq Nat \ {0}
  /\ {SizeofMemnode, SizeofPool, SizeofMutex, SizeofCleanup} \subseteq Nat \ {0}
  /\ SizeofMemnode + SizeofPool + SizeofMutex < SPR_PAGE_SIZE
  /\ SizeofMemnode + SizeofCleanup + 2 * SPR_ALIGN_SIZE < SPR_PAGE_SIZE
  /\ (SPR_MAX_POOL_SLOT + 1) * SPR_PAGE_SIZE < Word

SPR_MIN_ALLOC == 2 * SPR_ALIGN_SIZE

(* spr_align: adding b - 1 and clearing the low bits, b a power of two. *)
spr_align_default(p) ==
  (((p + (SPR_ALIGN_SIZE - 1)) % Word) \div SPR_ALIGN_SIZE) * SPR_ALIGN_SIZE

(* 0 tells the caller that aligning has wrapped around. *)
spr_align_allocation(size) ==
  LET align_size == spr_align_default(size)
  IN  IF align_size < size THEN 0
      ELSE IF align_size < SPR_MIN_ALLOC THEN SPR_MIN_ALLOC
      ELSE align_size

(* Mutant: rounding down where a page is begun.                            *)
NPagesRoundedDown(size) ==
  LET total_size == (size + SizeofMemnode) % Word
  IN  IF total_size < SPR_PAGE_SIZE THEN 1 ELSE total_size \div SPR_PAGE_SIZE

spr_get_npages(size) ==
  LET total_size == (size + SizeofMemnode) % Word
  IN  IF total_size < SPR_PAGE_SIZE THEN 1
      ELSE (total_size \div SPR_PAGE_SIZE) + 1

(* The slot of the pool a request of this aligned size starts looking in.  *)
SlotIndex(align_size) == spr_get_npages(align_size) - 1

(* The size is so far below 2^w that none of the sums above wraps around.  *)
NoWrap(size) ==
  size + SPR_MIN_ALLOC + SizeofPool + SizeofMemnode < Word
=============================================================================
