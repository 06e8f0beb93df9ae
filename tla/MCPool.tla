------------------------------- MODULE MCPool -------------------------------
(***************************************************************************)
(* Small instances of Pool for TLC: a page of 16 bytes, two slots and an   *)
(* 7-bit size_t.  An aligned size of at most 10 takes a memnode of one     *)
(* page, of 12 to 26 one of two, of 28 to 42 has the slot index            *)
(* SPR_MAX_POOL_SLOT, and a larger one goes to spr_malloc.                 *)
(***************************************************************************)
EXTENDS PoolCleanup, PoolStats, TLC

NodeSymmetry == Permutations(Nodes)
=============================================================================
