----------------------------- MODULE PoolStats ------------------------------
(***************************************************************************)
(* The functions of lib/memory/spr_pool.c that report a pool's sizes.      *)
(***************************************************************************)
EXTENDS Pool, Functions

(* The places of the slot table, in whose order the loops add up.          *)
Places == UNION {{<<k, j>> : j \in DOMAIN nodes[k]} : k \in Slots}

NodeAt(p) == heap[nodes[p[1]][p[2]]]

spr_pool_get_size ==
  SumFunction([p \in Places |-> NodeAt(p).size]) % Word

spr_pool_get_free_size ==
  SumFunction([p \in Places |-> NodeAt(p).size_avail]) % Word

spr_pool_get_total_size ==
  SumFunction([p \in Places |-> SPR_PAGE_SIZE * (p[1] + 1)]) % Word

(***************************************************************************)
(* Between calls and inside handlers, the size of the pool is what is free *)
(* plus what spr_palloc has returned, byte for byte.                       *)
(***************************************************************************)
SizesConserved ==
  pc \in {"idle", "handler"} =>
    spr_pool_get_size =
      (spr_pool_get_free_size + SumFunction([b \in blocks |-> b.len])) % Word

(***************************************************************************)
(* The total size, computed from slot numbers alone, is what the memnodes  *)
(* were allocated with.                                                    *)
(***************************************************************************)
TotalSizeIsAllocated ==
  pc \in {"idle", "handler"} =>
    spr_pool_get_total_size =
      SumFunction([n \in DOMAIN heap |-> heap[n].pages * SPR_PAGE_SIZE]) % Word

(***************************************************************************)
(* The size queries of a pool agree with what was allocated for it and     *)
(* what it has handed out.                                                 *)
(***************************************************************************)
SizesTrue == SizesConserved /\ TotalSizeIsAllocated
=============================================================================
