---------------------------- MODULE PoolCleanup -----------------------------
(***************************************************************************)
(* The pool implements CleanupStack.  While spr_pool_cleanup_run_all is    *)
(* under way the registered entries are those it has still to visit,       *)
(* pool->cleanups is not updated before its end; while the handler that    *)
(* spr_pool_cleanup_run1 has called runs, its entry is still linked.       *)
(***************************************************************************)
EXTENDS Pool

RunningAll == pc \in {"walk", "handler"} /\ op \in {"clear", "destroy"}

(* The position of the entry whose handler spr_pool_cleanup_run1 runs.     *)
Entry == CHOOSE k \in DOMAIN cleanups : cleanups[k].at = cur.at

Registrations ==
  IF RunningAll THEN rest
  ELSE IF pc = "handler"
       THEN SubSeq(cleanups, 1, Entry - 1) \o SubSeq(cleanups, Entry + 1, Len(cleanups))
  ELSE cleanups

CS == INSTANCE CleanupStack
        WITH Objects  <- Data \cup Large,
             Instant  <- Large,
             stack    <- [k \in DOMAIN Registrations |-> Registrations[k].data],
             running  <- IF pc = "handler" THEN cur.data ELSE NULL,
             draining <- RunningAll

(***************************************************************************)
(* Every handler registered with spr_pool_cleanup_add1 runs exactly once   *)
(* unless spr_pool_cleanup_remove1 takes it out, and spr_pool_clear and    *)
(* spr_pool_destroy run them last registered first, as CleanupStack says.  *)
(***************************************************************************)
CleanupRegistry == CS!Spec
=============================================================================
