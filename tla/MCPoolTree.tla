----------------------------- MODULE MCPoolTree -----------------------------
(***************************************************************************)
(* Two threads and the trees of up to three pools.                         *)
(***************************************************************************)
EXTENDS PoolTree
=============================================================================
