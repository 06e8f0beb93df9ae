----------------------------- MODULE MCPoolLock -----------------------------
(***************************************************************************)
(* Small instances of PoolLock for TLC.                                    *)
(***************************************************************************)
EXTENDS PoolLock, TLC

CONSTANTS t1, t2

(* Threads that allocate and register.                                     *)
Allocators == [t \in Threads |-> {"palloc", "large", "refused", "add"}]

(* One thread does everything, the others allocate.                        *)
OneRemover == [t \in Threads |-> IF t = t1 THEN PoolOps ELSE {"palloc"}]

(* Every thread does everything.                                           *)
Everyone == [t \in Threads |-> PoolOps]

DataSymmetry == Permutations(Big) \cup Permutations(Data \ Big)
=============================================================================
