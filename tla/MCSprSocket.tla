---------------------------- MODULE MCSprSocket -----------------------------
(***************************************************************************)
(* Two threads and two descriptors.                                        *)
(***************************************************************************)
EXTENDS SprSocket, TLC

ThreadSymmetry == Permutations(Threads)
=============================================================================
