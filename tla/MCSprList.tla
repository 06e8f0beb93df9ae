------------------------------ MODULE MCSprList ------------------------------
(***************************************************************************)
(* Small instances of SprList for TLC.                                     *)
(***************************************************************************)
EXTENDS SprList, TLC

DataSymmetry == Permutations(Data)
=============================================================================
