----------------------------- MODULE MCSprFile ------------------------------
(***************************************************************************)
(* Two threads and two handles on a file of up to three bytes.             *)
(***************************************************************************)
EXTENDS SprFile
=============================================================================
