----------------------------- MODULE MCSprSync ------------------------------
(***************************************************************************)
(* Two workers under a mutex and a semaphore of one or two units.          *)
(***************************************************************************)
EXTENDS SprSync
=============================================================================
