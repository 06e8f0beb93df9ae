------------------------------ MODULE MCSprDir ------------------------------
(***************************************************************************)
(* Three names: a directory whose name is no UTF-8, a link to a file, and  *)
(* a file whose name makes a path that is too long.                        *)
(***************************************************************************)
EXTENDS SprDir, TLC

CONSTANTS n1, n2, n3

MCListing ==
  [S \in SUBSET Names |-> SelectSeq(<<n1, n2, n3>>, LAMBDA n : n \in S)]

MCKind == (n1 :> "DIR") @@ (n2 :> "LINK") @@ (n3 :> "FILE")
=============================================================================
