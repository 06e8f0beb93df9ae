------------------------------ MODULE Pointers ------------------------------
(***************************************************************************)
(* Walks along a pointer field of the nodes of a list, as the loops over   *)
(* spr_list_next and over spr_cleanup_s.next make them.                    *)
(***************************************************************************)
EXTENDS Naturals

(* Where a walk is that starts at p and follows field, after each of its   *)
(* first n steps.  What is no node, NULL first of all, ends the walk.      *)
Way(p, field, n) ==
  LET w[k \in 0..n] ==
        IF k = 0 THEN p
        ELSE LET q == w[k - 1] IN IF q \in DOMAIN field THEN field[q] ELSE q
  IN  w
=============================================================================
