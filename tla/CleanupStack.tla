---------------------------- MODULE CleanupStack ----------------------------
(***************************************************************************)
(* What the cleanup functions of include/spr_pool.h promise their client:  *)
(* a handler registered for an object runs exactly once, unless the object *)
(* is removed before, and clearing or destroying the pool runs what is     *)
(* still registered, the last registered first.  No step drops an entry,   *)
(* repeats one or takes one out of order.                                  *)
(***************************************************************************)
EXTENDS Sequences, Naturals

CONSTANTS
  Objects,  \* what handlers are registered for
  Instant,  \* the objects whose handler does not call the pool back
  NULL

VARIABLES
  stack,    \* the registered objects, last registered first
  running,  \* the object whose handler runs, or NULL
  draining  \* the pool is being cleared or destroyed

vars == <<stack, running, draining>>

Start(d) == IF d \in Instant THEN NULL ELSE d

(* The stack without the last registered entry for d.                      *)
TakenOut(d) ==
  {SubSeq(stack, 1, k - 1) \o SubSeq(stack, k + 1, Len(stack)) :
     k \in {k \in DOMAIN stack : stack[k] = d /\ \A k2 \in 1..(k - 1) : stack[k2] # d}}

Init == stack = <<>> /\ running = NULL /\ draining = FALSE

Add(d) ==
  /\ running = NULL /\ ~ draining
  /\ stack' = <<d>> \o stack
  /\ UNCHANGED <<running, draining>>

Remove(d) ==
  /\ running = NULL /\ ~ draining
  /\ stack' \in TakenOut(d)
  /\ UNCHANGED <<running, draining>>

Run(d) ==
  /\ running = NULL /\ ~ draining
  /\ stack' \in TakenOut(d)
  /\ running' = Start(d)
  /\ UNCHANGED draining

StartDrain ==
  /\ running = NULL /\ ~ draining
  /\ draining' = TRUE
  /\ UNCHANGED <<stack, running>>

RunTop ==
  /\ running = NULL /\ draining /\ stack # <<>>
  /\ running' = Start(Head(stack))
  /\ stack' = Tail(stack)
  /\ UNCHANGED draining

Return ==
  /\ running # NULL
  /\ running' = NULL
  /\ UNCHANGED <<stack, draining>>

EndDrain ==
  /\ running = NULL /\ draining /\ stack = <<>>
  /\ draining' = FALSE
  /\ UNCHANGED <<stack, running>>

Next ==
  \/ \E d \in Objects : Add(d) \/ Remove(d) \/ Run(d)
  \/ StartDrain \/ RunTop \/ Return \/ EndDrain

Spec == Init /\ [][Next]_vars
=============================================================================
