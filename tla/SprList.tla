------------------------------- MODULE SprList -------------------------------
(***************************************************************************)
(* The doubly linked list of lib/spr_list.c, pointer by pointer.  Its      *)
(* nodes come from a pool in chunks; a node that is removed goes to the    *)
(* list of free nodes and is taken from there again, with whatever its     *)
(* fields still hold.                                                      *)
(*                                                                         *)
(* A client may make any call on a list that is Linked.  What a call does  *)
(* to a list whose links are broken is not modelled, nor what follows when *)
(* a call has followed NULL.                                               *)
(***************************************************************************)
EXTENDS Integers, Sequences, FiniteSets, FiniteSetsExt, Pointers

CONSTANTS
  Data,                   \* what clients put into the list
  SPR_LIST_INITIAL_SIZE,  \* nodes in a chunk, 10 in the code
  MaxReserve,             \* bound on the argument of spr_list_reserve
  MaxNodes                \* bound on the nodes that the pool supplies

ASSUME ListAssumption ==
  /\ SPR_LIST_INITIAL_SIZE \in Nat \ {0, 1}
  /\ MaxReserve \in Nat /\ MaxNodes \in Nat

VARIABLES
  head, tail, free_nodes, size, capacity,  \* spr_list_s
  next, prev, data,                        \* spr_list_node_s, by node
  used,                                    \* the nodes 1..used are allocated
  fault                                    \* NULL was followed

list  == <<head, tail, free_nodes, size, capacity>>
nodes == <<next, prev, data>>
vars  == <<list, nodes, used, fault>>

Node == 1..MaxNodes
NULL == 0
Wild == -1   \* what an uninitialised field holds
Ptr  == Node \cup {NULL, Wild}

(***************************************************************************)
(* The way back from tail along prev meets size nodes and ends at head,    *)
(* and along next it is the same way forth: a client who starts at         *)
(* spr_list_last and counts sees the whole list.                           *)
(***************************************************************************)
BackLinked ==
  LET b == Way(tail, prev, MaxNodes)
  IN  size # 0 => /\ size <= MaxNodes
                  /\ \A k \in 0..(size - 1) : b[k] \in Node
                  /\ \A k \in 1..(size - 1) : next[b[k]] = b[k - 1]
                  /\ b[size - 1] = head

(***************************************************************************)
(* The list is linked both ways, its last node ends it, and an empty list  *)
(* is as spr_list_create1 has made it: head and tail are NULL.             *)
(***************************************************************************)
Linked ==
  /\ BackLinked
  /\ IF size = 0 THEN head = NULL /\ tail = NULL ELSE next[tail] = NULL

Callable == ~ fault /\ Linked

-----------------------------------------------------------------------------

(* spr_list_create1: a list without nodes.                                 *)
Init ==
  /\ head = NULL /\ tail = NULL /\ free_nodes = NULL
  /\ size = 0 /\ capacity = 0
  /\ next = [p \in Node |-> Wild] /\ prev = [p \in Node |-> Wild]
  /\ data = [p \in Node |-> Wild]
  /\ used = 0
  /\ fault = FALSE

(* Nodes a..b of a new chunk put in front of the free ones, one by one.    *)
Chained(a, b) ==
  [p \in Node |-> IF p \notin a..b THEN next[p]
                  ELSE IF p = a THEN free_nodes ELSE p - 1]

(* The node a push takes, and the next fields once it is taken.            *)
Taken == IF free_nodes # NULL THEN free_nodes ELSE used + 1
Links == IF free_nodes # NULL THEN next
         ELSE Chained(used + 2, used + SPR_LIST_INITIAL_SIZE)

(* Mutant: a chunk counted with the node that is taken.                    *)
TakeNodeCountsAll ==
  \/ /\ free_nodes # NULL
     /\ free_nodes' = next[free_nodes]
     /\ capacity' = capacity - 1
     /\ UNCHANGED used
  \/ /\ free_nodes = NULL
     /\ used + SPR_LIST_INITIAL_SIZE <= MaxNodes
     /\ used' = used + SPR_LIST_INITIAL_SIZE
     /\ free_nodes' = used'
     /\ capacity' = SPR_LIST_INITIAL_SIZE

TakeNode ==
  \/ /\ free_nodes # NULL
     /\ free_nodes' = next[free_nodes]
     /\ capacity' = capacity - 1
     /\ UNCHANGED used
  \/ /\ free_nodes = NULL
     /\ used + SPR_LIST_INITIAL_SIZE <= MaxNodes
     /\ used' = used + SPR_LIST_INITIAL_SIZE
     /\ free_nodes' = used'
     /\ capacity' = SPR_LIST_INITIAL_SIZE - 1

(* A push that gets no memory leaves the list as it is.                    *)
NoMemory == free_nodes = NULL /\ UNCHANGED vars

spr_list_push_back(d) ==
  LET node == Taken
  IN  /\ Callable
      /\ \/ /\ TakeNode
            /\ data' = [data EXCEPT ![node] = d]
            /\ \/ /\ tail # NULL
                  /\ next' = [Links EXCEPT ![node] = NULL, ![tail] = node]
                  /\ prev' = [prev EXCEPT ![node] = tail]
                  /\ UNCHANGED head
               \/ /\ tail = NULL
                  /\ next' = [Links EXCEPT ![node] = NULL]
                  /\ head' = node
                  /\ UNCHANGED prev
            /\ tail' = node
            /\ size' = size + 1
            /\ UNCHANGED fault
         \/ NoMemory

(* Mutant: the old head does not point back to the new one.                *)
PushFrontOneWay(d) ==
  LET node == Taken
  IN  /\ Callable
      /\ head # NULL
      /\ TakeNode
      /\ data' = [data EXCEPT ![node] = d]
      /\ prev' = [prev EXCEPT ![node] = NULL]
      /\ next' = [Links EXCEPT ![node] = head]
      /\ head' = node
      /\ size' = size + 1
      /\ UNCHANGED <<tail, fault>>

(* The next field of the first node of all is not set.                     *)
spr_list_push_front(d) ==
  LET node == Taken
  IN  /\ Callable
      /\ \/ /\ TakeNode
            /\ data' = [data EXCEPT ![node] = d]
            /\ \/ /\ head # NULL
                  /\ prev' = [prev EXCEPT ![node] = NULL, ![head] = node]
                  /\ next' = [Links EXCEPT ![node] = head]
                  /\ UNCHANGED tail
               \/ /\ head = NULL
                  /\ prev' = [prev EXCEPT ![node] = NULL]
                  /\ next' = Links
                  /\ tail' = node
            /\ head' = node
            /\ size' = size + 1
            /\ UNCHANGED fault
         \/ NoMemory

spr_list_reserve(n) ==
  /\ Callable
  /\ \/ /\ used + n <= MaxNodes
        /\ next' = Chained(used + 1, used + n)
        /\ free_nodes' = IF n = 0 THEN free_nodes ELSE used + n
        /\ used' = used + n
        /\ capacity' = capacity + n
        /\ UNCHANGED <<head, tail, size, prev, data, fault>>
     \/ UNCHANGED vars

-----------------------------------------------------------------------------

(* The end of both functions that remove: node goes to the free ones.      *)
Release(node, links) ==
  /\ next' = [links EXCEPT ![node] = free_nodes]
  /\ free_nodes' = node
  /\ size' = size - 1
  /\ capacity' = capacity + 1
  /\ UNCHANGED <<data, used, fault>>

(* tail is left alone, even when this was the only element.                *)
RemoveHead ==
  /\ Release(head, next)
  /\ prev' = IF next[head] = NULL THEN prev ELSE [prev EXCEPT ![next[head]] = NULL]
  /\ head' = next[head]
  /\ UNCHANGED tail

RemoveTail ==
  /\ Release(tail, [next EXCEPT ![prev[tail]] = NULL])
  /\ tail' = prev[tail]
  /\ UNCHANGED <<head, prev>>

RemoveMiddle(node) ==
  /\ Release(node, [next EXCEPT ![prev[node]] = next[node]])
  /\ prev' = [prev EXCEPT ![next[node]] = prev[node]]
  /\ UNCHANGED <<head, tail>>

(* Mutant: the second element is taken for the one that is sought.         *)
SoughtSecond(ms) == Way(head, next, MaxNodes)[1]

(* Where the loop that looks for a node of ms stops.  It starts at the     *)
(* second element and looks out for the tail only after its first step.    *)
Sought(ms) ==
  LET w    == Way(head, next, MaxNodes)
      ends == {k \in 1..MaxNodes : \/ w[k] \notin Node \/ w[k] \in ms
                                   \/ k > 1 /\ w[k] = tail}
  IN  w[Min(ends)]

(* No node of ms is found: the tail is reached or, in a list of less than  *)
(* three elements, NULL is followed.                                       *)
Missed(ms) ==
  /\ {head, tail} \cap ms = {}
  /\ \/ Sought(ms) = tail /\ Sought(ms) \in Node /\ UNCHANGED vars
     \/ /\ Sought(ms) \notin Node
        /\ fault' = TRUE
        /\ UNCHANGED <<list, nodes, used>>

(* Take out the node of ms that is found: the first element, the last, or  *)
(* the next one of the others.                                             *)
RemoveNodes(ms) ==
  \/ head \in ms /\ RemoveHead
  \/ head \notin ms /\ tail \in ms /\ RemoveTail
  \/ /\ {head, tail} \cap ms = {}
     /\ \E node \in Node \ {tail} : node = Sought(ms) /\ RemoveMiddle(node)
  \/ Missed(ms)

(* spr_list_remove1 for a node of the list or one that is not in it.       *)
spr_list_remove1(node) ==
  /\ Callable
  /\ node <= used
  /\ RemoveNodes({node})

spr_list_remove(d) ==
  /\ Callable
  /\ RemoveNodes({p \in Node : data[p] = d})

(* spr_list_clear hands each node to spr_list_remove, which looks for data *)
(* and finds none: data of a client is no address of a node.               *)
spr_list_clear ==
  /\ Callable
  /\ head # NULL
  /\ Missed({})

Next ==
  \/ \E d \in Data : \/ spr_list_push_back(d) \/ spr_list_push_front(d)
                     \/ spr_list_remove(d)
  \/ \E node \in Node : spr_list_remove1(node)
  \/ \E n \in 0..MaxReserve : spr_list_reserve(n)
  \/ spr_list_clear

Spec == Init /\ [][Next]_vars

-----------------------------------------------------------------------------

(* What a client sees who starts at spr_list_first.                        *)
Contents ==
  LET w == Way(head, next, MaxNodes)
      n == Cardinality({k \in DOMAIN w : w[k] \in Node})
  IN  [k \in 1..n |-> data[w[k - 1]]]

Without(s, k) == SubSeq(s, 1, k - 1) \o SubSeq(s, k + 1, Len(s))

(***************************************************************************)
(* Every variable has its type.                                            *)
(***************************************************************************)
TypeOK ==
  /\ {head, tail, free_nodes} \subseteq Ptr
  /\ size \in Nat /\ capacity \in Nat /\ used \in 0..MaxNodes
  /\ next \in [Node -> Ptr] /\ prev \in [Node -> Ptr]
  /\ data \in [Node -> Data \cup {Wild}]
  /\ fault \in BOOLEAN

(***************************************************************************)
(* spr_list_capacity is the length of the list of free nodes, and every    *)
(* node the pool has supplied is either free or in the list: removing and  *)
(* pushing lose no node and use none twice.                                *)
(***************************************************************************)
FreeNodesCounted ==
  LET f      == Way(free_nodes, next, MaxNodes)
      free   == {k \in 0..MaxNodes : f[k] \in Node}
      listed == {Way(head, next, MaxNodes)[k] : k \in 0..(size - 1)}
  IN  /\ Cardinality(free) = capacity
      /\ Cardinality({f[k] : k \in free}) = capacity
      /\ {f[k] : k \in free} \cap listed = {}
      /\ {f[k] : k \in free} \cup listed = 1..used

(***************************************************************************)
(* On the sequence of elements that the list stands for, a push adds one   *)
(* at its end or front, a remove takes out one of those that are equal to  *)
(* its argument and none if there is no such element, and spr_list_reserve *)
(* changes nothing, as long as the list stays Linked.                      *)
(***************************************************************************)
SequenceLaws ==
  [][Linked' =>
     /\ \A d \in Data :
          /\ spr_list_push_back(d) => Contents' = Append(Contents, d)
          /\ spr_list_push_front(d) => Contents' = <<d>> \o Contents
          /\ spr_list_remove(d) =>
               \/ \E k \in DOMAIN Contents :
                    Contents[k] = d /\ Contents' = Without(Contents, k)
               \/ /\ \A k \in DOMAIN Contents : Contents[k] # d
                  /\ Contents' = Contents
     /\ \A n \in 0..MaxReserve : spr_list_reserve(n) => Contents' = Contents]_vars

(***************************************************************************)
(* No node is lost or used twice, and no field has a value that is not of  *)
(* its type.                                                               *)
(***************************************************************************)
NodesKept == TypeOK /\ FreeNodesCounted
=============================================================================
