----------------------------- MODULE LinkedList -----------------------------
(***************************************************************************)
(* The doubly linked list of util.c: one node is embedded in the list      *)
(* itself (`inner`), the others are heap nodes.  The symbol table's chain, *)
(* every hash bucket and every repetition of the syntax tree is such a     *)
(* list.  One action per operation; list_free, which recurses through the  *)
(* nodes, is one action per node so that every intermediate heap is seen.  *)
(***************************************************************************)
EXTENDS Naturals, Sequences

CONSTANTS
  Addr,                   \* heap addresses a node may get; bounds the list
  Elt,                    \* payloads other than NULL
  NIL,                    \* the NULL pointer
  INNER                   \* the address of the embedded node

ASSUME AddrAssumption ==
  /\ INNER \notin Addr
  /\ NIL \notin Addr \cup {INNER}

Node == Addr \cup {INNER}
Payload == Elt \cup {NIL}
Phases == {"ready", "freeing", "freed", "segv", "abort"}

VARIABLES
  next, prev, elt,        \* the three fields of every node
  last,                   \* list->last
  length,                 \* list->length
  live,                   \* heap nodes allocated and not yet freed
  phase,                  \* where the list is in its life
  cursor,                 \* the node that node_free is about to release
  released,               \* payloads handed to the destructor, in order
  order                   \* history: the nodes in the order they were added

heap == <<next, prev, elt, live>>
vars == <<next, prev, elt, last, length, live, phase, cursor, released, order>>

(* The payloads the list stands for.                                       *)
Items == [i \in 1..length |-> elt[order[i]]]

-----------------------------------------------------------------------------
(* Faulty variants of some operations: none is part of Spec, each is there *)
(* to see a property fail when the operation is got wrong.                 *)

(* list_pop without a->last->next = NULL. *)
PopNodeKeepsLink ==
  /\ phase = "ready" /\ prev[last] # NIL
  /\ last' = prev[last]
  /\ live' = live \ {last}
  /\ length' = length - 1
  /\ order' = SubSeq(order, 1, Len(order) - 1)
  /\ UNCHANGED <<next, prev, elt, phase, cursor, released>>

(* list_pop that returns before the dereference and leaves `last` NULL. *)
PopInnerLeavesNull ==
  /\ phase = "ready" /\ prev[last] = NIL
  /\ last' = NIL
  /\ UNCHANGED <<next, prev, elt, length, live, phase, cursor, released, order>>

(* list_pop that empties a list of one. *)
PopInnerEmpties ==
  /\ phase = "ready" /\ prev[last] = NIL
  /\ length' = 0
  /\ UNCHANGED <<next, prev, elt, last, live, phase, cursor, released, order>>

(* list_free that forgets the embedded payload. *)
FreeInnerForgets ==
  /\ phase = "freeing" /\ cursor = NIL
  /\ phase' = "freed"
  /\ UNCHANGED <<next, prev, elt, last, length, live, cursor, released, order>>

-----------------------------------------------------------------------------
(* list_empty *)
Init ==
  /\ next = [n \in Node |-> NIL]
  /\ prev = [n \in Node |-> NIL]
  /\ elt = [n \in Node |-> NIL]
  /\ last = INNER
  /\ length = 0
  /\ live = {}
  /\ phase = "ready"
  /\ cursor = NIL
  /\ released = <<>>
  /\ order = <<INNER>>

(* list_add on an empty list fills the embedded node. *)
AddInner(e) ==
  /\ phase = "ready" /\ length = 0
  /\ elt' = [elt EXCEPT ![INNER] = e]
  /\ length' = 1
  /\ UNCHANGED <<next, prev, last, live, phase, cursor, released, order>>

(* The two assertions of list_append(a, b), on the fields nx and pv. *)
AppendAsserts(nx, pv, a, b) == nx[a] = NIL /\ pv[b] = NIL

(* list_add otherwise: a zeroed node is linked behind `last`. *)
AddNode(e, new) ==
  LET nx == [next EXCEPT ![new] = NIL]
      pv == [prev EXCEPT ![new] = NIL]
  IN  /\ phase = "ready" /\ length > 0
      /\ new \in Addr \ live
      /\ live' = live \cup {new}
      /\ elt' = [elt EXCEPT ![new] = e]
      /\ length' = length + 1
      /\ next' = [nx EXCEPT ![last] = new]
      /\ prev' = [pv EXCEPT ![new] = last]
      /\ last' = new
      /\ order' = Append(order, new)
      /\ phase' = IF AppendAsserts(nx, pv, last, new) THEN "ready" ELSE "abort"
      /\ UNCHANGED <<cursor, released>>

(* list_pop: the last heap node goes. *)
PopNode ==
  /\ phase = "ready" /\ prev[last] # NIL
  /\ last' = prev[last]
  /\ next' = [next EXCEPT ![prev[last]] = NIL]
  /\ live' = live \ {last}
  /\ length' = length - 1
  /\ order' = SubSeq(order, 1, Len(order) - 1)
  /\ UNCHANGED <<prev, elt, phase, cursor, released>>

(* list_pop when `last` is the embedded node: a->last becomes NULL and is  *)
(* dereferenced.                                                           *)
PopInner ==
  /\ phase = "ready" /\ prev[last] = NIL
  /\ phase' = "segv"
  /\ UNCHANGED <<next, prev, elt, last, length, live, cursor, released, order>>

(* list_free of an empty list releases only the list. *)
FreeEmpty ==
  /\ phase = "ready" /\ length = 0
  /\ phase' = "freed"
  /\ UNCHANGED <<next, prev, elt, last, length, live, cursor, released, order>>

(* list_free otherwise starts node_free at the second element ... *)
FreeStart ==
  /\ phase = "ready" /\ length > 0
  /\ phase' = "freeing"
  /\ cursor' = next[INNER]
  /\ UNCHANGED <<next, prev, elt, last, length, live, released, order>>

Release(n) == IF elt[n] = NIL THEN released ELSE Append(released, elt[n])

(* ... which releases a node, then checks the back link of the next one ... *)
FreeNode ==
  /\ phase = "freeing" /\ cursor # NIL
  /\ released' = Release(cursor)
  /\ live' = live \ {cursor}
  /\ cursor' = next[cursor]
  /\ phase' = IF next[cursor] # NIL /\ prev[next[cursor]] # cursor
                THEN "abort" ELSE "freeing"
  /\ UNCHANGED <<next, prev, elt, last, length, order>>

(* ... and the embedded element and the list itself go last. *)
FreeInner ==
  /\ phase = "freeing" /\ cursor = NIL
  /\ released' = Release(INNER)
  /\ phase' = "freed"
  /\ UNCHANGED <<next, prev, elt, last, length, live, cursor, order>>

Next ==
  \/ \E e \in Payload : AddInner(e)
  \/ \E e \in Payload, new \in Addr : AddNode(e, new)
  \/ PopNode
  \/ PopInner
  \/ FreeEmpty
  \/ FreeStart
  \/ FreeNode
  \/ FreeInner

Spec == Init /\ [][Next]_vars

-----------------------------------------------------------------------------
(* The traversals of util.h, as the macros walk them.                      *)

(* LFOREACH: `length` steps along `next`, starting at the embedded node. *)
ForwardNode[i \in 1..length] == IF i = 1 THEN INNER ELSE next[ForwardNode[i - 1]]
ForEach == [i \in 1..length |-> elt[ForwardNode[i]]]

(* The payloads of a sequence that are not NULL.                           *)
NonNull[s \in Seq(Payload)] ==
  IF s = <<>> THEN <<>>
  ELSE LET rest == NonNull[SubSeq(s, 1, Len(s) - 1)]
       IN  IF s[Len(s)] = NIL THEN rest ELSE Append(rest, s[Len(s)])

(* LFOREACHREV: along `prev` from `last` until NULL; NULL payloads are     *)
(* passed over.                                                            *)
BackwardNode[i \in 1..Len(order)] == IF i = 1 THEN last ELSE prev[BackwardNode[i - 1]]
(* ... a variant that stops when there is no previous node, and so misses   *)
(* the embedded one ...                                                    *)
ForEachRevMissesInner ==
  LET n == CHOOSE k \in 1..Len(order) : prev[BackwardNode[k]] = NIL
  IN  NonNull[[i \in 1..(n - 1) |-> elt[BackwardNode[i]]]]

ForEachRev ==
  LET n == CHOOSE k \in 1..Len(order) : prev[BackwardNode[k]] = NIL
  IN  NonNull[[i \in 1..n |-> elt[BackwardNode[i]]]]

-----------------------------------------------------------------------------
TypeOK ==
  /\ next \in [Node -> Node \cup {NIL}]
  /\ prev \in [Node -> Node \cup {NIL}]
  /\ elt \in [Node -> Payload]
  /\ last \in Node
  /\ length \in Nat
  /\ live \subseteq Addr
  /\ phase \in Phases
  /\ cursor \in Node \cup {NIL}
  /\ released \in Seq(Elt)
  /\ order \in Seq(Node)

(* The heap is one chain: the nodes in the order they were added, without  *)
(* repetition, each linked to its neighbours in both directions, `last` at *)
(* its end and NULL beyond both ends.                                      *)
OneChain ==
  /\ Len(order) = IF length = 0 THEN 1 ELSE length
  /\ order[1] = INNER /\ order[Len(order)] = last
  /\ \A i, j \in 1..Len(order) : order[i] = order[j] => i = j
  /\ \A i \in 1..(Len(order) - 1) :
       /\ next[order[i]] = order[i + 1]
       /\ prev[order[i + 1]] = order[i]
  /\ next[last] = NIL /\ prev[INNER] = NIL

(* The node at position k, or NULL behind the end; the nodes from k on. *)
At(k) == IF k <= Len(order) THEN order[k] ELSE NIL
From(k) == {order[i] : i \in k..Len(order)}

(* Exactly the nodes still reachable are allocated: nothing leaks, nothing *)
(* is used or freed after it was freed.                                    *)
LiveIsReachable ==
  /\ phase \in {"ready", "segv"} => live = From(2)
  /\ phase = "freeing" =>
       \E k \in 2..(Len(order) + 1) : cursor = At(k) /\ live = From(k)
  /\ phase = "freed" => live = {}

(* No assertion of list_append or node_free fails. *)
AssertsHold == phase # "abort"

WellLinked == OneChain /\ LiveIsReachable /\ AssertsHold

(* Both traversals show the list the operations describe: LFOREACH oldest  *)
(* first, LFOREACHREV newest first without the NULL payloads.              *)
WalksAgree ==
  phase = "ready" =>
    /\ ForEach = Items
    /\ ForEachRev = NonNull[[i \in 1..length |-> Items[length + 1 - i]]]

(* list_free hands every payload to the destructor exactly once, the one   *)
(* embedded in the list last, and NULL never.                              *)
ReleasedOnce ==
  phase = "freed" /\ length > 0 =>
    released = NonNull[Append(Tail(Items), Head(Items))]

(* The linked list implements the abstract list: freeing is one step that  *)
(* takes effect when the last payload has gone.                            *)
Abstract == INSTANCE SeqList WITH
  items <- Items,
  phase <- IF phase = "freeing" THEN "ready" ELSE phase

ImplementsSeqList == Abstract!Spec
=============================================================================
