------------------------------ MODULE SeqList ------------------------------
(***************************************************************************)
(* What util.c promises of a list: a finite sequence of payloads that      *)
(* grows at its end, gives its newest payload back, and is destroyed once. *)
(* Nothing here knows of nodes; LinkedList.tla is shown to implement it.   *)
(***************************************************************************)
EXTENDS Naturals, Sequences

CONSTANT Payload          \* what a list element may be, NULL included

VARIABLES
  items,                  \* the payloads, oldest first
  phase                   \* "ready", "freed", or "segv" after an illegal pop

vars == <<items, phase>>

Init == items = <<>> /\ phase = "ready"

Add(e) ==
  /\ phase = "ready"
  /\ items' = Append(items, e)
  /\ phase' = phase

(* The element embedded in the list itself cannot be taken out again.      *)
Pop ==
  /\ phase = "ready" /\ Len(items) > 1
  /\ items' = SubSeq(items, 1, Len(items) - 1)
  /\ phase' = phase

PopIllegal ==
  /\ phase = "ready" /\ Len(items) <= 1
  /\ phase' = "segv" /\ items' = items

Free ==
  /\ phase = "ready"
  /\ phase' = "freed" /\ items' = items

Next ==
  \/ \E e \in Payload : Add(e)
  \/ Pop
  \/ PopIllegal
  \/ Free

Spec == Init /\ [][Next]_vars
=============================================================================
