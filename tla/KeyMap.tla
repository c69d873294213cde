------------------------------- MODULE KeyMap -------------------------------
(***************************************************************************)
(* What the hash table of util.c promises its users: a map from keys to    *)
(* values in which a later insertion replaces an earlier one, until the    *)
(* table is freed.  A key never inserted reads as MISSING, the pointer -1  *)
(* of hash_lookup.                                                         *)
(***************************************************************************)
EXTENDS Sequences

CONSTANTS Key, Val, MISSING

VARIABLES
  map,
  log,                    \* the values put so far: no insertion is lost
  freed

vars == <<map, log, freed>>

Init ==
  /\ map = [k \in Key |-> MISSING]
  /\ log = <<>>
  /\ freed = FALSE

Put(k, v) ==
  /\ ~freed
  /\ map' = [map EXCEPT ![k] = v]
  /\ log' = Append(log, v)
  /\ freed' = freed

Free ==
  /\ ~freed /\ freed' = TRUE
  /\ UNCHANGED <<map, log>>

Next == (\E k \in Key, v \in Val : Put(k, v)) \/ Free

Spec == Init /\ [][Next]_vars
=============================================================================
