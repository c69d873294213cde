---------------------------- MODULE MCHashTable -----------------------------
(* Three keys in two buckets: two of them collide in bucket 0, the third   *)
(* is alone in the last one.                                               *)
EXTENDS HashTable, TLC

CONSTANTS k1, k2, k3

MCHash == (k1 :> 2) @@ (k2 :> 4) @@ (k3 :> 3)
=============================================================================
