------------------------------- MODULE PtrVec -------------------------------
(***************************************************************************)
(* The growable pointer array of util.c.  The symbol table keeps variables,*)
(* types and scopes in such arrays and names them by the index ptrvec_push *)
(* returned, so an index must keep naming the same pointer for as long as  *)
(* the array lives, through every reallocation.  ptrvec_pop has no caller  *)
(* and is left out.                                                        *)
(***************************************************************************)
EXTENDS Integers, Sequences

CONSTANTS
  Ptr,                    \* pointers pushed
  UNSET,                  \* the content of a cell realloc has just provided
  InitCaps,               \* the capacities given to ptrvec_wcap
  MaxLength               \* bound: no push beyond this length

ASSUME PtrVecAssumption ==
  /\ UNSET \notin Ptr
  /\ InitCaps \subseteq Nat /\ MaxLength \in Nat

VARIABLES
  length, capacity,       \* vec->length, vec->capacity
  data,                   \* the cells, indexed from 0
  phase,                  \* "ready", "freed", "abort", or "overrun": a write
                          \* beyond the cells
  returned,               \* history: returned[i + 1] is the pointer whose
                          \* push returned the index i
  released,               \* history: what ptrvec_free gave the destructor
  cap0                    \* history: the capacity of ptrvec_wcap

vars == <<length, capacity, data, phase, returned, released, cap0>>

(* ptrvec_wcap: calloc clears the cells, modelled as not yet set. *)
Init ==
  /\ cap0 \in InitCaps
  /\ length = 0
  /\ capacity = cap0
  /\ data = [i \in 0..(cap0 - 1) |-> UNSET]
  /\ phase = "ready"
  /\ returned = <<>>
  /\ released = <<>>

(* Faulty variants, to see the properties fail: growing one push too late, *)
(* and more than asked for.                                                *)
ReservedLate(cap, len) == IF len <= cap + 1 THEN cap ELSE 2 * cap
ReservedGreedy(cap, len) == IF len < cap THEN cap ELSE 4 * cap

(* ptrvec_reserve(len), as the capacity it leaves behind. *)
Reserved(cap, len) == IF len < cap THEN cap ELSE 2 * cap

(* Faulty variants, to see the properties fail: growing into fresh cells,  *)
(* and into cells one short.                                               *)
ReallocFresh(d, cap) == [i \in 0..(cap - 1) |-> UNSET]
ReallocShort(d, cap) == [i \in 0..(cap - 2) |-> IF i \in DOMAIN d THEN d[i] ELSE UNSET]

(* realloc keeps the cells it can and leaves the new ones undefined. *)
Realloc(d, cap) == [i \in 0..(cap - 1) |-> IF i \in DOMAIN d THEN d[i] ELSE UNSET]

(* ptrvec_push when ptrvec_reserve comes back: the cell at the old length  *)
(* is written.                                                             *)
Push(p) ==
  LET cap == Reserved(capacity, length + 1)
      cells == IF cap = capacity THEN data ELSE Realloc(data, cap)
  IN  /\ phase = "ready" /\ length < MaxLength
      /\ cap # 0
      /\ length' = length + 1
      /\ capacity' = cap
      /\ data' = [cells EXCEPT ![length] = p]
      /\ phase' = IF length < cap THEN "ready" ELSE "overrun"
      /\ returned' = Append(returned, p)
      /\ UNCHANGED <<released, cap0>>

(* ptrvec_push on an array without cells: doubling 0 leaves 0, realloc to  *)
(* no bytes answers NULL, and ptrvec_reserve aborts.                       *)
PushAborts ==
  /\ phase = "ready" /\ length < MaxLength
  /\ Reserved(capacity, length + 1) = 0
  /\ phase' = "abort"
  /\ length' = length + 1
  /\ UNCHANGED <<capacity, data, returned, released, cap0>>

(* ptrvec_free: the destructor is called on the cells in use, in order. *)
Free ==
  /\ phase = "ready"
  /\ phase' = "freed"
  /\ released' = [i \in 1..length |-> data[i - 1]]
  /\ UNCHANGED <<length, capacity, data, returned, cap0>>

Next ==
  \/ \E p \in Ptr : Push(p)
  \/ PushAborts
  \/ Free

Spec == Init /\ [][Next]_vars

-----------------------------------------------------------------------------
TypeOK ==
  /\ length \in Nat /\ capacity \in Nat /\ cap0 \in InitCaps
  /\ data \in [0..(capacity - 1) -> Ptr \cup {UNSET}]
  /\ phase \in {"ready", "freed", "abort", "overrun"}
  /\ returned \in Seq(Ptr) /\ released \in Seq(Ptr)

(* Every push writes inside the cells, each index holds the pointer for    *)
(* which it was returned, and ptrvec_free releases every pointer pushed,   *)
(* each once and none else.                                                *)
IndicesName ==
  /\ phase # "overrun"
  /\ released = IF phase = "freed" THEN returned ELSE <<>>
  /\ phase # "abort" =>
       /\ length = Len(returned) /\ length <= capacity
       /\ \A i \in 0..(length - 1) : data[i] = returned[i + 1]

(* The doubling wastes at most as much as it holds; an array in use keeps  *)
(* a free cell behind its last one; and only an array that was given no    *)
(* capacity ever aborts.                                                   *)
GrowthBounded ==
  /\ capacity = cap0 \/ capacity <= 2 * length
  /\ length > 0 /\ phase # "abort" => length < capacity
  /\ phase = "abort" => cap0 = 0

(* No later operation changes the pointer an index names. *)
StableSlots ==
  [][\A i \in DOMAIN data : i < length => data'[i] = data[i]]_vars
=============================================================================
