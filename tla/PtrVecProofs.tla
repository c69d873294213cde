---------------------------- MODULE PtrVecProofs ----------------------------
(***************************************************************************)
(* Proofs about PtrVec, for every set of initial capacities.               *)
(***************************************************************************)
EXTENDS PtrVec, SequenceTheorems, TLAPS

(* GrowthBounded alone does not exclude that an array given a capacity     *)
(* has lost it: the capacity never falls below the initial one.            *)
IInv == TypeOK /\ IndicesName /\ GrowthBounded /\ cap0 <= capacity

(* A new array satisfies the invariant. *)
LEMMA InitIInv == Init => IInv
BY PtrVecAssumption DEF Init, IInv, TypeOK, IndicesName, GrowthBounded

(* Multiplication by two, in the form the steps below need it. *)
LEMMA ReservedFacts ==
  ASSUME NEW cap \in Nat, NEW len \in Nat, len >= 1, len - 1 > 0 => len - 1 < cap
  PROVE  /\ Reserved(cap, len) \in Nat
         /\ Reserved(cap, len) >= cap
         /\ Reserved(cap, len) = 0 <=> cap = 0
         /\ cap > 0 => len < Reserved(cap, len)
         /\ Reserved(cap, len) = cap \/ Reserved(cap, len) <= 2 * len
BY DEF Reserved

LEMMA PushIInv ==
  ASSUME IInv, NEW p \in Ptr, Push(p)
  PROVE  IInv'
<1> DEFINE cap == Reserved(capacity, length + 1)
           cells == IF cap = capacity THEN data ELSE Realloc(data, cap)
<1>1. /\ phase = "ready" /\ cap # 0 /\ length' = length + 1 /\ capacity' = cap
      /\ data' = [cells EXCEPT ![length] = p]
      /\ returned' = Append(returned, p) /\ cap0' = cap0 /\ released' = released
      /\ phase' = IF length < cap THEN "ready" ELSE "overrun"
  BY DEF Push
<1>2. /\ length \in Nat /\ capacity \in Nat /\ cap0 \in Nat
      /\ returned \in Seq(Ptr) /\ length = Len(returned) /\ length <= capacity
      /\ data \in [0..(capacity - 1) -> Ptr \cup {UNSET}]
      /\ \A i \in 0..(length - 1) : data[i] = returned[i + 1]
  BY <1>1, PtrVecAssumption DEF IInv, TypeOK, IndicesName
<1>3. /\ cap \in Nat /\ cap >= capacity /\ capacity > 0 /\ length + 1 < cap
      /\ cap = capacity \/ cap <= 2 * (length + 1)
  <2>1. length > 0 => length < capacity
    BY <1>1 DEF IInv, GrowthBounded
  <2>2. /\ cap \in Nat /\ cap >= capacity
        /\ cap = 0 <=> capacity = 0
        /\ capacity > 0 => length + 1 < cap
        /\ cap = capacity \/ cap <= 2 * (length + 1)
    BY <1>2, <2>1 DEF Reserved
  <2>3. capacity > 0
    BY <1>1, <1>2, <2>2
  <2>4. QED
    BY <2>2, <2>3
<1>4. /\ cells \in [0..(cap - 1) -> Ptr \cup {UNSET}]
      /\ \A i \in 0..(length - 1) : cells[i] = data[i]
  BY <1>2, <1>3 DEF Realloc
<1> HIDE DEF cap, cells
<1>5. TypeOK'
  BY <1>1, <1>2, <1>3, <1>4 DEF TypeOK, IInv
<1>6. IndicesName'
  <2>1. phase' = "ready" /\ length' <= capacity'
    BY <1>1, <1>2, <1>3
  <2>2. Len(returned') = length' /\ returned'[length + 1] = p
        /\ \A i \in 0..(length - 1) : returned'[i + 1] = returned[i + 1]
    BY <1>1, <1>2
  <2>3. data'[length] = p /\ \A i \in 0..(length - 1) : data'[i] = data[i]
    BY <1>1, <1>2, <1>3, <1>4
  <2>4. \A i \in 0..length : data'[i] = returned'[i + 1]
    <3> TAKE i \in 0..length
    <3>1. i = length \/ i \in 0..(length - 1)
      BY <1>2
    <3>2. QED
      BY <1>2, <2>2, <2>3, <3>1
  <2>5. length' - 1 = length
    BY <1>1, <1>2
  <2>6. released' = <<>>
    BY <1>1 DEF IInv, IndicesName
  <2>7. QED
    BY <2>1, <2>2, <2>4, <2>5, <2>6 DEF IndicesName
<1>7. GrowthBounded' /\ cap0' <= capacity'
  <2>1. /\ capacity = cap0 \/ capacity <= 2 * length
        /\ cap0 <= capacity
    BY DEF IInv, GrowthBounded
  <2>2. cap = cap0 \/ cap <= 2 * (length + 1)
    BY <1>2, <1>3, <2>1
  <2>3. phase' = "ready"
    BY <1>1, <1>2, <1>3
  <2>4. cap0' <= capacity'
    BY <1>1, <1>2, <1>3, <2>1
  <2>5. QED
    BY <1>1, <1>3, <2>2, <2>3, <2>4 DEF GrowthBounded
<1>8. QED
  BY <1>5, <1>6, <1>7 DEF IInv

LEMMA PushAbortsIInv ==
  ASSUME IInv, PushAborts
  PROVE  IInv'
<1>1. /\ length \in Nat /\ capacity \in Nat /\ cap0 \in Nat /\ cap0 <= capacity
      /\ phase = "ready" /\ length > 0 => length < capacity
  BY PtrVecAssumption DEF IInv, TypeOK, GrowthBounded
<1>2. capacity = 0
  BY <1>1, ReservedFacts DEF PushAborts, Reserved
<1>3. cap0 = 0
  BY <1>1, <1>2
<1>4. QED
  BY <1>1, <1>2, <1>3 DEF IInv, PushAborts, TypeOK, IndicesName, GrowthBounded

(* Every step keeps the invariant. *)
LEMMA NextIInv == IInv /\ [Next]_vars => IInv'
<1> SUFFICES ASSUME IInv, [Next]_vars PROVE IInv'
  OBVIOUS
<1>1. ASSUME NEW p \in Ptr, Push(p) PROVE IInv'
  BY <1>1, PushIInv
<1>2. CASE PushAborts
  BY <1>2, PushAbortsIInv
<1>3. CASE Free
  <2>1. /\ released' = [i \in 1..length |-> data[i - 1]] /\ phase' = "freed"
        /\ phase = "ready" /\ UNCHANGED <<length, capacity, data, returned, cap0>>
    BY <1>3 DEF Free
  <2>2. /\ length \in Nat /\ returned \in Seq(Ptr) /\ length = Len(returned)
        /\ \A i \in 0..(length - 1) : data[i] = returned[i + 1]
    BY <2>1 DEF IInv, TypeOK, IndicesName
  <2>3. \A i \in 1..length : data[i - 1] = returned[i]
    <3> TAKE i \in 1..length
    <3>1. i - 1 \in 0..(length - 1) /\ (i - 1) + 1 = i
      BY <2>2
    <3>2. QED
      BY <2>2, <3>1
  <2>4. released' = returned
    BY <2>1, <2>2, <2>3
  <2>5. QED
    BY <2>1, <2>2, <2>4 DEF IInv, TypeOK, IndicesName, GrowthBounded
<1>5. CASE UNCHANGED vars
  BY <1>5 DEF IInv, vars, TypeOK, IndicesName, GrowthBounded
<1>4. QED
  BY <1>1, <1>2, <1>3, <1>5 DEF Next

(* So the invariant holds throughout. *)
LEMMA Invariance == Spec => []IInv
BY InitIInv, NextIInv, PTL DEF Spec

(* Lengths, capacities and cells keep their types, whatever is pushed. *)
THEOREM PtrVecTypeOK == Spec => []TypeOK
<1>1. IInv => TypeOK
  BY DEF IInv
<1>2. QED
  BY <1>1, Invariance, PTL

(* ptrvec_push never writes outside its cells, the index it returns names  *)
(* the pointer it was given, and ptrvec_free releases what was pushed.     *)
THEOREM PtrVecIndicesName == Spec => []IndicesName
<1>1. IInv => IndicesName
  BY DEF IInv
<1>2. QED
  BY <1>1, Invariance, PTL

(* ptrvec_reserve at most doubles what is in use, and aborts only for an   *)
(* array created with capacity 0.                                          *)
THEOREM PtrVecGrowthBounded == Spec => []GrowthBounded
<1>1. IInv => GrowthBounded
  BY DEF IInv
<1>2. QED
  BY <1>1, Invariance, PTL

(* Pushing, through every realloc, leaves the pointers already named. *)
THEOREM PtrVecStableSlots == Spec => StableSlots
<1> DEFINE Stable == \A i \in DOMAIN data : i < length => data'[i] = data[i]
<1>1. IInv /\ [Next]_vars => [Stable]_vars
  <2> SUFFICES ASSUME IInv, [Next]_vars PROVE Stable
    OBVIOUS
  <2>1. ASSUME NEW p \in Ptr, Push(p) PROVE Stable
    <3>1. /\ length \in Nat /\ capacity \in Nat
          /\ data \in [0..(capacity - 1) -> Ptr \cup {UNSET}]
          /\ length > 0 => length < capacity
      BY <2>1 DEF IInv, TypeOK, GrowthBounded, Push
    <3>2. Reserved(capacity, length + 1) \in Nat
          /\ Reserved(capacity, length + 1) >= capacity
      BY <3>1, ReservedFacts
    <3> SUFFICES ASSUME NEW i \in 0..(capacity - 1), i < length
                 PROVE  data'[i] = data[i]
      BY <3>1
    <3>3. QED
      BY <2>1, <3>1, <3>2 DEF Push, Realloc
  <2>2. CASE PushAborts \/ Free \/ UNCHANGED vars
    BY <2>2 DEF PushAborts, Free, vars
  <2>3. QED
    BY <2>1, <2>2 DEF Next
<1>2. QED
  BY <1>1, Invariance, PTL DEF Spec, StableSlots
=============================================================================
