-------------------------- MODULE LinkedListProofs --------------------------
(***************************************************************************)
(* Proofs about LinkedList, for every set of addresses and payloads.       *)
(***************************************************************************)
EXTENDS LinkedList, SequenceTheorems, NaturalsInduction, WellFoundedInduction, TLAPS

(* The inductive invariant: the shape of the heap needs the types of the   *)
(* fields, and the types after a list_pop need the shape (a previous node  *)
(* exists only in a list of two or more).                                  *)
IInv == TypeOK /\ WellLinked

(* What Append and SubSeq do to the history of nodes. *)
LEMMA AppendFacts ==
  ASSUME NEW S, NEW s \in Seq(S), NEW e \in S
  PROVE  /\ Append(s, e) \in Seq(S)
         /\ Len(Append(s, e)) = Len(s) + 1
         /\ \A i \in 1..Len(s) : Append(s, e)[i] = s[i]
         /\ Append(s, e)[Len(s) + 1] = e
OBVIOUS

LEMMA FrontFacts ==
  ASSUME NEW S, NEW s \in Seq(S), Len(s) >= 1,
         NEW f, f = SubSeq(s, 1, Len(s) - 1)
  PROVE  /\ f \in Seq(S)
         /\ Len(f) = Len(s) - 1
         /\ \A i \in 1..(Len(s) - 1) : f[i] = s[i]
<1> DEFINE m == Len(s) - 1
<1>1. m \in Int /\ m >= 0 /\ \A i \in 1..m : s[i] \in S
  BY LenProperties
<1>2. /\ SubSeq(s, 1, m) \in Seq(S)
      /\ Len(SubSeq(s, 1, m)) = IF 1 <= m THEN m - 1 + 1 ELSE 0
      /\ \A i \in 1..(m - 1 + 1) : SubSeq(s, 1, m)[i] = s[1 + i - 1]
  <2> HIDE DEF m
  <2>1. 1 \in Int
    OBVIOUS
  <2>2. QED
    BY <1>1, <2>1, SubSeqProperties
<1>3. Len(SubSeq(s, 1, m)) = m
  <2> HIDE DEF m
  <2>1. CASE m = 0
    BY <1>2, <2>1
  <2>2. CASE m >= 1
    BY <1>1, <1>2, <2>2
  <2>3. QED
    BY <1>1, <2>1, <2>2
<1>4. \A i \in 1..m : SubSeq(s, 1, m)[i] = s[i]
  <2> TAKE i \in 1..m
  <2>1. i \in 1..(m - 1 + 1) /\ 1 + i - 1 = i
    BY <1>1
  <2>2. SubSeq(s, 1, m)[i] = s[1 + i - 1]
    BY <1>2, <2>1
  <2>3. QED
    BY <2>1, <2>2
<1>5. QED
  BY <1>2, <1>3, <1>4

(* A freshly created list satisfies the invariant. *)
LEMMA InitIInv == Init => IInv
<1> SUFFICES ASSUME Init PROVE IInv
  OBVIOUS
<1> USE AddrAssumption DEF Init
<1>1. order \in Seq(Node) /\ Len(order) = 1 /\ order[1] = INNER
  BY DEF Node
<1>2. TypeOK
  BY <1>1 DEF TypeOK, Node, Payload, Phases
<1>3. OneChain
  BY <1>1 DEF OneChain, Node
<1>4. LiveIsReachable /\ AssertsHold
  BY <1>1 DEF LiveIsReachable, AssertsHold, From
<1>5. QED
  BY <1>2, <1>3, <1>4 DEF IInv, WellLinked

(* Adding a second or later element: the one case in which the chain grows.*)
LEMMA AddNodeIInv ==
  ASSUME IInv, NEW e \in Payload, NEW new \in Addr, AddNode(e, new)
  PROVE  IInv'
<1> USE AddrAssumption DEF IInv, WellLinked
<1> DEFINE n == Len(order)
<1>1. /\ n \in Nat /\ n >= 1 /\ n = length
      /\ order \in [1..n -> Node] /\ order \in Seq(Node) /\ new \in Node
  BY LenProperties DEF AddNode, TypeOK, OneChain, Node
<1>2. /\ order' \in Seq(Node) /\ Len(order') = n + 1
      /\ \A i \in 1..n : order'[i] = order[i]
      /\ order'[n + 1] = new
  BY <1>1, AppendFacts DEF AddNode
<1>3. \A i \in 1..n : order[i] # new
  <2>1. live = {order[i] : i \in 2..n} /\ order[1] = INNER
    BY <1>1 DEF AddNode, LiveIsReachable, OneChain, From
  <2>2. QED
    BY <1>1, <2>1 DEF AddNode
<1>4. /\ next' = [next EXCEPT ![new] = NIL, ![last] = new]
      /\ prev' = [prev EXCEPT ![new] = last]
      /\ phase' = "ready" /\ last \in Node /\ last # new
  BY <1>1, <1>3 DEF AddNode, AppendAsserts, OneChain, TypeOK, Node
<1>5. TypeOK'
  BY <1>1, <1>2, <1>4 DEF TypeOK, AddNode, Node, Payload, Phases
<1>6. OneChain'
  <2> USE <1>1, <1>2, <1>3, <1>4
  <2>1. Len(order') >= 1 /\ order'[1] = INNER /\ order'[n + 1] = last'
    BY DEF OneChain, AddNode
  <2>2. Len(order') = IF length' = 0 THEN 1 ELSE length'
    BY DEF AddNode
  <2>3. \A i, j \in 1..(n + 1) : order'[i] = order'[j] => i = j
    <3> SUFFICES ASSUME NEW i \in 1..(n + 1), NEW j \in 1..(n + 1),
                        order'[i] = order'[j]
                 PROVE  i = j
      OBVIOUS
    <3>1. CASE i = n + 1 \/ j = n + 1
      BY <3>1
    <3>2. CASE i \in 1..n /\ j \in 1..n
      <4>1. order[i] = order[j]
        BY <3>2
      <4>2. QED
        BY <3>2, <4>1 DEF OneChain
    <3>3. QED
      BY <3>1, <3>2
  <2>4. \A i \in 1..n : next'[order'[i]] = order'[i + 1]
    <3> SUFFICES ASSUME NEW i \in 1..n PROVE next'[order'[i]] = order'[i + 1]
      OBVIOUS
    <3>1. CASE i = n
      BY <3>1 DEF OneChain, TypeOK
    <3>2. CASE i \in 1..(n - 1)
      <4>1. order[i] # last
        BY <3>2 DEF OneChain
      <4>2. QED
        BY <3>2, <4>1 DEF OneChain, TypeOK
    <3>3. QED
      BY <3>1, <3>2
  <2>5. \A i \in 1..n : prev'[order'[i + 1]] = order'[i]
    <3> SUFFICES ASSUME NEW i \in 1..n PROVE prev'[order'[i + 1]] = order'[i]
      OBVIOUS
    <3>1. CASE i = n
      BY <3>1 DEF OneChain, TypeOK
    <3>2. CASE i \in 1..(n - 1)
      BY <3>2 DEF OneChain, TypeOK
    <3>3. QED
      BY <3>1, <3>2
  <2>6. next'[last'] = NIL /\ prev'[INNER] = NIL
    BY DEF OneChain, TypeOK, AddNode, Node
  <2>7. Len(order') = n + 1 /\ Len(order') - 1 = n
    OBVIOUS
  <2>8. QED
    BY ONLY <2>1, <2>2, <2>3, <2>4, <2>5, <2>6, <2>7 DEF OneChain
<1>7. LiveIsReachable'
  <2>1. live = {order[i] : i \in 2..n} /\ live' = live \cup {new}
    BY <1>1 DEF LiveIsReachable, AddNode, From
  <2>2. {order'[i] : i \in 2..(n + 1)} = {order[i] : i \in 2..n} \cup {new}
    BY <1>1, <1>2
  <2>3. QED
    BY <1>2, <1>4, <2>1, <2>2 DEF LiveIsReachable, From
<1>8. AssertsHold'
  BY <1>4 DEF AssertsHold
<1>9. QED
  BY <1>5, <1>6, <1>7, <1>8

(* list_pop: the chain loses its last node and nothing else changes. *)
LEMMA PopNodeIInv ==
  ASSUME IInv, PopNode
  PROVE  IInv'
<1> USE AddrAssumption DEF IInv, WellLinked
<1> DEFINE n == Len(order)
<1>1. /\ n \in Nat /\ n >= 2 /\ n = length
      /\ order \in [1..n -> Node] /\ order \in Seq(Node)
  <2>1. n \in Nat /\ order \in [1..n -> Node] /\ order \in Seq(Node)
    BY LenProperties DEF TypeOK
  <2>2. length \in Nat /\ n = IF length = 0 THEN 1 ELSE length
    BY DEF TypeOK, OneChain
  <2>3. n # 1
    BY DEF OneChain, PopNode
  <2>4. QED
    BY <2>1, <2>2, <2>3
<1>2. /\ order' \in Seq(Node) /\ Len(order') = n - 1
      /\ \A i \in 1..(n - 1) : order'[i] = order[i]
  <2>1. order' = SubSeq(order, 1, Len(order) - 1)
    BY DEF PopNode
  <2>2. QED
    BY <1>1, <2>1, FrontFacts
<1>3. /\ last = order[n] /\ prev[last] = order[n - 1] /\ prev[last] \in Node
      /\ last \in Addr
  <2>1. last = order[n] /\ prev[last] = order[n - 1]
    <3>1. n - 1 \in 1..(n - 1) /\ n - 1 + 1 = n
      BY <1>1
    <3>2. QED
      BY <3>1 DEF OneChain
  <2>2. last # INNER
    BY DEF PopNode, OneChain
  <2>3. QED
    BY <1>1, <2>1, <2>2 DEF TypeOK, Node
<1>4. /\ next' = [next EXCEPT ![order[n - 1]] = NIL]
      /\ last' = order[n - 1] /\ prev' = prev /\ length' = n - 1
  BY <1>1, <1>3 DEF PopNode
<1>5. TypeOK'
  BY <1>1, <1>2, <1>3, <1>4 DEF TypeOK, PopNode, Node, Payload, Phases
<1>6. OneChain'
  <2> USE <1>1, <1>2, <1>3, <1>4
  <2>1. Len(order') = IF length' = 0 THEN 1 ELSE length'
    OBVIOUS
  <2>2. order'[1] = INNER /\ order'[Len(order')] = last'
    BY DEF OneChain
  <2>3. \A i, j \in 1..(n - 1) : order'[i] = order'[j] => i = j
    <3> TAKE i, j \in 1..(n - 1)
    <3>1. order'[i] = order[i] /\ order'[j] = order[j] /\ i \in 1..n /\ j \in 1..n
      OBVIOUS
    <3>2. QED
      BY <3>1 DEF OneChain
  <2>4. \A i \in 1..(n - 2) : /\ next'[order'[i]] = order'[i + 1]
                             /\ prev'[order'[i + 1]] = order'[i]
    <3> TAKE i \in 1..(n - 2)
    <3>1. /\ order'[i] = order[i] /\ order'[i + 1] = order[i + 1]
          /\ i \in 1..n /\ n - 1 \in 1..n /\ i # n - 1
      OBVIOUS
    <3>2. order[i] # order[n - 1]
      BY <3>1 DEF OneChain
    <3>3. next[order[i]] = order[i + 1] /\ prev[order[i + 1]] = order[i]
      <4>1. i \in 1..(n - 1)
        OBVIOUS
      <4>2. QED
        BY <4>1 DEF OneChain
    <3>4. QED
      BY <3>1, <3>2, <3>3 DEF TypeOK
  <2>5. next'[last'] = NIL /\ prev'[INNER] = NIL
    BY DEF OneChain, TypeOK
  <2>6. Len(order') = n - 1 /\ Len(order') - 1 = n - 2
    OBVIOUS
  <2>7. QED
    BY ONLY <2>1, <2>2, <2>3, <2>4, <2>5, <2>6 DEF OneChain
<1>7. LiveIsReachable'
  <2>1. live = {order[i] : i \in 2..n} /\ phase' = "ready" /\ live' = live \ {order[n]}
    BY <1>3 DEF LiveIsReachable, PopNode, From
  <2>2. \A i \in 2..(n - 1) : order'[i] = order[i] /\ order[i] # order[n]
    <3> TAKE i \in 2..(n - 1)
    <3>1. i \in 1..n /\ n \in 1..n /\ i # n /\ i \in 1..(n - 1)
      BY <1>1
    <3>2. QED
      BY <1>2, <3>1 DEF OneChain
  <2>3. \A i \in 2..n : i = n \/ i \in 2..(n - 1)
    BY <1>1
  <2>4. {order'[i] : i \in 2..(n - 1)} = {order[i] : i \in 2..n} \ {order[n]}
    BY <1>1, <2>2, <2>3
  <2>5. QED
    BY <1>2, <2>1, <2>4 DEF LiveIsReachable, From
<1>8. AssertsHold'
  BY DEF AssertsHold, PopNode
<1>9. QED
  BY <1>5, <1>6, <1>7, <1>8

(* The operations that leave the chain alone: only `phase`, `cursor`,      *)
(* `released` and, while freeing, `live` change.                           *)
LEMMA SameChain ==
  ASSUME OneChain, UNCHANGED <<next, prev, last, length, order>>
  PROVE  OneChain'
BY DEF OneChain

LEMMA AddInnerIInv ==
  ASSUME IInv, NEW e \in Payload, AddInner(e)
  PROVE  IInv'
<1> USE DEF IInv, WellLinked
<1>1. TypeOK'
  BY AddrAssumption DEF TypeOK, AddInner, Node
<1>2. OneChain'
  BY DEF OneChain, AddInner
<1>3. LiveIsReachable' /\ AssertsHold'
  <2>1. From(2)' = From(2)
    BY DEF From, AddInner
  <2>2. QED
    BY <2>1 DEF LiveIsReachable, AssertsHold, AddInner
<1>4. QED
  BY <1>1, <1>2, <1>3

(* Starting list_free: the cursor is the second node, if there is one. *)
LEMMA FreeStartIInv ==
  ASSUME IInv, FreeStart
  PROVE  IInv'
<1> USE DEF IInv, WellLinked
<1> DEFINE n == Len(order)
<1>1. n \in Nat /\ n >= 1
  BY LenProperties DEF TypeOK, OneChain, FreeStart
<1>2. TypeOK'
  BY AddrAssumption DEF TypeOK, FreeStart, Node, Phases
<1>3. OneChain'
  BY SameChain DEF FreeStart
<1>4. next[INNER] = At(2)
  <2>1. CASE n = 1
    <3>1. last = INNER /\ At(2) = NIL
      BY <2>1 DEF OneChain, At
    <3>2. QED
      BY <3>1 DEF OneChain
  <2>2. CASE n >= 2
    <3>1. 1 \in 1..(n - 1) /\ 1 + 1 = 2
      BY <1>1, <2>2
    <3>2. next[order[1]] = order[2]
      BY <3>1 DEF OneChain
    <3>3. QED
      BY <2>2, <3>2 DEF OneChain, At
  <2>3. n = 1 \/ n >= 2
    <3> HIDE DEF n
    <3>1. QED
      BY ONLY <1>1
  <2>4. QED
    BY <2>1, <2>2, <2>3
<1>5. LiveIsReachable'
  <2>1. live' = From(2)' /\ phase' = "freeing"
    BY DEF LiveIsReachable, FreeStart, From
  <2>2. 2 \in 2..(Len(order') + 1)
    BY <1>1 DEF FreeStart
  <2>3. cursor' = At(2)'
    BY <1>4 DEF FreeStart, At
  <2>4. QED
    BY <2>1, <2>2, <2>3 DEF LiveIsReachable
<1>6. AssertsHold'
  BY DEF AssertsHold, FreeStart
<1>7. QED
  BY <1>2, <1>3, <1>5, <1>6

(* Releasing one node: the cursor moves along the chain, and the back link *)
(* of the next node is the one the assertion expects.                      *)
LEMMA FreeNodeIInv ==
  ASSUME IInv, FreeNode
  PROVE  IInv'
<1> USE DEF IInv, WellLinked
<1> DEFINE n == Len(order)
<1>1. n \in Nat /\ order \in [1..n -> Node]
  BY LenProperties DEF TypeOK
<1>2. PICK k \in 2..(n + 1) : cursor = At(k) /\ live = From(k)
  BY DEF LiveIsReachable, FreeNode
<1>3. k \in 2..n /\ cursor = order[k]
  BY <1>1, <1>2 DEF FreeNode, At
<1>4. /\ next[cursor] = At(k + 1)
      /\ k + 1 <= n => prev[order[k + 1]] = cursor
  <2>1. CASE k = n
    BY <1>1, <1>3, <2>1 DEF OneChain, At
  <2>2. CASE k < n
    <3>1. k \in 1..(n - 1) /\ k + 1 <= n
      BY <1>1, <1>3, <2>2
    <3>2. QED
      BY <1>3, <3>1 DEF OneChain, At
  <2>3. QED
    BY <1>1, <1>3, <2>1, <2>2
<1>5. phase' = "freeing" /\ cursor' = At(k + 1)'
  <2>1. cursor' = At(k + 1) /\ At(k + 1)' = At(k + 1)
    BY <1>4 DEF FreeNode, At
  <2>2. phase' = "freeing"
    BY <1>3, <1>4 DEF FreeNode, At
  <2>3. QED
    BY <2>1, <2>2
<1>6. TypeOK'
  <2>1. released' \in Seq(Elt)
    BY <1>1, <1>3, AppendFacts DEF TypeOK, FreeNode, Release, Payload
  <2>2. cursor' \in Node \cup {NIL}
    BY DEF TypeOK, FreeNode, Node
  <2>3. QED
    BY <1>5, <2>1, <2>2 DEF TypeOK, FreeNode, Phases
<1>7. OneChain'
  BY SameChain DEF FreeNode
<1>8. LiveIsReachable'
  <2>1. order' = order /\ live' = From(k) \ {order[k]}
    BY <1>2, <1>3 DEF FreeNode
  <2>2. \A i \in (k + 1)..n : order[i] # order[k]
    <3> TAKE i \in (k + 1)..n
    <3>1. i \in 1..n /\ k \in 1..n /\ i # k
      BY <1>1, <1>3
    <3>2. QED
      BY <3>1 DEF OneChain
  <2>3. /\ \A i \in k..n : i = k \/ i \in (k + 1)..n
        /\ \A i \in (k + 1)..n : i \in k..n
    BY <1>1, <1>3
  <2>4. From(k) \ {order[k]} = From(k + 1)
    BY <2>2, <2>3 DEF From
  <2>5. k + 1 \in 2..(Len(order') + 1)
    BY <1>1, <1>3, <2>1
  <2>6. live' = From(k + 1)'
    BY <2>1, <2>4 DEF From
  <2>7. QED
    BY <1>5, <2>5, <2>6 DEF LiveIsReachable
<1>9. AssertsHold'
  BY <1>5 DEF AssertsHold
<1>10. QED
  BY <1>6, <1>7, <1>8, <1>9

LEMMA FreeInnerIInv ==
  ASSUME IInv, FreeInner
  PROVE  IInv'
<1> USE DEF IInv, WellLinked
<1>1. Len(order) \in Nat /\ order \in [1..Len(order) -> Node]
  BY LenProperties DEF TypeOK
<1>2. TypeOK'
  <2>1. released' \in Seq(Elt)
    BY AppendFacts DEF TypeOK, FreeInner, Release, Payload, Node
  <2>2. QED
    BY <2>1 DEF TypeOK, FreeInner, Phases
<1>3. OneChain'
  BY SameChain DEF FreeInner
<1>4. LiveIsReachable'
  <2>1. PICK k \in 2..(Len(order) + 1) : cursor = At(k) /\ live = From(k)
    BY DEF LiveIsReachable, FreeInner
  <2>2. k = Len(order) + 1
    <3>1. NIL \notin Node
      BY AddrAssumption DEF Node
    <3>2. ~ (k <= Len(order))
      BY <1>1, <2>1, <3>1 DEF FreeInner, At
    <3>3. QED
      BY <1>1, <2>1, <3>2
  <2>3. live = {}
    BY <1>1, <2>1, <2>2 DEF From
  <2>4. QED
    BY <2>3 DEF LiveIsReachable, FreeInner
<1>5. AssertsHold'
  BY DEF AssertsHold, FreeInner
<1>6. QED
  BY <1>2, <1>3, <1>4, <1>5

(* list_pop of the embedded node and list_free of an empty list. *)
LEMMA PhaseOnlyIInv ==
  ASSUME IInv, PopInner \/ FreeEmpty
  PROVE  IInv'
<1> USE DEF IInv, WellLinked
<1>1. TypeOK'
  BY DEF TypeOK, PopInner, FreeEmpty, Phases
<1>2. OneChain'
  BY SameChain DEF PopInner, FreeEmpty
<1>3. LiveIsReachable'
  <2>1. CASE PopInner
    <3>1. From(2)' = From(2)
      BY <2>1 DEF From, PopInner
    <3>2. QED
      BY <2>1, <3>1 DEF LiveIsReachable, PopInner
  <2>2. CASE FreeEmpty
    <3>1. Len(order) = 1
      BY <2>2 DEF OneChain, FreeEmpty
    <3>2. live = {}
      BY <2>2, <3>1 DEF LiveIsReachable, FreeEmpty, From
    <3>3. QED
      BY <2>2, <3>2 DEF LiveIsReachable, FreeEmpty
  <2>3. QED
    BY <2>1, <2>2
<1>4. AssertsHold'
  BY DEF AssertsHold, PopInner, FreeEmpty
<1>5. QED
  BY <1>1, <1>2, <1>3, <1>4

LEMMA StutterIInv ==
  ASSUME IInv, UNCHANGED vars
  PROVE  IInv'
<1> USE DEF IInv, WellLinked, vars
<1>1. TypeOK' /\ AssertsHold'
  BY DEF TypeOK, AssertsHold
<1>2. OneChain'
  BY SameChain
<1>3. \A k : From(k)' = From(k) /\ At(k)' = At(k)
  BY DEF From, At
<1>4. LiveIsReachable'
  BY <1>3 DEF LiveIsReachable
<1>5. QED
  BY <1>1, <1>2, <1>4

(* Every step keeps the invariant. *)
LEMMA NextIInv == IInv /\ [Next]_vars => IInv'
<1> SUFFICES ASSUME IInv, [Next]_vars PROVE IInv'
  OBVIOUS
<1>1. ASSUME NEW e \in Payload, AddInner(e) PROVE IInv'
  BY <1>1, AddInnerIInv
<1>2. ASSUME NEW e \in Payload, NEW new \in Addr, AddNode(e, new) PROVE IInv'
  BY <1>2, AddNodeIInv
<1>3. CASE PopNode
  BY <1>3, PopNodeIInv
<1>4. CASE PopInner \/ FreeEmpty
  BY <1>4, PhaseOnlyIInv
<1>5. CASE FreeStart
  BY <1>5, FreeStartIInv
<1>6. CASE FreeNode
  BY <1>6, FreeNodeIInv
<1>7. CASE FreeInner
  BY <1>7, FreeInnerIInv
<1>8. CASE UNCHANGED vars
  BY <1>8, StutterIInv
<1>9. QED
  BY <1>1, <1>2, <1>3, <1>4, <1>5, <1>6, <1>7, <1>8 DEF Next

(* So the invariant holds throughout. *)
LEMMA Invariance == Spec => []IInv
BY InitIInv, NextIInv, PTL DEF Spec

(* Every list operation leaves fields, counters and history of their types.*)
THEOREM LinkedListTypeOK == Spec => []TypeOK
<1>1. IInv => TypeOK
  BY DEF IInv
<1>2. QED
  BY <1>1, Invariance, PTL

(* At every moment of a list's life its nodes form one chain, linked both  *)
(* ways; what is allocated is what is reachable; and the assertions of     *)
(* list_append and node_free never fail.                                   *)
THEOREM LinkedListWellLinked == Spec => []WellLinked
<1>1. IInv => WellLinked
  BY DEF IInv
<1>2. QED
  BY <1>1, Invariance, PTL

-----------------------------------------------------------------------------
(* The list implements SeqList.  Items is a sequence of `length` payloads. *)
LEMMA ItemsSeq ==
  ASSUME IInv
  PROVE  /\ length \in Nat /\ Items \in Seq(Payload) /\ Len(Items) = length
         /\ \A i \in 1..length : Items[i] = elt[order[i]] /\ order[i] \in Node
         /\ length > 0 => Len(order) = length
<1>1. length \in Nat /\ Len(order) = IF length = 0 THEN 1 ELSE length
  BY DEF IInv, WellLinked, TypeOK, OneChain
<1>2. \A i \in 1..length : order[i] \in Node /\ elt[order[i]] \in Payload
  BY <1>1, ElementOfSeq DEF IInv, TypeOK
<1>3. Items \in Seq(Payload) /\ Len(Items) = length
  BY <1>1, <1>2 DEF Items
<1>4. QED
  BY <1>1, <1>2, <1>3 DEF Items

(* A new list is the empty sequence. *)
LEMMA RefineInit == Init => Abstract!Init
BY DEF Init, Abstract!Init, Items

(* Steps that leave the payloads alone. *)
LEMMA SameItems ==
  ASSUME UNCHANGED <<elt, order, length>>
  PROVE  Items' = Items
BY DEF Items

LEMMA RefineAddInner ==
  ASSUME IInv, IInv', NEW e \in Payload, AddInner(e)
  PROVE  Abstract!Add(e)
<1>1. Items = <<>> /\ Len(Items) = 0
  BY ItemsSeq DEF AddInner, Items
<1>2. order[1] = INNER /\ order' = order /\ length' = 1 /\ elt'[INNER] = e
  BY DEF AddInner, IInv, WellLinked, OneChain, TypeOK, Node
<1>3. Items' = <<e>>
  BY <1>2 DEF Items
<1>4. Items' = Append(Items, e)
  BY <1>1, <1>3
<1>5. QED
  BY <1>4 DEF Abstract!Add, AddInner

LEMMA RefineAddNode ==
  ASSUME IInv, IInv', NEW e \in Payload, NEW new \in Addr, AddNode(e, new)
  PROVE  Abstract!Add(e)
<1>1. /\ length \in Nat /\ length > 0 /\ Len(order) = length /\ length' = length + 1
      /\ Items \in Seq(Payload) /\ Len(Items) = length
      /\ \A i \in 1..length : Items[i] = elt[order[i]] /\ order[i] \in Node
  BY ItemsSeq DEF AddNode
<1>2. /\ Items' \in Seq(Payload) /\ Len(Items') = length + 1
      /\ \A i \in 1..(length + 1) : Items'[i] = elt'[order'[i]]
  <2>1. /\ Items' \in Seq(Payload) /\ Len(Items') = length'
        /\ \A i \in 1..length' : Items'[i] = elt'[order'[i]]
    BY AddrAssumption, ItemsSeq DEF Items, IInv, WellLinked, TypeOK, OneChain
  <2>2. QED
    BY <1>1, <2>1
<1>3. /\ \A i \in 1..length : order'[i] = order[i]
      /\ order'[length + 1] = new
  BY <1>1, AppendFacts DEF AddNode, IInv, TypeOK, Node
<1>4. \A i \in 1..length : order[i] # new
  <2>1. live = From(2) /\ order[1] = INNER /\ new \notin live
    BY DEF AddNode, IInv, WellLinked, LiveIsReachable, OneChain
  <2>2. QED
    BY <1>1, <2>1, AddrAssumption DEF From
<1>5. \A i \in 1..length : Items'[i] = Items[i]
  BY <1>1, <1>2, <1>3, <1>4 DEF AddNode, IInv, TypeOK
<1>6. Items'[length + 1] = e
  BY <1>1, <1>2, <1>3 DEF AddNode, IInv, TypeOK, Node
<1>7. /\ Append(Items, e) \in Seq(Payload) /\ Len(Append(Items, e)) = length + 1
      /\ \A i \in 1..length : Append(Items, e)[i] = Items[i]
      /\ Append(Items, e)[length + 1] = e
  BY <1>1, AppendFacts
<1>8. \A i \in 1..(length + 1) : Items'[i] = Append(Items, e)[i]
  <2>1. \A i \in 1..(length + 1) : i = length + 1 \/ i \in 1..length
    BY <1>1
  <2>2. QED
    BY <1>5, <1>6, <1>7, <2>1
<1>9. Items' = Append(Items, e)
  BY <1>2, <1>7, <1>8, SeqEqual
<1>10. phase = "ready" /\ phase' = "ready"
  BY DEF AddNode, IInv, WellLinked, AssertsHold
<1>11. QED
  BY <1>9, <1>10 DEF Abstract!Add

LEMMA RefinePopNode ==
  ASSUME IInv, IInv', PopNode
  PROVE  Abstract!Pop
<1>1. /\ length \in Nat /\ Items \in Seq(Payload) /\ Len(Items) = length
      /\ \A i \in 1..length : Items[i] = elt[order[i]]
  BY ItemsSeq
<1>2. length >= 2 /\ Len(order) = length /\ order \in Seq(Node)
  <2>1. Len(order) # 1
    BY DEF PopNode, IInv, WellLinked, OneChain
  <2>2. Len(order) = IF length = 0 THEN 1 ELSE length
    BY DEF IInv, WellLinked, OneChain
  <2>3. QED
    BY <1>1, <2>1, <2>2 DEF IInv, TypeOK
<1>3. length' = length - 1 /\ elt' = elt /\ order' = SubSeq(order, 1, Len(order) - 1)
  BY DEF PopNode
<1>4. \A i \in 1..(length - 1) : order'[i] = order[i]
  BY <1>2, <1>3, FrontFacts
<1>5. /\ Items' \in Seq(Payload) /\ Len(Items') = length - 1
      /\ \A i \in 1..(length - 1) : Items'[i] = elt[order'[i]]
  <2>1. \A i \in 1..(length - 1) : order'[i] \in Node /\ elt[order'[i]] \in Payload
    BY <1>2, <1>4, ElementOfSeq DEF IInv, TypeOK
  <2>2. Items' = [i \in 1..(length - 1) |-> elt[order'[i]]]
    BY <1>3 DEF Items
  <2>3. QED
    BY <1>1, <1>2, <2>1, <2>2
<1>6. \A i \in 1..(length - 1) : Items'[i] = Items[i]
  BY <1>1, <1>4, <1>5
<1>7. PICK f : f = SubSeq(Items, 1, Len(Items) - 1)
  OBVIOUS
<1>8. /\ f \in Seq(Payload) /\ Len(f) = length - 1
      /\ \A i \in 1..(length - 1) : f[i] = Items[i]
  BY <1>1, <1>2, <1>7, FrontFacts
<1>9. Items' = f
  BY <1>5, <1>6, <1>8, SeqEqual
<1>10. QED
  BY <1>1, <1>2, <1>7, <1>9 DEF Abstract!Pop, PopNode

(* Every step is a step of the sequence or changes nothing of it. *)
LEMMA RefineNext ==
  IInv /\ IInv' /\ [Next]_vars => [Abstract!Next]_(Abstract!vars)
<1> SUFFICES ASSUME IInv, IInv', [Next]_vars
             PROVE  Abstract!Next \/ UNCHANGED Abstract!vars
  OBVIOUS
<1>1. ASSUME NEW e \in Payload, AddInner(e) PROVE Abstract!Next
  BY <1>1, RefineAddInner DEF Abstract!Next
<1>2. ASSUME NEW e \in Payload, NEW new \in Addr, AddNode(e, new)
      PROVE  Abstract!Next
  BY <1>2, RefineAddNode DEF Abstract!Next
<1>3. CASE PopNode
  BY <1>3, RefinePopNode DEF Abstract!Next
<1>4. CASE PopInner
  <2>1. Len(Items) <= 1
    <3>1. Len(order) <= 1
      <4>1. Len(order) \in Nat /\ last = order[Len(order)]
        BY LenProperties DEF IInv, TypeOK, WellLinked, OneChain
      <4>2. ASSUME Len(order) >= 2 PROVE FALSE
        <5>1. PICK m \in Nat : m = Len(order) - 1 /\ m + 1 = Len(order) /\ m >= 1
          BY <4>1, <4>2
        <5>2. prev[order[m + 1]] = order[m]
          <6>1. m \in 1..(Len(order) - 1)
            BY <4>1, <5>1
          <6>2. OneChain
            BY DEF IInv, WellLinked
          <6>3. QED
            BY ONLY <6>1, <6>2 DEF OneChain
        <5>3. order[m] \in Node /\ last = order[m + 1]
          BY <4>1, <5>1, ElementOfSeq DEF IInv, TypeOK
        <5>4. QED
          BY <1>4, <5>2, <5>3, AddrAssumption DEF PopInner, Node
      <4>3. QED
        BY <4>1, <4>2
    <3>2. QED
      BY <3>1, ItemsSeq
  <2>2. Items' = Items
    BY <1>4, SameItems DEF PopInner
  <2>3. QED
    BY <1>4, <2>1, <2>2 DEF PopInner, Abstract!Next, Abstract!PopIllegal
<1>5. CASE FreeEmpty \/ FreeInner
  <2>1. Items' = Items
    BY <1>5, SameItems DEF FreeEmpty, FreeInner
  <2>2. QED
    BY <1>5, <2>1 DEF FreeEmpty, FreeInner, Abstract!Next, Abstract!Free
<1>6. CASE FreeStart \/ FreeNode
  <2>1. Items' = Items
    BY <1>6, SameItems DEF FreeStart, FreeNode
  <2>2. phase \in {"ready", "freeing"} /\ phase' = "freeing"
    BY <1>6 DEF FreeStart, FreeNode, IInv, WellLinked, AssertsHold
  <2>3. QED
    BY <2>1, <2>2 DEF Abstract!vars
<1>7. CASE UNCHANGED vars
  <2>1. Items' = Items
    BY <1>7, SameItems DEF vars
  <2>2. QED
    BY <1>7, <2>1 DEF vars, Abstract!vars
<1>8. QED
  BY <1>1, <1>2, <1>3, <1>4, <1>5, <1>6, <1>7 DEF Next

(* Every behaviour of the linked list is a behaviour of a plain sequence   *)
(* that grows and shrinks at its end and is destroyed once.                *)
THEOREM LinkedListImplementsSeqList == Spec => ImplementsSeqList
BY RefineInit, RefineNext, Invariance, PTL
   DEF Spec, ImplementsSeqList, Abstract!Spec

-----------------------------------------------------------------------------
(* The traversals and the destructor.  What a recursive function computes  *)
(* is proved by its least counterexample.                                  *)

(* A set of naturals that is not empty has a least element.                *)
LEMMA LessWellFounded ==
  \E R : IsWellFoundedOn(R, Nat) /\ \A x, y \in Nat : x < y => <<x, y>> \in R
<1>1. IsWellFoundedOn(OpToRel(<, Nat), Nat)
  BY NatLessThanWellFounded
<1>2. \A x, y \in Nat : x < y => <<x, y>> \in OpToRel(<, Nat)
  BY DEF OpToRel
<1> QED
  BY <1>1, <1>2

LEMMA Least ==
  ASSUME NEW U, U \subseteq Nat, U # {}
  PROVE  \E u \in U : \A y \in U : u <= y
<1>1. PICK R : IsWellFoundedOn(R, Nat) /\ \A x, y \in Nat : x < y => <<x, y>> \in R
  BY LessWellFounded
<1>2. \E u \in U : \A y \in U : ~(<<y, u>> \in R)
  <2>1. IsWellFoundedOn(R, Nat)
    BY <1>1
  <2> QED
    BY <2>1, WFMin
<1>3. PICK u \in U : \A y \in U : ~(<<y, u>> \in R)
  BY <1>2
<1>4. ASSUME NEW y \in U PROVE u <= y
  <2>1. u \in Nat /\ y \in Nat
    OBVIOUS
  <2>2. ~(<<y, u>> \in R)
    BY <1>3
  <2>3. ~(y < u)
    BY <1>1, <2>1, <2>2
  <2> QED
    BY <2>1, <2>3
<1> QED
  BY <1>4

(* The recursion of NonNull, cut off at sequences of n elements.           *)
Shorts(n) == {s \in Seq(Payload) : Len(s) <= n}
Front(s) == SubSeq(s, 1, Len(s) - 1)
Step(f, s) ==
  IF s = <<>> THEN <<>>
  ELSE LET rest == f[Front(s)]
       IN  IF s[Len(s)] = NIL THEN rest ELSE Append(rest, s[Len(s)])
Selects(f, n) == f = [s \in Shorts(n) |-> Step(f, s)]

(* The rest of a sequence is a shorter one. *)
LEMMA FrontShorter ==
  ASSUME NEW s \in Seq(Payload), s # <<>>
  PROVE  /\ Front(s) \in Seq(Payload)
         /\ Len(s) \in Nat /\ Len(s) >= 1
         /\ Len(Front(s)) = Len(s) - 1
<1>1. Len(s) \in Nat /\ Len(s) >= 1
  BY EmptySeq, LenProperties
<1> QED
  BY <1>1, FrontFacts DEF Front

(* Up to every length there is a function that satisfies the recursion ... *)
LEMMA SelectsNext ==
  ASSUME NEW n \in Nat, NEW f, Selects(f, n)
  PROVE  \E g : Selects(g, n + 1)
<1> DEFINE g == [s \in Shorts(n + 1) |-> Step(f, s)]
<1>1. ASSUME NEW s \in Shorts(n + 1) PROVE Step(f, s) = Step(g, s)
  <2>1. CASE s = <<>>
    BY <2>1 DEF Step
  <2>2. CASE s # <<>>
    <3>1. Front(s) \in Shorts(n) /\ Front(s) \in Shorts(n + 1)
      BY <2>2, FrontShorter DEF Shorts
    <3>2. f[Front(s)] = g[Front(s)]
      BY <3>1 DEF Selects
    <3> HIDE DEF g
    <3> QED
      BY <3>2 DEF Step
  <2> QED
    BY <2>1, <2>2
<1>2. g = [s \in Shorts(n + 1) |-> Step(g, s)]
  <2> DEFINE h == [s \in Shorts(n + 1) |-> Step(g, s)]
  <2>1. \A s \in Shorts(n + 1) : Step(f, s) = Step(g, s)
    BY <1>1
  <2>2. \A G : (\A s \in Shorts(n + 1) : Step(f, s) = Step(G, s))
                  => [s \in Shorts(n + 1) |-> Step(f, s)] = [s \in Shorts(n + 1) |-> Step(G, s)]
    OBVIOUS
  <2> QED
    BY <2>1, <2>2
<1> HIDE DEF g
<1> QED
  BY <1>2 DEF Selects

LEMMA SomeSelects == \A n \in Nat : \E f : Selects(f, n)
<1> DEFINE U == {n \in Nat : ~ \E f : Selects(f, n)}
<1>1. SUFFICES ASSUME U # {} PROVE FALSE
  OBVIOUS
<1>2. PICK n \in U : \A m \in U : n <= m
  BY <1>1, Least
<1>3. CASE n = 0
  <2> DEFINE f == [s \in Shorts(0) |-> <<>>]
  <2>1. \A s \in Shorts(0) : s = <<>>
    BY EmptySeq, LenProperties DEF Shorts
  <2>2. \A s \in Shorts(0) : \A h : Step(h, s) = <<>>
    BY <2>1 DEF Step
  <2>3. f = [s \in Shorts(0) |-> Step(f, s)]
    BY <2>2
  <2> HIDE DEF f
  <2> QED
    BY <1>3, <2>3 DEF Selects
<1>4. CASE n > 0
  <2>1. n - 1 \in Nat /\ n = (n - 1) + 1 /\ n - 1 \notin U
    BY <1>2, <1>4
  <2>2. PICK f : Selects(f, n - 1)
    BY <2>1
  <2>3. \E g : Selects(g, (n - 1) + 1)
    BY <2>1, <2>2, SelectsNext
  <2> QED
    BY <2>1, <2>3
<1> QED
  BY <1>3, <1>4

(* ... and any two agree where both are defined.                           *)
LEMMA SameSelects ==
  ASSUME NEW m \in Nat, NEW n \in Nat, NEW f, NEW g, Selects(f, m), Selects(g, n), m <= n
  PROVE  \A s \in Shorts(m) : f[s] = g[s]
<1> DEFINE U == {l \in Nat : \E s \in Shorts(m) : Len(s) = l /\ f[s] # g[s]}
<1>1. SUFFICES ASSUME U # {} PROVE FALSE
  BY LenProperties DEF Shorts
<1>2. PICK l \in U : \A k \in U : l <= k
  BY <1>1, Least
<1>3. PICK s \in Shorts(m) : Len(s) = l /\ f[s] # g[s]
  OBVIOUS
<1>4. s \in Shorts(n) /\ s \in Seq(Payload)
  BY <1>3 DEF Shorts
<1>5. f[s] = Step(f, s) /\ g[s] = Step(g, s)
  BY <1>3, <1>4 DEF Selects
<1>6. s # <<>>
  BY <1>3, <1>5 DEF Step
<1>7. Front(s) \in Shorts(m) /\ Len(Front(s)) \in Nat /\ Len(Front(s)) < l
  BY <1>3, <1>4, <1>6, FrontShorter DEF Shorts
<1>8. f[Front(s)] = g[Front(s)]
  BY <1>2, <1>7
<1> QED
  BY <1>3, <1>5, <1>8 DEF Step

(* So NonNull is what its definition says. *)
LEMMA NonNullIs == \A s \in Seq(Payload) : NonNull[s] = Step(NonNull, s)
<1> DEFINE up(n) == CHOOSE f : Selects(f, n)
           F == [s \in Seq(Payload) |-> up(Len(s))[s]]
<1>1. \A n \in Nat : Selects(up(n), n)
  BY SomeSelects
<1>2. ASSUME NEW s \in Seq(Payload) PROVE F[s] = Step(F, s)
  <2>1. Len(s) \in Nat /\ s \in Shorts(Len(s))
    BY LenProperties DEF Shorts
  <2>2. F[s] = Step(up(Len(s)), s)
    <3>1. Selects(up(Len(s)), Len(s))
      BY <1>1, <2>1
    <3> HIDE DEF up
    <3> QED
      BY <2>1, <3>1 DEF Selects
  <2>3. CASE s = <<>>
    BY <2>2, <2>3 DEF Step
  <2>4. CASE s # <<>>
    <3> DEFINE r == Front(s)
    <3>1. /\ r \in Seq(Payload) /\ Len(r) = Len(s) - 1 /\ Len(r) \in Nat
          /\ Len(r) <= Len(s) /\ r \in Shorts(Len(r))
      BY <2>1, <2>4, FrontShorter DEF Shorts
    <3>2. Selects(up(Len(r)), Len(r)) /\ Selects(up(Len(s)), Len(s))
      BY <1>1, <2>1, <3>1
    <3>3. up(Len(r))[r] = up(Len(s))[r]
      <4> HIDE DEF up, r
      <4> QED
        BY <2>1, <3>1, <3>2, SameSelects
    <3>4. F[r] = up(Len(s))[r]
      BY <3>1, <3>3
    <3> HIDE DEF F, up
    <3> QED
      BY <2>2, <3>4 DEF Step
  <2> QED
    BY <2>3, <2>4
<1>3. F = [s \in Seq(Payload) |-> Step(F, s)]
  <2>1. \A s \in Seq(Payload) : up(Len(s))[s] = Step(F, s)
    BY <1>2
  <2>2. \A G : (\A s \in Seq(Payload) : up(Len(s))[s] = Step(G, s))
                 => [s \in Seq(Payload) |-> up(Len(s))[s]] = [s \in Seq(Payload) |-> Step(G, s)]
    OBVIOUS
  <2> QED
    BY <2>1, <2>2
<1>4. \E f : f = [s \in Seq(Payload) |-> Step(f, s)]
  <2> HIDE DEF F
  <2> QED
    BY <1>3
<1>5. NonNull = [s \in Seq(Payload) |-> Step(NonNull, s)]
  BY <1>4 DEF NonNull, Step, Front
<1> QED
  BY <1>5

(* A NULL payload is passed over, any other is kept. *)
LEMMA NonNullFacts ==
  /\ NonNull[<<>>] = <<>>
  /\ \A s \in Seq(Payload), e \in Payload :
       NonNull[Append(s, e)] = IF e = NIL THEN NonNull[s] ELSE Append(NonNull[s], e)
<1>1. NonNull[<<>>] = <<>>
  <2>1. <<>> \in Seq(Payload)
    OBVIOUS
  <2> QED
    BY <2>1, NonNullIs DEF Step
<1>2. ASSUME NEW s \in Seq(Payload), NEW e \in Payload
      PROVE  NonNull[Append(s, e)] = IF e = NIL THEN NonNull[s] ELSE Append(NonNull[s], e)
  <2> DEFINE t == Append(s, e)
  <2>1. t \in Seq(Payload) /\ Len(t) = Len(s) + 1 /\ t[Len(t)] = e /\ t # <<>> /\ Len(s) \in Nat
        /\ \A i \in 1..Len(s) : t[i] = s[i]
    BY AppendFacts, LenProperties, EmptySeq
  <2>2. Front(t) \in Seq(Payload) /\ Len(Front(t)) = Len(s) /\ \A i \in 1..Len(s) : Front(t)[i] = t[i]
    <3>1. Len(t) >= 1
      BY <2>1
    <3> HIDE DEF t
    <3>2. PICK f : f = SubSeq(t, 1, Len(t) - 1)
      OBVIOUS
    <3>3. f \in Seq(Payload) /\ Len(f) = Len(t) - 1 /\ \A i \in 1..(Len(t) - 1) : f[i] = t[i]
      BY <2>1, <3>1, <3>2, FrontFacts
    <3> QED
      BY <2>1, <3>2, <3>3 DEF Front
  <2>3. Front(t) = s
    <3> HIDE DEF t
    <3> QED
      BY <2>1, <2>2, SeqEqual
  <2>4. NonNull[t] = Step(NonNull, t)
    BY <2>1, NonNullIs
  <2>5. NonNull[t] = IF e = NIL THEN NonNull[s] ELSE Append(NonNull[s], e)
    <3> HIDE DEF t
    <3> QED
      BY <2>1, <2>3, <2>4 DEF Step
  <2> QED
    BY <2>5
<1> QED
  BY <1>1, <1>2

-----------------------------------------------------------------------------
(* LFOREACH and LFOREACHREV: the i-th node of a walk forwards is the i-th  *)
(* of the chain, the i-th of a walk backwards the i-th from its end.       *)
LEMMA ForwardIs ==
  ASSUME IInv
  PROVE  \A i \in 1..length : ForwardNode[i] = order[i]
<1> DEFINE W(f) == [i \in 1..length |-> IF i = 1 THEN INNER ELSE next[f[i - 1]]]
           h == [i \in 1..length |-> order[i]]
<1>1. /\ length \in Nat
      /\ length > 0 => Len(order) = length
      /\ order[1] = INNER
      /\ \A i \in 1..(Len(order) - 1) : next[order[i]] = order[i + 1]
  BY ItemsSeq DEF IInv, WellLinked, OneChain
<1>2. ASSUME NEW i \in 1..length, i # 1
      PROVE  i - 1 \in 1..length /\ i - 1 \in 1..(Len(order) - 1) /\ (i - 1) + 1 = i
  <2>1. Len(order) = length
    BY <1>1
  <2> QED
    BY <1>1, <1>2, <2>1
<1>3. h = W(h)
  <2>1. \A i \in 1..length : order[i] = IF i = 1 THEN INNER ELSE next[h[i - 1]]
    BY <1>1, <1>2
  <2> QED
    BY <2>1
<1>4. ForwardNode = W(ForwardNode)
  <2>1. \E f : f = W(f)
    BY <1>3
  <2> QED
    BY <2>1 DEF ForwardNode
<1> DEFINE U == {i \in 1..length : ForwardNode[i] # order[i]}
<1>5. SUFFICES ASSUME U # {} PROVE FALSE
  OBVIOUS
<1>6. PICK i \in U : \A j \in U : i <= j
  <2>1. U \subseteq Nat
    BY <1>1
  <2> HIDE DEF U
  <2> QED
    BY <1>5, <2>1, Least
<1>7. ForwardNode[i] = IF i = 1 THEN INNER ELSE next[ForwardNode[i - 1]]
  BY <1>4
<1>8. i # 1
  BY <1>1, <1>7
<1>9. i - 1 \in 1..length /\ i - 1 \notin U
  BY <1>1, <1>2, <1>6, <1>8
<1>10. ForwardNode[i - 1] = order[i - 1]
  BY <1>9
<1> QED
  BY <1>1, <1>2, <1>7, <1>8, <1>10

LEMMA BackwardIs ==
  ASSUME IInv
  PROVE  \A i \in 1..Len(order) : BackwardNode[i] = order[Len(order) + 1 - i]
<1> DEFINE n == Len(order)
           W(f) == [i \in 1..n |-> IF i = 1 THEN last ELSE prev[f[i - 1]]]
           h == [i \in 1..n |-> order[n + 1 - i]]
<1>1. /\ n \in Nat /\ order[n] = last
      /\ \A i \in 1..(n - 1) : prev[order[i + 1]] = order[i]
  BY LenProperties DEF IInv, TypeOK, WellLinked, OneChain
<1> HIDE DEF n
<1>2. \A i \in 1..n : /\ n + 1 - 1 = n
                      /\ i # 1 => /\ i - 1 \in 1..n /\ n + 1 - i \in 1..(n - 1)
                                  /\ n + 1 - (i - 1) = (n + 1 - i) + 1
  BY <1>1
<1>3. h = W(h)
  <2>1. ASSUME NEW i \in 1..n PROVE order[n + 1 - i] = IF i = 1 THEN last ELSE prev[h[i - 1]]
    <3>1. CASE i = 1
      BY <1>1, <1>2, <3>1
    <3>2. CASE i # 1
      <4>1. h[i - 1] = order[n + 1 - (i - 1)]
        BY <1>2, <3>2
      <4> QED
        BY <1>1, <1>2, <3>2, <4>1
    <3> QED
      BY <3>1, <3>2
  <2> QED
    BY <2>1
<1>4. BackwardNode = W(BackwardNode)
  <2>1. \E f : f = W(f)
    BY <1>3
  <2> QED
    BY <2>1 DEF BackwardNode, n
<1> DEFINE U == {i \in 1..n : BackwardNode[i] # order[n + 1 - i]}
<1>5. SUFFICES ASSUME U # {} PROVE FALSE
  BY DEF n
<1>6. PICK i \in U : \A j \in U : i <= j
  <2>1. U \subseteq Nat
    BY <1>1
  <2> HIDE DEF U
  <2> QED
    BY <1>5, <2>1, Least
<1>7. BackwardNode[i] = IF i = 1 THEN last ELSE prev[BackwardNode[i - 1]]
  BY <1>4
<1>8. i # 1
  BY <1>1, <1>2, <1>7
<1>9. i - 1 \in 1..n /\ i - 1 \notin U
  BY <1>1, <1>2, <1>6, <1>8
<1>10. BackwardNode[i - 1] = order[n + 1 - (i - 1)]
  BY <1>9
<1> QED
  BY <1>1, <1>2, <1>7, <1>8, <1>10

(* LFOREACHREV stops at the embedded node. *)
LEMMA StopsAtInner ==
  ASSUME IInv
  PROVE  (CHOOSE k \in 1..Len(order) : prev[BackwardNode[k]] = NIL) = Len(order)
<1> DEFINE n == Len(order)
<1>1. /\ n \in Nat /\ n >= 1 /\ order[1] = INNER /\ prev[INNER] = NIL
      /\ \A i \in 1..(n - 1) : prev[order[i + 1]] = order[i]
      /\ \A i \in 1..n : order[i] # NIL
  <2>1. NIL \notin Node
    BY AddrAssumption DEF Node
  <2> QED
    BY <2>1, LenProperties, ElementOfSeq DEF IInv, TypeOK, WellLinked, OneChain
<1>2. \A i \in 1..n : BackwardNode[i] = order[n + 1 - i]
  BY BackwardIs
<1> HIDE DEF n
<1>3. n \in 1..n /\ prev[BackwardNode[n]] = NIL
  BY <1>1, <1>2
<1>4. ASSUME NEW k \in 1..n, prev[BackwardNode[k]] = NIL PROVE k = n
  <2>1. CASE k < n
    <3>1. n - k \in 1..(n - 1) /\ (n - k) + 1 = n + 1 - k /\ n - k \in 1..n
      BY <1>1, <2>1
    <3>2. prev[order[n + 1 - k]] = order[n - k]
      BY <1>1, <3>1
    <3> QED
      BY <1>1, <1>2, <1>4, <3>1, <3>2
  <2> QED
    BY <1>1, <2>1
<1>5. (CHOOSE k \in 1..n : prev[BackwardNode[k]] = NIL) = n
  BY <1>3, <1>4
<1> QED
  BY <1>5 DEF n

(* An empty list has nothing in its embedded node.                         *)
EmptyInner == length = 0 => elt[INNER] = NIL

LEMMA EmptyInnerHolds == Spec => []EmptyInner
<1>1. Init => EmptyInner
  BY DEF Init, EmptyInner, Node
<1>2. IInv /\ EmptyInner /\ [Next]_vars => EmptyInner'
  <2> SUFFICES ASSUME IInv, EmptyInner, [Next]_vars PROVE EmptyInner'
    OBVIOUS
  <2>1. length \in Nat
    BY DEF IInv, TypeOK
  <2>2. ASSUME NEW e \in Payload, AddInner(e) PROVE EmptyInner'
    BY <2>2 DEF AddInner, EmptyInner
  <2>3. ASSUME NEW e \in Payload, NEW new \in Addr, AddNode(e, new) PROVE EmptyInner'
    BY <2>1, <2>3 DEF AddNode, EmptyInner
  <2>4. CASE PopNode
    <3>1. length >= 2
      <4>1. prev[INNER] = NIL /\ Len(order) = (IF length = 0 THEN 1 ELSE length)
            /\ order[1] = INNER /\ order[Len(order)] = last
        BY DEF IInv, WellLinked, OneChain
      <4>2. last # INNER
        BY <2>4, <4>1 DEF PopNode
      <4> QED
        BY <2>1, <4>1, <4>2
    <3> QED
      BY <2>1, <2>4, <3>1 DEF PopNode, EmptyInner
  <2>5. CASE PopInner \/ FreeEmpty \/ FreeStart \/ FreeNode \/ FreeInner \/ UNCHANGED vars
    BY <2>5 DEF PopInner, FreeEmpty, FreeStart, FreeNode, FreeInner, vars, EmptyInner
  <2> QED
    BY <2>2, <2>3, <2>4, <2>5 DEF Next
<1> QED
  BY <1>1, <1>2, Invariance, PTL DEF Spec

(* Both traversals of util.h show the list the operations describe.        *)
THEOREM LinkedListWalksAgree == Spec => []WalksAgree
<1>1. ASSUME IInv, EmptyInner PROVE WalksAgree
  <2> DEFINE n == Len(order)
  <2>1. n \in Nat /\ length \in Nat /\ n = (IF length = 0 THEN 1 ELSE length)
        /\ order[1] = INNER
    BY <1>1 DEF IInv, TypeOK, WellLinked, OneChain
  <2>2. ForEach = Items
    BY <1>1, ForwardIs DEF ForEach, Items
  <2>3. ForEachRev = NonNull[[i \in 1..n |-> elt[order[n + 1 - i]]]]
    <3>1. ForEachRev = NonNull[[i \in 1..n |-> elt[BackwardNode[i]]]]
      BY <1>1, StopsAtInner DEF ForEachRev
    <3>2. [i \in 1..n |-> elt[BackwardNode[i]]] = [i \in 1..n |-> elt[order[n + 1 - i]]]
      BY <1>1, BackwardIs
    <3> QED
      BY <3>1, <3>2
  <2>4. CASE length = 0
    <3>1. n = 1 /\ elt[order[1]] = NIL
      BY <1>1, <2>1, <2>4 DEF EmptyInner
    <3>2. ForEachRev = NonNull[<<NIL>>]
      <4>1. [i \in 1..n |-> elt[order[n + 1 - i]]] = <<NIL>>
        BY <3>1
      <4> QED
        BY <2>3, <4>1
    <3>3. <<>> \in Seq(Payload) /\ NIL \in Payload /\ Append(<<>>, NIL) = <<NIL>>
      BY DEF Payload
    <3>4. NonNull[<<NIL>>] = <<>>
      BY <3>3, NonNullFacts
    <3>5. [i \in 1..length |-> Items[length + 1 - i]] = <<>>
      BY <2>4
    <3> QED
      BY <2>2, <3>2, <3>4, <3>5, NonNullFacts DEF WalksAgree
  <2>5. CASE length > 0
    <3>1. \A i \in 1..length : length + 1 - i \in 1..length
      BY <2>1
    <3>2. [i \in 1..n |-> elt[order[n + 1 - i]]] = [i \in 1..length |-> Items[length + 1 - i]]
      BY <2>1, <2>5, <3>1 DEF Items
    <3> QED
      BY <2>2, <2>3, <3>2 DEF WalksAgree
  <2> QED
    BY <2>1, <2>4, <2>5
<1> QED
  BY <1>1, Invariance, EmptyInnerHolds, PTL

-----------------------------------------------------------------------------
(* list_free: what was handed to the destructor when the cursor stands at  *)
(* position k are the payloads of the nodes 2 to k - 1.                    *)
Behind(k) == [i \in 1..(k - 2) |-> Items[i + 1]]

FreeInv ==
  /\ phase = "ready" => released = <<>>
  /\ phase = "freeing" =>
       /\ length > 0
       /\ \E k \in 2..(Len(order) + 1) : cursor = At(k) /\ released = NonNull[Behind(k)]
  /\ ReleasedOnce

LEMMA BehindFacts ==
  ASSUME IInv, length > 0
  PROVE  /\ \A k \in 2..(length + 1) : Behind(k) \in Seq(Payload)
         /\ \A k \in 2..length : Behind(k + 1) = Append(Behind(k), Items[k])
         /\ Behind(length + 1) = Tail(Items)
         /\ Head(Items) = elt[INNER]
         /\ Len(order) = length
<1>1. /\ length \in Nat /\ Items \in Seq(Payload) /\ Len(Items) = length
      /\ Len(order) = length /\ order[1] = INNER
      /\ \A i \in 1..length : Items[i] = elt[order[i]]
  BY ItemsSeq DEF IInv, WellLinked, OneChain
<1>2. \A i \in 1..length : Items[i] \in Payload
  BY <1>1
<1>3. ASSUME NEW k \in 2..(length + 1)
      PROVE  /\ Behind(k) \in Seq(Payload) /\ Len(Behind(k)) = k - 2
             /\ \A i \in 1..(k - 2) : Behind(k)[i] = Items[i + 1]
  <2>1. k - 2 \in Nat /\ \A i \in 1..(k - 2) : i + 1 \in 1..length
    BY <1>1
  <2>2. \A i \in 1..(k - 2) : Items[i + 1] \in Payload
    BY <1>2, <2>1
  <2> QED
    BY <2>1, <2>2 DEF Behind
<1>4. ASSUME NEW k \in 2..length PROVE Behind(k + 1) = Append(Behind(k), Items[k])
  <2>1. k \in 2..(length + 1) /\ k + 1 \in 2..(length + 1) /\ k \in 1..length
    BY <1>1
  <2>2. PICK b : b = Behind(k)
    OBVIOUS
  <2>3. PICK c : c = Behind(k + 1)
    OBVIOUS
  <2>4. /\ b \in Seq(Payload) /\ Len(b) = k - 2 /\ \A i \in 1..(k - 2) : b[i] = Items[i + 1]
        /\ c \in Seq(Payload) /\ Len(c) = k - 1 /\ \A i \in 1..(k - 1) : c[i] = Items[i + 1]
    <3>1. (k + 1) - 2 = k - 1
      BY <2>1
    <3> QED
      BY <1>3, <2>1, <2>2, <2>3, <3>1
  <2>5. Items[k] \in Payload
    BY <1>2, <2>1
  <2>6. PICK a : a = Append(b, Items[k])
    OBVIOUS
  <2>7. /\ a \in Seq(Payload) /\ Len(a) = Len(b) + 1 /\ \A i \in 1..Len(b) : a[i] = b[i]
        /\ a[Len(b) + 1] = Items[k]
    BY <2>4, <2>5, <2>6, AppendFacts
  <2>8. Len(a) = Len(c) /\ Len(b) + 1 = k - 1
    BY <2>1, <2>4, <2>7
  <2>9. \A i \in 1..(k - 1) : a[i] = c[i]
    <3> TAKE i \in 1..(k - 1)
    <3>1. i \in 1..(k - 2) \/ i = k - 1
      BY <2>1
    <3>2. CASE i \in 1..(k - 2)
      BY <2>4, <2>7, <3>2
    <3>3. CASE i = k - 1
      <4>1. i + 1 = k
        BY <2>1, <3>3
      <4> QED
        BY <2>4, <2>7, <2>8, <3>3, <4>1
    <3> QED
      BY <3>1, <3>2, <3>3
  <2>10. a = c
    BY <2>4, <2>7, <2>8, <2>9, SeqEqual
  <2> QED
    BY <2>2, <2>3, <2>6, <2>10
<1>5. Behind(length + 1) = Tail(Items) /\ Head(Items) = elt[INNER]
  <2>1. length + 1 - 2 = length - 1
    BY <1>1
  <2>2. Tail(Items) = Behind(length + 1)
    <3>1. PICK b : b = Behind(length + 1)
      OBVIOUS
    <3>2. PICK t : t = Tail(Items)
      OBVIOUS
    <3>3. /\ b \in Seq(Payload) /\ Len(b) = length - 1
          /\ \A i \in 1..(length - 1) : b[i] = Items[i + 1]
      <4>1. PICK k \in 2..(length + 1) : k = length + 1
        BY <1>1
      <4>2. k - 2 = length - 1
        BY <1>1, <4>1
      <4>3. b = Behind(k)
        BY <3>1, <4>1
      <4>4. /\ Behind(k) \in Seq(Payload) /\ Len(Behind(k)) = k - 2
            /\ \A i \in 1..(k - 2) : Behind(k)[i] = Items[i + 1]
        BY <1>3
      <4> QED
        BY <4>2, <4>3, <4>4
    <3>4. /\ t \in Seq(Payload) /\ Len(t) = length - 1
          /\ \A i \in 1..(length - 1) : t[i] = Items[i + 1]
      <4>1. Items # <<>>
        BY <1>1
      <4> QED
        BY <1>1, <3>2, <4>1, HeadTailProperties
    <3>5. t = b
      BY <3>3, <3>4, SeqEqual
    <3> QED
      BY <3>1, <3>2, <3>5
  <2>3. Head(Items) = Items[1] /\ 1 \in 1..length
    BY <1>1
  <2> QED
    BY <1>1, <2>2, <2>3
<1> QED
  BY <1>1, <1>3, <1>4, <1>5

LEMMA FreeStartFreeInv ==
  ASSUME IInv, FreeInv, FreeStart
  PROVE  FreeInv'
<1>1. length > 0 /\ phase' = "freeing" /\ Len(order) = length /\ length \in Nat
      /\ released' = <<>> /\ length' = length /\ order' = order
  BY ItemsSeq DEF FreeStart, FreeInv
<1>2. cursor' = At(2)'
  <2>1. /\ order[1] = INNER /\ order[Len(order)] = last /\ next[last] = NIL
        /\ \A i \in 1..(Len(order) - 1) : next[order[i]] = order[i + 1]
    BY DEF IInv, WellLinked, OneChain
  <2>2. CASE length = 1
    <3>1. ~(2 <= Len(order)')
      BY <1>1, <2>2
    <3> QED
      BY <1>1, <2>1, <2>2, <3>1 DEF FreeStart, At
  <2>3. CASE length >= 2
    <3>1. 1 \in 1..(Len(order) - 1) /\ 1 + 1 = 2 /\ 2 <= Len(order)'
      BY <1>1, <2>3
    <3>2. next[order[1]] = order[2]
      BY <2>1, <3>1
    <3> QED
      BY <1>1, <2>1, <3>1, <3>2 DEF FreeStart, At
  <2> QED
    BY <1>1, <2>2, <2>3
<1>3. Behind(2)' = <<>>
  <2>1. 1..(2 - 2) = {}
    OBVIOUS
  <2> QED
    BY <2>1 DEF Behind
<1>4. released' = NonNull[Behind(2)']
  BY <1>1, <1>3, NonNullFacts
<1>5. 2 \in 2..(Len(order') + 1)
  BY <1>1
<1> QED
  BY <1>1, <1>2, <1>4, <1>5 DEF FreeInv, ReleasedOnce

LEMMA FreeNodeFreeInv ==
  ASSUME IInv, FreeInv, FreeNode
  PROVE  FreeInv'
<1>1. length > 0 /\ length \in Nat
  BY DEF FreeInv, FreeNode, IInv, TypeOK
<1>2. /\ Len(order) = length
      /\ \A k \in 2..(length + 1) : Behind(k) \in Seq(Payload)
      /\ \A k \in 2..length : Behind(k + 1) = Append(Behind(k), Items[k])
  BY <1>1, BehindFacts
<1>3. PICK k \in 2..(length + 1) : cursor = At(k) /\ released = NonNull[Behind(k)]
  BY <1>2 DEF FreeInv, FreeNode
<1>4. k \in 2..length /\ cursor = order[k]
  <2>1. k <= length
    BY <1>2, <1>3 DEF FreeNode, At
  <2> QED
    BY <1>1, <1>2, <1>3, <2>1 DEF At
<1>5. Items[k] = elt[cursor] /\ Items[k] \in Payload
  <2>1. k \in 1..length
    BY <1>1, <1>4
  <2> QED
    BY <1>4, <2>1, ItemsSeq
<1>6. released' = NonNull[Behind(k + 1)]
  <2>1. Behind(k + 1) = Append(Behind(k), Items[k]) /\ Behind(k) \in Seq(Payload)
    BY <1>2, <1>4
  <2>2. NonNull[Append(Behind(k), Items[k])]
          = IF Items[k] = NIL THEN NonNull[Behind(k)] ELSE Append(NonNull[Behind(k)], Items[k])
    BY <1>5, <2>1, NonNullFacts
  <2>3. released' = IF elt[cursor] = NIL THEN released ELSE Append(released, elt[cursor])
    BY DEF FreeNode, Release
  <2> QED
    BY <1>3, <1>5, <2>1, <2>2, <2>3
<1>7. cursor' = At(k + 1) /\ k + 1 \in 2..(length + 1)
  <2>1. /\ order[Len(order)] = last /\ next[last] = NIL
        /\ \A i \in 1..(Len(order) - 1) : next[order[i]] = order[i + 1]
    BY DEF IInv, WellLinked, OneChain
  <2>2. CASE k = length
    <3>1. ~(k + 1 <= Len(order))
      BY <1>1, <1>2, <2>2
    <3> QED
      BY <1>1, <1>2, <1>4, <2>1, <2>2, <3>1 DEF FreeNode, At
  <2>3. CASE k < length
    <3>1. k \in 1..(Len(order) - 1) /\ k + 1 <= Len(order)
      BY <1>1, <1>2, <1>4, <2>3
    <3>2. next[order[k]] = order[k + 1]
      BY <2>1, <3>1
    <3> QED
      BY <1>1, <1>4, <3>1, <3>2 DEF FreeNode, At
  <2> QED
    BY <1>1, <1>4, <2>2, <2>3
<1>8. At(k + 1)' = At(k + 1) /\ Behind(k + 1)' = Behind(k + 1)
      /\ order' = order /\ length' = length /\ phase' # "ready" /\ phase' # "freed"
  BY DEF FreeNode, At, Behind, Items
<1> QED
  BY <1>1, <1>2, <1>6, <1>7, <1>8 DEF FreeInv, ReleasedOnce

LEMMA FreeInnerFreeInv ==
  ASSUME IInv, FreeInv, FreeInner
  PROVE  FreeInv'
<1>1. length > 0 /\ length \in Nat
  BY DEF FreeInv, FreeInner, IInv, TypeOK
<1>2. /\ Len(order) = length
      /\ \A k \in 2..(length + 1) : Behind(k) \in Seq(Payload)
      /\ Behind(length + 1) = Tail(Items) /\ Head(Items) = elt[INNER]
  BY <1>1, BehindFacts
<1>3. PICK k \in 2..(length + 1) : cursor = At(k) /\ released = NonNull[Behind(k)]
  BY <1>2 DEF FreeInv, FreeInner
<1>4. k = length + 1
  <2>1. \A i \in 1..length : order[i] \in Node
    BY ItemsSeq
  <2>2. ~(k <= length)
    BY <1>1, <1>2, <1>3, <2>1, AddrAssumption DEF FreeInner, At, Node
  <2> QED
    BY <1>1, <2>2
<1>5. Head(Items) \in Payload /\ Tail(Items) \in Seq(Payload)
  <2>1. elt[INNER] \in Payload
    BY DEF IInv, TypeOK, Node
  <2>2. length + 1 \in 2..(length + 1)
    BY <1>1
  <2> QED
    BY <1>2, <2>1, <2>2
<1>6. released' = NonNull[Append(Tail(Items), Head(Items))]
  <2>1. NonNull[Append(Tail(Items), Head(Items))]
          = IF Head(Items) = NIL THEN NonNull[Tail(Items)]
            ELSE Append(NonNull[Tail(Items)], Head(Items))
    BY <1>5, NonNullFacts
  <2>2. released' = IF elt[INNER] = NIL THEN released ELSE Append(released, elt[INNER])
    BY DEF FreeInner, Release
  <2> QED
    BY <1>2, <1>3, <1>4, <2>1, <2>2
<1>7. Items' = Items /\ phase' = "freed"
  BY DEF FreeInner, Items
<1> QED
  BY <1>6, <1>7 DEF FreeInv, ReleasedOnce

(* Every payload is handed to the destructor exactly once by list_free,    *)
(* and NULL never.                                                         *)
THEOREM LinkedListReleasedOnce == Spec => []ReleasedOnce
<1>1. Init => FreeInv
  BY DEF Init, FreeInv, ReleasedOnce
<1>2. IInv /\ FreeInv /\ [Next]_vars => FreeInv'
  <2> SUFFICES ASSUME IInv, FreeInv, [Next]_vars PROVE FreeInv'
    OBVIOUS
  <2>1. ASSUME NEW e \in Payload, AddInner(e) PROVE FreeInv'
    BY <2>1 DEF AddInner, FreeInv, ReleasedOnce
  <2>2. ASSUME NEW e \in Payload, NEW new \in Addr, AddNode(e, new) PROVE FreeInv'
    BY <2>2 DEF AddNode, FreeInv, ReleasedOnce
  <2>3. CASE PopNode \/ PopInner
    BY <2>3 DEF PopNode, PopInner, FreeInv, ReleasedOnce
  <2>4. CASE FreeEmpty
    BY <2>4 DEF FreeEmpty, FreeInv, ReleasedOnce
  <2>5. CASE FreeStart
    BY <2>5, FreeStartFreeInv
  <2>6. CASE FreeNode
    BY <2>6, FreeNodeFreeInv
  <2>7. CASE FreeInner
    BY <2>7, FreeInnerFreeInv
  <2>8. CASE UNCHANGED vars
    <3>1. \A k : At(k)' = At(k) /\ Behind(k)' = Behind(k)
      BY <2>8 DEF vars, At, Behind, Items
    <3>2. Items' = Items
      BY <2>8 DEF vars, Items
    <3> QED
      BY <2>8, <3>1, <3>2 DEF vars, FreeInv, ReleasedOnce
  <2> QED
    BY <2>1, <2>2, <2>3, <2>4, <2>5, <2>6, <2>7, <2>8 DEF Next
<1>3. FreeInv => ReleasedOnce
  BY DEF FreeInv
<1> QED
  BY <1>1, <1>2, <1>3, Invariance, PTL DEF Spec
=============================================================================
