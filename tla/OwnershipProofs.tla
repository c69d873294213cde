-------------------------- MODULE OwnershipProofs ---------------------------
(***************************************************************************)
(* Proofs about Ownership, for any program and any bounds: who owns what   *)
(* in every state of a compilation, that nothing is read or freed that is  *)
(* not allocated, and that nothing is left when compile_input returns, but *)
(* for the exceptions the properties name.                                 *)
(***************************************************************************)
EXTENDS OwnershipWalks

-----------------------------------------------------------------------------
(* Parsing *)

LEMMA ParsingTasks ==
  ASSUME Parsing
  PROVE  /\ IsSeq(todo) /\ \A i \in DOMAIN todo : ~Releasing(todo[i])
         /\ \A d : <<"call", d, 0>> \notin Places
         /\ \A a \in Alive : ~Emptied(a)
         /\ st = NULL /\ causes = {}
         /\ program # NULL => vals = <<>>
<1>1. \A task : task[1] \in ParseTasks \cup {"end"} => ~Releasing(task) /\ task[1] # "free"
  BY DEF ParseTasks, Releasing
<1>2. IsSeq(todo) /\ \A i \in DOMAIN todo : todo[i][1] \in ParseTasks \cup {"end"}
  <2>1. ACCEPT[1] \in ParseTasks /\ END[1] = "end" /\ Parse("program")[1] \in ParseTasks
    BY TwoFirst DEF ACCEPT, END, Parse, ParseTasks
  <2>2. /\ \A i \in 1..1 : i = 1
        /\ \A i \in 1..2 : i = 1 \/ i = 2
    OBVIOUS
  <2>3. ASSUME NEW a, NEW b, a[1] \in ParseTasks, b[1] = "end"
        PROVE  LET s == <<a, b>> IN
               IsSeq(s) /\ Len(s) = 2 /\ \A i \in 1..Len(s) : s[i][1] \in ParseTasks \cup {"end"}
    BY <2>2, <2>3, IsSeqShort, TwoFirst
  <2>4. CASE todo = <<END>>
    <3>1. IsSeq(todo) /\ Len(todo) = 1 /\ todo[1][1] = "end"
      BY <2>1, <2>4, IsSeqShort, TwoFirst
    <3> QED
      BY <2>2, <3>1, SeqFacts
  <2>5. CASE todo = <<Parse("program"), END>>
    <3>1. IsSeq(todo) /\ Len(todo) = 2 /\ \A i \in 1..Len(todo) : todo[i][1] \in ParseTasks \cup {"end"}
      BY <2>1, <2>3, <2>5
    <3> QED
      BY <3>1, SeqFacts
  <2>6. CASE \E w, s : ParsingIs(w, s)
    <3>1. PICK ends : ends = <<ACCEPT, END>>
      OBVIOUS
    <3>2. IsSeq(ends) /\ \A i \in 1..Len(ends) : ends[i][1] \in ParseTasks \cup {"end"}
      BY <2>1, <2>3, <3>1
    <3>3. PICK w, s : IsSeq(w) /\ todo = w \o ends /\ Run(w, s, ProgramKinds)
      BY <2>6, <3>1 DEF ParsingIs
    <3>4. \A i \in 1..Len(w) : w[i][1] \in ParseTasks
      BY <3>3, StepTasks DEF Run
    <3>5. IsSeq(todo)
      BY <3>2, <3>3, Joined
    <3>6. ASSUME NEW i \in 1..Len(todo)
          PROVE  todo[i][1] \in ParseTasks \cup {"end"}
      BY <3>2, <3>3, <3>4, <3>6, InEither
    <3> QED
      BY <3>5, <3>6, SeqFacts
  <2> QED
    BY <2>4, <2>5, <2>6 DEF Parsing
<1>3. \A i \in DOMAIN todo : ~Releasing(todo[i]) /\ todo[i][1] # "free"
  BY <1>1, <1>2
<1>4. \A d : <<"call", d, 0>> \notin Places
  BY <1>3, PlaceFacts DEF PlaceLaws
<1>5. \A a \in Alive : ~Emptied(a)
  BY <1>3 DEF Emptied
<1> QED
  BY <1>2, <1>3, <1>4, <1>5 DEF Parsing

LEMMA Reversed ==
  ASSUME NEW s, IsSeq(s)
  PROVE  /\ IsSeq(Reverse(s)) /\ Len(Reverse(s)) = Len(s)
         /\ \A i \in 1..Len(s) : Reverse(s)[i] = s[Len(s) - i + 1]
<1>1. Len(s) \in Nat
  BY SeqFacts
<1>2. PICK f : f = [i \in 1..Len(s) |-> s[(Len(s) - i) + 1]]
  OBVIOUS
<1>3. Reverse(s) = f
  BY <1>2 DEF Reverse
<1>4. \A i \in 1..Len(s) : f[i] = s[Len(s) - i + 1]
  BY <1>2
<1>5. f = [i \in 1..Len(s) |-> f[i]]
  BY <1>2
<1> QED
  BY <1>1, <1>3, <1>4, <1>5, MadeSeq

LEMMA SyntaxErrorSound ==
  ASSUME Sound, SyntaxError
  PROVE  Sound'
<1>1. /\ phase = "run" /\ todo # <<>>
      /\ Head(todo)[1] \in ParseTasks \cup {"end"}
      /\ vals' = <<>> /\ UNCHANGED <<heap, fresh, program, st, room>>
  BY DEF SyntaxError, At, Lookaheads, ParseTasks
<1>2. Memory /\ Parsing
  BY <1>1, Stages
<1>3. TypeOK /\ fresh \in Nat /\ program \in References /\ Owned
      /\ vals \in Seq(References \cup {OPERATOR}) /\ IsSeq(vals)
  BY <1>2 DEF Memory, TypeOK, IsSeq
<1>4. /\ \A i \in DOMAIN todo : ~Releasing(todo[i])
      /\ \A d : <<"call", d, 0>> \notin Places
      /\ \A a \in Alive : ~Emptied(a)
      /\ st = NULL /\ causes = {} /\ (program # NULL => vals = <<>>)
  BY <1>2, ParsingTasks
<1>5. CASE \E i \in DOMAIN vals : vals[i] = OPERATOR
  <2>1. phase' = "abort"
    BY <1>5 DEF SyntaxError
  <2>2. TypeOK'
    BY <2>1, <1>1, <1>3, TypeKept
  <2> QED
    BY <2>1, <2>2 DEF Sound, NoMisuse
<1>6. CASE ~\E i \in DOMAIN vals : vals[i] = OPERATOR
  <2>1. PICK w, tail : w = Each("free node", Reverse(vals)) /\ tail = <<FP, RET>>
    OBVIOUS
  <2>2. phase' = "run" /\ todo' = w \o tail /\ causes' = causes
    <3>1. /\ phase' = phase
          /\ todo' = Each("free node", Reverse(vals)) \o <<<<"free_program">>, <<"return">>>>
          /\ causes' = causes \cup IF phase' = "abort" THEN {"operator discarded"} ELSE {}
      BY ONLY <1>6, SyntaxError, Zenon DEF SyntaxError
    <3> QED
      BY <3>1, <1>1, <2>1 DEF FP, RET
  <2>3. PICK n : n = Len(vals)
    OBVIOUS
  <2>4. n \in Nat /\ DOMAIN vals = 1..n /\ \A i \in 1..n : vals[i] \in References
    BY <1>3, <1>6, <2>3
  <2>5. IsSeq(w) /\ Len(w) = n
        /\ \A i \in 1..n : Destroys(w[i]) /\ w[i][2] = vals[n - i + 1]
    <3>1. PICK r : r = Reverse(vals)
      OBVIOUS
    <3>2. IsSeq(r) /\ Len(r) = n /\ \A i \in 1..n : r[i] = vals[n - i + 1]
      BY <3>1, <1>3, <2>3, Reversed
    <3>3. IsSeq(w) /\ Len(w) = n /\ \A i \in 1..n : w[i] = <<"free node", r[i]>>
      <4>1. w = Each("free node", r)
        BY <2>1, <3>1
      <4>2. IsSeq(r) /\ Len(r) = n
        BY <3>2
      <4> QED
        BY ONLY <4>1, <4>2, EachFacts
    <3> QED
      BY <3>2, <3>3, FreeTasks
  <2>6. IsSeq(tail) /\ Len(tail) = 2 /\ tail[1] = FP /\ tail[2] = RET
    BY <2>1, IsSeqShort, TwoFirst
  <2>7. /\ IsSeq(todo') /\ Len(todo') = n + 2 /\ DOMAIN todo' = 1..(n + 2)
        /\ \A i \in 1..n : Releasing(todo'[i]) /\ todo'[i][2] = vals[n - i + 1]
        /\ \A i \in 1..(n + 2) : Releasing(todo'[i]) => i \in 1..n
    <3>1. /\ IsSeq(w \o tail) /\ Len(w \o tail) = Len(w) + Len(tail)
          /\ \A i \in 1..Len(w) : (w \o tail)[i] = w[i]
      <4>1. IsSeq(w)
        BY <2>5
      <4>2. IsSeq(tail)
        BY <2>6
      <4> QED
        BY <4>1, <4>2, Joined
    <3>2. IsSeq(todo') /\ Len(todo') = n + 2 /\ \A i \in 1..n : todo'[i] = w[i]
      BY <3>1, <2>2, <2>5, <2>6
    <3>3. DOMAIN todo' = 1..(n + 2)
      BY <3>2, SeqFacts
    <3>4. \A i \in 1..n : Releasing(todo'[i]) /\ todo'[i][2] = vals[n - i + 1]
      BY <3>2, <2>5, FreeTasks
    <3>5. ASSUME NEW i \in 1..(n + 2), Releasing(todo'[i])
          PROVE  i \in 1..n
      <4>1. ~Releasing(FP) /\ ~Releasing(RET)
        BY DEF Releasing, FP, RET
      <4>2. \A j \in 1..2 : ~Releasing(tail[j])
        <5>1. \A j \in 1..2 : j = 1 \/ j = 2
          OBVIOUS
        <5> QED
          BY <5>1, <4>1, <2>6
      <4>3. i \in 1..Len(w \o tail)
        BY <3>1, <2>5, <2>6, <2>4
      <4>4. IsSeq(w) /\ IsSeq(tail)
        BY <2>5, <2>6
      <4>5. i \in 1..Len(w) \/ \E j \in 1..Len(tail) : (w \o tail)[i] = tail[j]
        BY <4>3, <4>4, InEither
      <4> QED
        BY <4>2, <4>5, <3>5, <2>2, <2>5, <2>6
    <3> QED
      BY <3>2, <3>3, <3>4, <3>5
  <2>8. /\ \A j \in 1..n : <<"call", j + 1, 0>> \in Places' /\ Held(<<"call", j + 1, 0>>)' = vals[j]
        /\ \A d : <<"call", d, 0>> \in Places' => \E j \in 1..n : d = j + 1
    <3>1. ASSUME NEW j \in 1..n
          PROVE  <<"call", j + 1, 0>> \in Places' /\ Held(<<"call", j + 1, 0>>)' = vals[j]
      <4>1. PICK i : i = n - j + 1
        OBVIOUS
      <4>2. /\ i \in 1..n /\ i \in 1..(n + 2) /\ j + 1 = (n + 2) - i /\ (n + 2) - (j + 1) = i
            /\ n - i + 1 = j
        BY <4>1, <2>4
      <4>3. Releasing(todo'[i]) /\ todo'[i][2] = vals[j]
        BY <4>2, <2>7
      <4>4. <<"call", j + 1, 0>> \in Places'
        BY <4>2, <4>3, <2>7, PlaceFactsPrime
      <4>5. Held(<<"call", j + 1, 0>>)' = todo'[(n + 2) - (j + 1)][2]
        BY <2>7, PlaceFactsPrime
      <4> QED
        BY <4>2, <4>3, <4>4, <4>5
    <3>2. ASSUME NEW d, <<"call", d, 0>> \in Places'
          PROVE  \E j \in 1..n : d = j + 1
      <4>1. PICK i \in 1..(n + 2) : Releasing(todo'[i]) /\ d = (n + 2) - i
        BY <3>2, <2>7, PlaceFactsPrime
      <4>2. i \in 1..n
        BY <4>1, <2>7
      <4>3. n - i + 1 \in 1..n /\ d = (n - i + 1) + 1
        BY <4>1, <4>2, <2>4
      <4> QED
        BY <4>3
    <3> QED
      BY <3>1, <3>2
  <2>9. PICK R, G : /\ R = {<<"value", j, 0>> : j \in 1..n}
                    /\ G = {<<"call", j + 1, 0>> : j \in 1..n}
    OBVIOUS
  <2>10. \A p \in Owners' \ G : p \in Owners \ R /\ Held(p)' = Held(p)
    <3> SUFFICES ASSUME NEW p \in Owners', p \notin G
                 PROVE  p \in Owners \ R /\ Held(p)' = Held(p)
      OBVIOUS
    <3>1. p \in Places' /\ Held(p)' > 0
      BY PlaceFactsPrime
    <3>2. DOMAIN vals' = {}
      BY <1>1
    <3>3. ~\E d : p = <<"call", d, 0>>
      BY <3>1, <2>8, <2>9
    <3>4. CASE \E a \in Alive' : \E i \in DOMAIN heap'[a].kids : p = <<"field", a, i>>
      <4>1. PICK a, i : a \in Alive /\ p = <<"field", a, i>> /\ i \in DOMAIN KidsOf(a)
        BY <3>4, <1>1 DEF Alive, KidsOf
      <4>2. p \in Places /\ Held(p) = KidsOf(a)[i] /\ Held(p)' = heap'[a].kids[i] /\ p \notin R
        BY <4>1, <2>9, PlaceFacts, PlaceFactsPrime DEF PlaceLaws
      <4> QED
        BY <4>2, <3>1, <1>1, PlaceFacts DEF PlaceLaws, KidsOf
    <3>5. CASE p \in {<<"program", 0, 0>>, <<"st", 0, 0>>}
      <4>1. p \in Places /\ Held(p)' = Held(p) /\ p \notin R
        BY <3>5, <2>9, <1>1, PlaceFacts, PlaceFactsPrime DEF PlaceLaws
      <4> QED
        BY <4>1, <3>1, PlaceFacts DEF PlaceLaws
    <3> QED
      BY <3>1, <3>2, <3>3, <3>4, <3>5, PlaceFactsPrime
  <2>11. \A p \in Owners \ R : p \in Owners' /\ Held(p)' = Held(p)
    <3> SUFFICES ASSUME NEW p \in Owners, p \notin R
                 PROVE  p \in Owners' /\ Held(p)' = Held(p)
      OBVIOUS
    <3>1. p \in Places /\ Held(p) > 0
      BY PlaceFacts DEF PlaceLaws
    <3>2. ~\E i \in DOMAIN vals : p = <<"value", i, 0>>
      BY <2>4, <2>9
    <3>3. ~\E d : p = <<"call", d, 0>>
      BY <3>1, <1>4
    <3>4. CASE \E a \in Alive : \E i \in DOMAIN KidsOf(a) : p = <<"field", a, i>>
      <4>1. PICK a, i : a \in Alive /\ p = <<"field", a, i>> /\ i \in DOMAIN KidsOf(a)
        BY <3>4
      <4>2. a \in Alive' /\ i \in DOMAIN heap'[a].kids
        BY <4>1, <1>1 DEF Alive, KidsOf
      <4>3. p \in Places' /\ Held(p) = KidsOf(a)[i] /\ Held(p)' = heap'[a].kids[i]
        BY <4>1, <4>2, PlaceFacts, PlaceFactsPrime DEF PlaceLaws
      <4> QED
        BY <4>3, <3>1, <1>1, PlaceFactsPrime DEF KidsOf
    <3>5. CASE p \in {<<"program", 0, 0>>, <<"st", 0, 0>>}
      <4>1. p \in Places' /\ Held(p)' = Held(p)
        BY <3>5, <1>1, PlaceFacts, PlaceFactsPrime DEF PlaceLaws
      <4> QED
        BY <4>1, <3>1, PlaceFactsPrime
    <3> QED
      BY <3>1, <3>2, <3>3, <3>4, <3>5, PlaceFacts DEF PlaceLaws
  <2>12. \A j \in 1..n : /\ <<"value", j, 0>> \in Places /\ Held(<<"value", j, 0>>) = vals[j]
                         /\ <<"value", j, 0>> \in Owners <=> vals[j] > 0
                         /\ <<"call", j + 1, 0>> \in Owners' <=> vals[j] > 0
    BY <2>4, <2>8, PlaceFacts, PlaceFactsPrime DEF PlaceLaws
  <2>13. \A p \in G \cap Owners' : \E r \in R \cap Owners : Held(r) = Held(p)'
    BY <2>8, <2>9, <2>12
  <2>14. \A r \in R \cap Owners : \E p \in G \cap Owners' : Held(p)' = Held(r)
    BY <2>8, <2>9, <2>12
  <2>15. \A p, q \in G \cap Owners' : Held(p)' = Held(q)' => p = q
    <3> SUFFICES ASSUME NEW p \in G \cap Owners', NEW q \in G \cap Owners', Held(p)' = Held(q)'
                 PROVE  p = q
      OBVIOUS
    <3>1. PICK i, j : i \in 1..n /\ j \in 1..n /\ p = <<"call", i + 1, 0>> /\ q = <<"call", j + 1, 0>>
      BY <2>9
    <3>2. vals[i] = vals[j] /\ vals[i] > 0
      BY <3>1, <2>8, <2>12
    <3>3. <<"value", i, 0>> = <<"value", j, 0>>
      BY <3>1, <3>2, <2>12, <1>3, <1>4 DEF Owned
    <3> QED
      BY <3>1, <3>3
  <2>16. TypeOK'
    BY <1>1, <1>3, <2>2, TypeKept
  <2>17. Memory'
    <3>1. \A a \in Alive : Emptied(a) => Emptied(a)'
      BY <1>4
    <3>2. program' \in {program, NULL} /\ st' \in {st, NULL} /\ UNCHANGED <<heap, fresh, causes>>
      BY <1>1, <2>2
    <3> QED
      BY ONLY <3>1, <3>2, <1>2, <2>10, <2>11, <2>13, <2>14, <2>15, <2>16, Passed
  <2>18. Later'
    <3>1. ASSUME NEW i \in 1..Len(w)
          PROVE  Good(w[i])' /\ ~Analyzing(w[i])
      <4>1. i \in 1..n /\ Destroys(w[i]) /\ w[i][2] = vals[n - i + 1] /\ ~Analyzing(w[i])
        BY <2>5, FreeTasks
      <4>2. n - i + 1 \in 1..n
        BY <4>1, <2>4
      <4>3. w[i][2] \in References'
        BY <4>1, <4>2, <2>4, <1>1 DEF References, Address
      <4>4. program' = NULL
        <5>1. vals # <<>>
          BY <2>3, <4>1, <2>4
        <5> QED
          BY <5>1, <1>1, <1>4
      <4> QED
        BY ONLY <4>1, <4>3, <4>4 DEF Good, Destroys
    <3>2. Ordered(w, tail)'
      BY <3>1 DEF Ordered, Analyzing
    <3>3. Ending(tail)'
      BY <1>1, <1>4, <2>1 DEF Ending, Ends
    <3>4. LaterIs(w, tail)'
      BY <3>2, <3>3, <1>1, <2>2, <2>5 DEF LaterIs
    <3>5. LaterLaw'
      BY LaterHolds, PTL
    <3> QED
      BY <3>4, <3>5 DEF LaterLaw
  <2> QED
    BY <2>2, <2>17, <2>18 DEF Sound, Memory, NoMisuse
<1> QED
  BY <1>5, <1>6

(* A sequence in two parts *)
LEMMA Glued ==
  ASSUME NEW s, NEW t, NEW u, IsSeq(s), IsSeq(t), IsSeq(u), Len(u) = Len(s) + Len(t),
         \A i \in 1..Len(s) : u[i] = s[i], \A i \in 1..Len(t) : u[Len(s) + i] = t[i]
  PROVE  s \o t = u
<1>1. /\ IsSeq(s \o t) /\ Len(s \o t) = Len(s) + Len(t)
      /\ \A i \in 1..Len(s) : (s \o t)[i] = s[i]
      /\ \A i \in 1..Len(t) : (s \o t)[Len(s) + i] = t[i]
  BY Joined
<1>2. ASSUME NEW i \in 1..Len(s \o t)
      PROVE  (s \o t)[i] = u[i]
  <2>1. \/ i \in 1..Len(s) /\ (s \o t)[i] = s[i]
        \/ \E j \in 1..Len(t) : i = Len(s) + j /\ (s \o t)[i] = t[j]
    BY <1>2, InEither
  <2> QED
    BY <2>1
<1>3. Len(s \o t) = Len(u)
  BY <1>1
<1> QED
  BY ONLY <1>1, <1>2, <1>3, SeqExtensional, IsSeq(u)

Joins(s, t, u, m, n) ==
  /\ IsSeq(s) /\ IsSeq(t) /\ IsSeq(u) /\ Len(s) = m /\ Len(t) = n /\ Len(u) = m + n
  /\ \A i \in 1..m : u[i] = s[i]
  /\ \A i \in 1..n : u[m + i] = t[i]
LEMMA GluedAt == \A s, t, u, m, n : Joins(s, t, u, m, n) => s \o t = u
<1> SUFFICES ASSUME NEW s, NEW t, NEW u, NEW m, NEW n, Joins(s, t, u, m, n)
             PROVE  s \o t = u
  OBVIOUS
<1>1. IsSeq(s) /\ IsSeq(t) /\ IsSeq(u)
  BY DEF Joins
<1>2. /\ Len(u) = Len(s) + Len(t)
      /\ \A i \in 1..Len(s) : u[i] = s[i]
      /\ \A i \in 1..Len(t) : u[Len(s) + i] = t[i]
  BY DEF Joins
<1> QED
  BY <1>1, <1>2, Glued

LEMMA Pairs ==
  /\ \A a, b : <<a>> \o <<b>> = <<a, b>>
  /\ \A a, b, c : <<a>> \o <<b, c>> = <<a, b, c>> /\ <<a, b>> \o <<c>> = <<a, b, c>>
  /\ \A a, b, c, d : <<a>> \o <<b, c, d>> = <<a, b, c, d>> /\ <<a, b, c>> \o <<d>> = <<a, b, c, d>>
<1>1. \A a, b : <<a>> \o <<b>> = <<a, b>>
  <2> TAKE a, b
  <2>1. PICK s, t, u : s = <<a>> /\ t = <<b>> /\ u = <<a, b>>
    OBVIOUS
  <2>2. /\ IsSeq(s) /\ Len(s) = 1 /\ s[1] = a /\ IsSeq(t) /\ Len(t) = 1 /\ t[1] = b
        /\ IsSeq(u) /\ Len(u) = 2 /\ u[1] = a /\ u[2] = b
    BY ONLY <2>1, IsSeqShort, TwoFirst
  <2>3. s \o t = u
    <3>1. Len(u) = 1 + 1 /\ (\A i \in 1..1 : u[i] = s[i]) /\ (\A i \in 1..1 : u[1 + i] = t[i])
      BY <2>2
    <3>2. Joins(s, t, u, 1, 1)
      BY ONLY <2>2, <3>1 DEF Joins
    <3> QED
      BY ONLY <3>2, GluedAt
  <2> QED
    BY <2>1, <2>3
<1>2. \A a, b, c : <<a>> \o <<b, c>> = <<a, b, c>> /\ <<a, b>> \o <<c>> = <<a, b, c>>
  <2> TAKE a, b, c
  <2>1. PICK s, t, u, v, w : /\ s = <<a>> /\ t = <<b, c>> /\ u = <<a, b>> /\ v = <<c>>
                             /\ w = <<a, b, c>>
    OBVIOUS
  <2>2. /\ IsSeq(s) /\ Len(s) = 1 /\ s[1] = a
        /\ IsSeq(t) /\ Len(t) = 2 /\ t[1] = b /\ t[2] = c
        /\ IsSeq(u) /\ Len(u) = 2 /\ u[1] = a /\ u[2] = b
        /\ IsSeq(v) /\ Len(v) = 1 /\ v[1] = c
        /\ IsSeq(w) /\ Len(w) = 3 /\ w[1] = a /\ w[2] = b /\ w[3] = c
    BY ONLY <2>1, IsSeqShort, TwoFirst
  <2>3. \A i \in 1..2 : i = 1 \/ i = 2
    OBVIOUS
  <2>4. s \o t = w
    <3>1. Len(w) = 1 + 2 /\ (\A i \in 1..1 : w[i] = s[i]) /\ (\A i \in 1..2 : w[1 + i] = t[i])
      BY <2>2, <2>3
    <3>2. Joins(s, t, w, 1, 2)
      BY ONLY <2>2, <3>1 DEF Joins
    <3> QED
      BY ONLY <3>2, GluedAt
  <2>5. u \o v = w
    <3>1. Len(w) = 2 + 1 /\ (\A i \in 1..2 : w[i] = u[i]) /\ (\A i \in 1..1 : w[2 + i] = v[i])
      BY <2>2, <2>3
    <3>2. Joins(u, v, w, 2, 1)
      BY ONLY <2>2, <3>1 DEF Joins
    <3> QED
      BY ONLY <3>2, GluedAt
  <2> QED
    BY <2>1, <2>4, <2>5
<1>3. \A a, b, c, d : <<a>> \o <<b, c, d>> = <<a, b, c, d>> /\ <<a, b, c>> \o <<d>> = <<a, b, c, d>>
  <2> TAKE a, b, c, d
  <2>1. PICK s, t, u, v, w : /\ s = <<a>> /\ t = <<b, c, d>> /\ u = <<a, b, c>> /\ v = <<d>>
                             /\ w = <<a, b, c, d>>
    OBVIOUS
  <2>2. /\ IsSeq(s) /\ Len(s) = 1 /\ s[1] = a
        /\ IsSeq(t) /\ Len(t) = 3 /\ t[1] = b /\ t[2] = c /\ t[3] = d
        /\ IsSeq(u) /\ Len(u) = 3 /\ u[1] = a /\ u[2] = b /\ u[3] = c
        /\ IsSeq(v) /\ Len(v) = 1 /\ v[1] = d
    BY ONLY <2>1, IsSeqShort, TwoFirst
  <2>3. IsSeq(w) /\ Len(w) = 4 /\ w[1] = a /\ w[2] = b /\ w[3] = c /\ w[4] = d
    BY ONLY <2>1, Tuples
  <2>4. \A i \in 1..3 : i = 1 \/ i = 2 \/ i = 3
    OBVIOUS
  <2>5. s \o t = w
    <3>1. Len(w) = 1 + 3 /\ (\A i \in 1..1 : w[i] = s[i]) /\ (\A i \in 1..3 : w[1 + i] = t[i])
      BY <2>2, <2>3, <2>4
    <3>2. Joins(s, t, w, 1, 3)
      BY ONLY <2>2, <2>3, <3>1 DEF Joins
    <3> QED
      BY ONLY <3>2, GluedAt
  <2>6. u \o v = w
    <3>1. Len(w) = 3 + 1 /\ (\A i \in 1..3 : w[i] = u[i]) /\ (\A i \in 1..1 : w[3 + i] = v[i])
      BY <2>2, <2>3, <2>4
    <3>2. Joins(u, v, w, 3, 1)
      BY ONLY <2>2, <2>3, <3>1 DEF Joins
    <3> QED
      BY ONLY <3>2, GluedAt
  <2> QED
    BY <2>1, <2>5, <2>6
<1> QED
  BY <1>1, <1>2, <1>3

EndingsAre(p, a, f, s, r) ==
  /\ <<>> \o <<f>> \o <<r>> = <<>> \o <<f, r>>
  /\ <<p>> \o <<f>> \o <<r>> = <<p>> \o <<f, r>>
  /\ <<>> \o <<a, f, s>> \o <<r>> = <<a>> \o <<f, s, r>>
  /\ <<p>> \o <<a, f, s>> \o <<r>> = <<p, a>> \o <<f, s, r>>
LEMMA Endings == \A p, a, f, s, r : EndingsAre(p, a, f, s, r)
<1> TAKE p, a, f, s, r
<1>1. IsSeq(<<f>>) /\ IsSeq(<<p>>) /\ IsSeq(<<a>>) /\ IsSeq(<<r>>) /\ IsSeq(<<a, f, s>>) /\ IsSeq(<<f, s, r>>)
  BY IsSeqShort
<1>2. <<f>> \o <<r>> = <<f, r>>
  BY ONLY Pairs
<1>3. <<a, f, s>> \o <<r>> = <<a, f, s, r>> /\ <<a>> \o <<f, s, r>> = <<a, f, s, r>>
  BY ONLY Pairs
<1>4. <<p>> \o (<<a>> \o <<f, s, r>>) = (<<p>> \o <<a>>) \o <<f, s, r>> /\ <<p>> \o <<a>> = <<p, a>>
  <2>1. <<p>> \o <<a>> = <<p, a>>
    BY ONLY Pairs
  <2>2. <<p>> \o (<<a>> \o <<f, s, r>>) = (<<p>> \o <<a>>) \o <<f, s, r>>
    BY <1>1, Concatenated
  <2> QED
    BY ONLY <2>1, <2>2, Zenon
<1>5. <<>> \o <<f>> = <<f>> /\ <<>> \o <<f, r>> = <<f, r>> /\ <<>> \o <<a, f, s>> = <<a, f, s>>
  BY IsSeqShort, Concatenated
<1>6. /\ (<<p>> \o <<f>>) \o <<r>> = <<p>> \o (<<f>> \o <<r>>)
      /\ (<<p>> \o <<a, f, s>>) \o <<r>> = <<p>> \o (<<a, f, s>> \o <<r>>)
  BY <1>1, Concatenated
<1>7. <<>> \o <<f>> \o <<r>> = <<>> \o <<f, r>>
  BY ONLY <1>2, <1>5, Zenon
<1>8. <<p>> \o <<f>> \o <<r>> = <<p>> \o <<f, r>>
  BY ONLY <1>2, <1>6, Zenon
<1>9. <<>> \o <<a, f, s>> \o <<r>> = <<a>> \o <<f, s, r>>
  BY ONLY <1>3, <1>5, Zenon
<1>10. <<p>> \o <<a, f, s>> \o <<r>> = <<p, a>> \o <<f, s, r>>
  BY ONLY <1>3, <1>4, <1>6, Zenon
<1> QED
  BY ONLY <1>7, <1>8, <1>9, <1>10, Zenon DEF EndingsAre

LEMMA ParsedSound ==
  ASSUME Sound, Parsed
  PROVE  Sound'
<1>1. /\ phase = "run" /\ todo # <<>> /\ Head(todo)[1] = "end"
      /\ UNCHANGED <<heap, fresh, vals, program, st, room, phase, causes>>
  BY DEF Parsed, At
<1>2. Memory /\ Parsing
  BY <1>1, Stages
<1>3. TypeOK /\ fresh \in Nat /\ program \in References /\ Rooted
  BY <1>2 DEF Memory, TypeOK
<1>4. /\ \A i \in DOMAIN todo : ~Releasing(todo[i])
      /\ \A d : <<"call", d, 0>> \notin Places
      /\ \A a \in Alive : ~Emptied(a)
      /\ st = NULL /\ causes = {}
  BY <1>2, ParsingTasks
<1>5. program # NULL /\ vals = <<>>
  <2> SUFFICES ASSUME ~(program # NULL /\ vals = <<>>)
               PROVE  FALSE
    OBVIOUS
  <2>1. ACCEPT[1] = "accept" /\ Parse("program")[1] = "parse"
    BY TwoFirst DEF ACCEPT, Parse
  <2>2. CASE todo = <<Parse("program"), END>>
    BY <2>1, <2>2, <1>1, TwoFirst
  <2>3. CASE \E w, s : ParsingIs(w, s)
    <3>1. PICK ends : ends = <<ACCEPT, END>>
      OBVIOUS
    <3>2. IsSeq(ends) /\ Head(ends) = ACCEPT
      BY <3>1, IsSeqShort, TwoFirst
    <3>3. PICK w, s : IsSeq(w) /\ todo = w \o ends /\ Run(w, s, ProgramKinds)
      BY <2>3, <3>1 DEF ParsingIs
    <3>4. CASE w = <<>>
      BY <3>2, <3>3, <3>4, <2>1, <1>1, Concatenated
    <3>5. CASE w # <<>>
      <4>1. Head(todo) = w[1] /\ 1 \in 1..Len(w)
        BY <3>2, <3>3, <3>5, Concatenated, SeqFacts
      <4>2. w[1][1] \in ParseTasks
        BY <3>3, <4>1, StepTasks DEF Run
      <4> QED
        BY <4>1, <4>2, <1>1 DEF ParseTasks
    <3> QED
      BY <3>4, <3>5
  <2> QED
    BY <2>2, <2>3, <1>2 DEF Parsing
<1>6. PICK p, a : p = <<"print", program>> /\ a = <<"analyze", program>>
  OBVIOUS
<1>7. PICK w, tail :
        /\ todo' = w \o tail
        /\ \/ w \in {<<>>, <<p>>} /\ tail = <<FP, RET>>
           \/ w \in {<<a>>, <<p, a>>} /\ tail = <<FP, SF, RET>>
  <2>1. \E dump \in {<<>>, <<p>>}, analysis \in {<<FP>>, <<a, FP, SF>>} :
          todo' = dump \o analysis \o <<RET>>
    BY Zenon, <1>6 DEF Parsed, FP, SF, RET
  <2>2. \/ todo' = <<>> \o <<FP>> \o <<RET>> \/ todo' = <<p>> \o <<FP>> \o <<RET>>
        \/ todo' = <<>> \o <<a, FP, SF>> \o <<RET>> \/ todo' = <<p>> \o <<a, FP, SF>> \o <<RET>>
    BY ONLY <2>1
  <2>3. \/ todo' = <<>> \o <<FP, RET>> \/ todo' = <<p>> \o <<FP, RET>>
        \/ todo' = <<a>> \o <<FP, SF, RET>> \/ todo' = <<p, a>> \o <<FP, SF, RET>>
    <3>1. EndingsAre(p, a, FP, SF, RET)
      BY Endings
    <3> QED
      BY ONLY <2>2, <3>1, Zenon DEF EndingsAre
  <2> QED
    BY ONLY <2>3
<1>8. /\ p[1] = "print" /\ p[2] = program /\ a[1] = "analyze" /\ a[2] = program
      /\ ~Releasing(p) /\ ~Releasing(a) /\ ~Analyzing(p) /\ Analyzing(a)
      /\ p[1] # "formals" /\ a[1] # "formals" /\ Borrowing(p) /\ Borrowing(a)
  <2>1. p[1] = "print" /\ p[2] = program /\ a[1] = "analyze" /\ a[2] = program
    BY <1>6, TwoFirst
  <2> QED
    BY <2>1 DEF Releasing, Analyzing, Borrowing, Borrows
<1>9. /\ IsSeq(w) /\ Len(w) \in Nat
      /\ \A i \in 1..Len(w) : w[i] = p \/ (w[i] = a /\ i = Len(w) /\ tail = <<FP, SF, RET>>)
  <2>1. CASE w = <<>> /\ tail = <<FP, RET>>
    BY <2>1, SeqFacts
  <2>2. CASE w = <<p>> /\ tail = <<FP, RET>>
    <3>1. IsSeq(w) /\ Len(w) = 1 /\ w[1] = p
      BY <2>2, IsSeqShort, TwoFirst
    <3> QED
      BY <3>1
  <2>3. CASE w = <<a>> /\ tail = <<FP, SF, RET>>
    <3>1. IsSeq(w) /\ Len(w) = 1 /\ w[1] = a
      BY <2>3, IsSeqShort, TwoFirst
    <3> QED
      BY <3>1, <2>3
  <2>4. CASE w = <<p, a>> /\ tail = <<FP, SF, RET>>
    <3>1. IsSeq(w) /\ Len(w) = 2 /\ w[1] = p /\ w[2] = a
      BY <2>4, IsSeqShort, TwoFirst
    <3>2. \A i \in 1..2 : i = 1 \/ i = 2
      OBVIOUS
    <3> QED
      BY <3>1, <3>2, <2>4
  <2> QED
    BY <2>1, <2>2, <2>3, <2>4, <1>7
<1>10. Ending(tail)' /\ IsSeq(tail) /\ \A i \in 1..Len(tail) : tail[i] \in {FP, SF, RET}
  <2>1. tail \in {<<FP, RET>>, <<FP, SF, RET>>}
    BY <1>7
  <2>2. Ending(tail)' /\ Ending(tail)
    BY <2>1, <1>1, <1>4 DEF Ending, Ends
  <2> QED
    BY <2>2, EndsFacts
<1>11. \A i \in DOMAIN todo' : ~Releasing(todo'[i])
  <2>1. IsSeq(todo')
    BY <1>7, <1>9, <1>10, Joined
  <2>2. ~Releasing(FP) /\ ~Releasing(SF) /\ ~Releasing(RET)
    BY DEF Releasing, FP, SF, RET
  <2>3. ASSUME NEW i \in 1..Len(todo')
        PROVE  ~Releasing(todo'[i])
    <3>1. i \in 1..Len(w \o tail) /\ IsSeq(w) /\ IsSeq(tail)
      BY <1>7, <1>9, <1>10
    <3>2. \/ i \in 1..Len(w) /\ todo'[i] = w[i]
          \/ \E j \in 1..Len(tail) : todo'[i] = tail[j]
      BY <3>1, <1>7, InEither
    <3> QED
      BY <3>2, <2>2, <1>8, <1>9, <1>10
  <2> QED
    BY <2>1, <2>3, SeqFacts
<1>12. /\ \A p1 \in Owners' : p1 \in Owners /\ Held(p1)' = Held(p1)
       /\ \A p1 \in Owners : p1 \in Owners' /\ Held(p1)' = Held(p1)
  <2>1. \A d : <<"call", d, 0>> \notin Places'
    BY <1>11, PlaceFactsPrime
  <2>2. ASSUME NEW q \in Places'
        PROVE  q \in Places /\ Held(q)' = Held(q)
    <3>1. CASE \E i \in DOMAIN vals' : q = <<"value", i, 0>>
      BY <3>1, <1>1, <1>5
    <3>2. CASE \E b \in Alive' : \E i \in DOMAIN heap'[b].kids : q = <<"field", b, i>>
      <4>1. PICK b, i : b \in Alive /\ q = <<"field", b, i>> /\ i \in DOMAIN KidsOf(b)
        BY <3>2, <1>1 DEF Alive, KidsOf
      <4> QED
        BY <4>1, <1>1, PlaceFacts, PlaceFactsPrime DEF PlaceLaws, KidsOf
    <3>3. CASE q \in {<<"program", 0, 0>>, <<"st", 0, 0>>}
      BY <3>3, <1>1, PlaceFacts, PlaceFactsPrime DEF PlaceLaws
    <3> QED
      BY <3>1, <3>2, <3>3, <2>1, PlaceFactsPrime
  <2>3. ASSUME NEW q \in Places
        PROVE  q \in Places' /\ Held(q)' = Held(q)
    <3>1. CASE \E i \in DOMAIN vals : q = <<"value", i, 0>>
      BY <3>1, <1>5
    <3>2. CASE \E b \in Alive : \E i \in DOMAIN KidsOf(b) : q = <<"field", b, i>>
      <4>1. PICK b, i : b \in Alive /\ q = <<"field", b, i>> /\ i \in DOMAIN KidsOf(b)
        BY <3>2
      <4>2. b \in Alive' /\ i \in DOMAIN heap'[b].kids
        BY <4>1, <1>1 DEF Alive, KidsOf
      <4> QED
        BY <4>1, <4>2, <1>1, PlaceFacts, PlaceFactsPrime DEF PlaceLaws, KidsOf
    <3>3. CASE q \in {<<"program", 0, 0>>, <<"st", 0, 0>>}
      BY <3>3, <1>1, PlaceFacts, PlaceFactsPrime DEF PlaceLaws
    <3> QED
      BY <3>1, <3>2, <3>3, <1>4, PlaceFacts DEF PlaceLaws
  <2> QED
    BY <2>2, <2>3, PlaceFacts, PlaceFactsPrime DEF PlaceLaws
<1>13. Memory'
  <2>1. TypeOK'
    <3>1. vals' \in {vals, <<>>} /\ phase' \in {"run", "done", "abort", "undefined"}
      BY <1>1
    <3> QED
      BY <3>1, <1>1, <1>3, TypeKept
  <2>2. PICK R, G : R = {} /\ G = {}
    OBVIOUS
  <2>3. /\ \A q \in Owners' \ G : q \in Owners \ R /\ Held(q)' = Held(q)
        /\ \A q \in Owners \ R : q \in Owners' /\ Held(q)' = Held(q)
        /\ \A q \in G \cap Owners' : \E r \in R \cap Owners : Held(r) = Held(q)'
        /\ \A q, r \in G \cap Owners' : Held(q)' = Held(r)' => q = r
        /\ \A r \in R \cap Owners : \E q \in G \cap Owners' : Held(q)' = Held(r)
    BY <1>12, <2>2
  <2>4. program' \in {program, NULL} /\ st' \in {st, NULL} /\ UNCHANGED <<heap, fresh, causes>>
    BY <1>1
  <2>5. \A b \in Alive : Emptied(b) => Emptied(b)'
    BY <1>4
  <2> QED
    BY ONLY <1>2, <2>1, <2>3, <2>4, <2>5, Passed
<1>14. Later'
  <2>1. program \in 0..program /\ program \in Alive /\ Alive' = Alive
    BY <1>1, <1>3, <1>5 DEF Rooted, Tagged, Alive, References, Address, NULL
  <2>2. Good(p)' /\ Good(a)'
    BY ONLY <1>1, <1>5, <1>8, <2>1 DEF Good, Borrowing
  <2>3. Ordered(w, tail)'
    <3> SUFFICES ASSUME NEW i \in 1..Len(w)
                 PROVE  /\ Good(w[i])'
                        /\ Analyzing(w[i]) =>
                             /\ tail = <<FP, SF, RET>>
                             /\ IF st' = NULL THEN i = Len(w) /\ w[i] = <<"analyze", program'>>
                                              ELSE w[i][1] = "analyze" => w[i][2] # program'
      BY DEF Ordered, Analyzing
    <3> QED
      BY <2>2, <1>1, <1>4, <1>6, <1>8, <1>9
  <2>4. LaterIs(w, tail)'
    BY <2>3, <1>1, <1>5, <1>7, <1>9, <1>10 DEF LaterIs
  <2>5. LaterLaw'
    BY LaterHolds, PTL
  <2> QED
    BY <2>4, <2>5 DEF LaterLaw
<1> QED
  BY <1>1, <1>13, <1>14 DEF Sound, Memory, NoMisuse

(* What lists of tasks make of a stack *)

LEMMA RunNone == \A s, t : Run(<<>>, s, t) <=> s = t
<1> TAKE s, t
<1>1. Len(<<>>) = 0 /\ 1..0 = {}
  OBVIOUS
<1>2. ASSUME Run(<<>>, s, t)
      PROVE  s = t
  BY <1>1, <1>2 DEF Run
<1>3. ASSUME s = t
      PROVE  Run(<<>>, s, t)
  <2>1. PICK g : g = <<s>>
    OBVIOUS
  <2>2. g[1] = s /\ g[0 + 1] = t
    BY <2>1, <1>3, TwoFirst
  <2> QED
    BY <1>1, <2>2 DEF Run
<1> QED
  BY <1>2, <1>3

LEMMA RunOne ==
  ASSUME NEW x, NEW s, NEW t, Step(x, s, t)
  PROVE  Run(<<x>>, s, t)
<1>1. PICK g, w : g = <<s, t>> /\ w = <<x>>
  OBVIOUS
<1>2. g[1] = s /\ g[1 + 1] = t /\ Len(w) = 1 /\ w[1] = x
  BY <1>1, TwoFirst
<1>3. \A i \in 1..1 : i = 1
  OBVIOUS
<1>4. Run(w, s, t)
  BY <1>2, <1>3 DEF Run
<1> QED
  BY <1>1, <1>4

LEMMA RunHead ==
  ASSUME NEW w, NEW s, NEW t, IsSeq(w), w # <<>>, Run(w, s, t)
  PROVE  \E u : Step(Head(w), s, u) /\ Run(Tail(w), u, t)
<1>1. PICK g : /\ g[1] = s /\ g[Len(w) + 1] = t
               /\ \A i \in 1..Len(w) : Step(w[i], g[i], g[i + 1])
  BY DEF Run
<1>2. PICK n : n = Len(w) - 1
  OBVIOUS
<1>3. /\ n \in Nat /\ Len(w) = n + 1 /\ Head(w) = w[1] /\ Len(Tail(w)) = n
      /\ \A i \in 1..n : Tail(w)[i] = w[i + 1]
  BY <1>2, SeqFacts
<1>4. PICK h : h = [i \in 1..(n + 1) |-> g[i + 1]]
  OBVIOUS
<1>5. h[1] = g[1 + 1] /\ h[n + 1] = t
  BY <1>1, <1>3, <1>4
<1>6. \A i \in 1..n : Step(Tail(w)[i], h[i], h[i + 1])
  <2> TAKE i \in 1..n
  <2>1. i + 1 \in 1..(n + 1) /\ i \in 1..(n + 1)
    BY <1>3
  <2>2. h[i] = g[i + 1] /\ h[i + 1] = g[(i + 1) + 1]
    BY <2>1, <1>4
  <2>3. Step(w[i + 1], g[i + 1], g[(i + 1) + 1])
    BY <2>1, <1>1, <1>3
  <2> QED
    BY <2>2, <2>3, <1>3
<1>7. Run(Tail(w), h[1], t)
  BY <1>3, <1>5, <1>6 DEF Run
<1>8. Step(Head(w), s, h[1])
  BY <1>1, <1>3, <1>5
<1> QED
  BY <1>7, <1>8

LEMMA RunAfter ==
  ASSUME NEW v, NEW w, NEW s, NEW t, NEW u, IsSeq(v), IsSeq(w), Run(v, s, t), Run(w, t, u)
  PROVE  Run(v \o w, s, u)
<1>1. PICK m, n : m = Len(v) /\ n = Len(w)
  OBVIOUS
<1>2. m \in Nat /\ n \in Nat
  BY <1>1, SeqFacts
<1>3. PICK g : g[1] = s /\ g[m + 1] = t /\ \A i \in 1..m : Step(v[i], g[i], g[i + 1])
  BY <1>1 DEF Run
<1>4. PICK h : h[1] = t /\ h[n + 1] = u /\ \A i \in 1..n : Step(w[i], h[i], h[i + 1])
  BY <1>1 DEF Run
<1>5. PICK f : f = [i \in 1..(m + n + 1) |-> IF i <= m THEN g[i] ELSE h[i - m]]
  OBVIOUS
<1>6. f[1] = s /\ f[m + n + 1] = u
  <2>1. m + n + 1 \in 1..(m + n + 1) /\ ~(m + n + 1 <= m) /\ (m + n + 1) - m = n + 1
        /\ 1 \in 1..(m + n + 1)
    BY <1>2
  <2>2. f[m + n + 1] = u
    BY <2>1, <1>4, <1>5
  <2>3. CASE m = 0
    <3>1. f[1] = h[1]
      BY <2>1, <2>3, <1>5
    <3> QED
      BY <3>1, <2>2, <2>3, <1>3, <1>4
  <2>4. CASE m # 0
    <3>1. 1 <= m
      BY <2>4, <1>2
    <3> QED
      BY <3>1, <2>1, <2>2, <1>3, <1>5
  <2> QED
    BY <2>3, <2>4
<1>7. Len(v \o w) = m + n
  BY <1>1, SeqFacts
<1>8. ASSUME NEW k \in 1..(m + n)
      PROVE  Step((v \o w)[k], f[k], f[k + 1])
  <2>1. CASE k \in 1..m /\ (v \o w)[k] = v[k]
    <3>1. k \in 1..(m + n + 1) /\ k + 1 \in 1..(m + n + 1) /\ k <= m
      BY <2>1, <1>2
    <3>2. f[k] = g[k]
      BY <3>1, <1>5
    <3>3. f[k + 1] = g[k + 1]
      <4>1. CASE k + 1 <= m
        BY <4>1, <3>1, <1>5
      <4>2. CASE ~(k + 1 <= m)
        <5>1. k = m /\ (k + 1) - m = 1
          BY <4>2, <3>1, <1>2
        <5>2. f[k + 1] = h[1]
          BY <5>1, <4>2, <3>1, <1>5
        <5> QED
          BY <5>1, <5>2, <1>3, <1>4
      <4> QED
        BY <4>1, <4>2
    <3> QED
      BY <2>1, <3>2, <3>3, <1>3
  <2>2. CASE \E j \in 1..n : k = m + j /\ (v \o w)[k] = w[j]
    <3>1. PICK j \in 1..n : k = m + j /\ (v \o w)[k] = w[j]
      BY <2>2
    <3>2. /\ k \in 1..(m + n + 1) /\ k + 1 \in 1..(m + n + 1) /\ ~(k <= m) /\ ~(k + 1 <= m)
          /\ k - m = j /\ (k + 1) - m = j + 1
      BY <3>1, <1>2
    <3>3. f[k] = h[j] /\ f[k + 1] = h[j + 1]
      BY <3>2, <1>5
    <3> QED
      BY <3>1, <3>3, <1>4
  <2> QED
    <3>1. k \in 1..Len(v \o w)
      BY <1>7
    <3> QED
      BY <3>1, <2>1, <2>2, <1>1, InEither
<1> QED
  BY <1>6, <1>7, <1>8 DEF Run

LEMMA RunTwo ==
  ASSUME NEW a, NEW b, NEW s, NEW t, NEW u, Step(a, s, t), Step(b, t, u)
  PROVE  Run(<<a, b>>, s, u)
<1>1. Run(<<a>>, s, t) /\ Run(<<b>>, t, u)
  BY RunOne
<1>2. Run(<<a>> \o <<b>>, s, u)
  BY <1>1, IsSeqShort, RunAfter
<1> QED
  BY <1>2, Pairs

LEMMA RunThree ==
  ASSUME NEW a, NEW b, NEW c, NEW s, NEW t, NEW u, NEW v, Step(a, s, t), Step(b, t, u), Step(c, u, v)
  PROVE  Run(<<a, b, c>>, s, v)
<1>1. Run(<<a>>, s, t) /\ Run(<<b, c>>, t, v)
  BY RunOne, RunTwo
<1>2. Run(<<a>> \o <<b, c>>, s, v)
  BY <1>1, IsSeqShort, RunAfter
<1> QED
  BY <1>2, Pairs, ZenonT(60)

LEMMA RunFour ==
  ASSUME NEW a, NEW b, NEW c, NEW d, NEW s, NEW t, NEW u, NEW v, NEW x,
         Step(a, s, t), Step(b, t, u), Step(c, u, v), Step(d, v, x)
  PROVE  Run(<<a, b, c, d>>, s, x)
<1>1. Run(<<a>>, s, t) /\ Run(<<b, c, d>>, t, x)
  BY RunOne, RunThree
<1>2. Run(<<a>> \o <<b, c, d>>, s, x)
  BY <1>1, IsSeqShort, RunAfter
<1>3. <<a>> \o <<b, c, d>> = <<a, b, c, d>>
  BY ONLY Pairs
<1> QED
  BY ONLY <1>2, <1>3, Zenon

LEMMA Appended ==
  ASSUME NEW s \in Stack
  PROVE  /\ IsSeq(s) /\ Len(s) \in Nat
         /\ \A a \in Kind : Append(s, a) \in Stack /\ Append(s, a) = s \o <<a>>
         /\ \A a, b \in Kind : Append(Append(s, a), b) = s \o <<a, b>>
         /\ \A a, b, c \in Kind : Append(Append(Append(s, a), b), c) = s \o <<a, b, c>>
<1>1. IsSeq(s) /\ Len(s) \in Nat
  BY DEF Stack, IsSeq
<1>2. \A r \in Stack : \A a \in Kind : Append(r, a) \in Stack /\ Append(r, a) = r \o <<a>>
  BY DEF Stack
<1>3. ASSUME NEW a \in Kind, NEW b \in Kind
      PROVE  Append(Append(s, a), b) = s \o <<a, b>>
  <2>1. Append(Append(s, a), b) = (s \o <<a>>) \o <<b>>
    BY <1>2
  <2>2. (s \o <<a>>) \o <<b>> = s \o (<<a>> \o <<b>>)
    BY <1>1, IsSeqShort, Concatenated
  <2>3. <<a>> \o <<b>> = <<a, b>>
    BY ONLY Pairs
  <2> QED
    BY ONLY <2>1, <2>2, <2>3, Zenon
<1>4. ASSUME NEW a \in Kind, NEW b \in Kind, NEW c \in Kind
      PROVE  Append(Append(Append(s, a), b), c) = s \o <<a, b, c>>
  <2>1. PICK t : t = Append(s, a)
    OBVIOUS
  <2>2. t \in Stack /\ t = s \o <<a>>
    BY <2>1, <1>2
  <2>3. Append(Append(t, b), c) = (t \o <<b>>) \o <<c>>
    BY <1>2, <2>2
  <2>4. IsSeq(t)
    BY <2>2 DEF Stack, IsSeq
  <2>5. (t \o <<b>>) \o <<c>> = t \o (<<b>> \o <<c>>)
    BY <2>4, IsSeqShort, Concatenated
  <2>6. (s \o <<a>>) \o <<b, c>> = s \o (<<a>> \o <<b, c>>)
    BY <1>1, IsSeqShort, Concatenated
  <2>7. <<b>> \o <<c>> = <<b, c>> /\ <<a>> \o <<b, c>> = <<a, b, c>>
    BY ONLY Pairs
  <2> QED
    BY ONLY <2>1, <2>2, <2>3, <2>5, <2>6, <2>7, Zenon
<1> QED
  BY <1>1, <1>2, <1>3, <1>4

(* A task, or a list of them, leaves one more value. *)
Pushes(task, kind) == kind \in Kind /\ \A s \in Stack : Step(task, s, Append(s, kind))
Makes(work, kind) == \A s \in Stack : Run(work, s, Append(s, kind))

LEMMA PushTasks ==
  /\ Pushes(Token, "string")
  /\ Pushes(Null, "ref") /\ Pushes(Null, "result")
  /\ Pushes(Operator, "operator")
  /\ \A symbol, kind : Yields(symbol, kind) => Pushes(Parse(symbol), kind)
  /\ \A tag, kind : Builds(tag, <<>>, kind) => Pushes(Build(tag, 0), kind)
<1>1. "string" \in Kind /\ "ref" \in Kind /\ "result" \in Kind /\ "operator" \in Kind
  BY DEF Kind
<1>2. Pushes(Token, "string") /\ Pushes(Null, "ref") /\ Pushes(Null, "result") /\ Pushes(Operator, "operator")
  <2>1. ASSUME NEW s \in Stack, NEW a \in Kind
        PROVE  Append(s, a) \in Stack
    BY Appended
  <2> QED
    BY <2>1, <1>1 DEF Pushes, Step
<1>3. ASSUME NEW symbol, NEW kind, Yields(symbol, kind)
      PROVE  Pushes(Parse(symbol), kind)
  <2>1. kind \in Kind
    BY <1>3 DEF Yields, Kind
  <2> QED
    BY <1>3, <2>1, Appended DEF Pushes, Step
<1>4. ASSUME NEW tag, NEW kind, Builds(tag, <<>>, kind)
      PROVE  Pushes(Build(tag, 0), kind)
  <2>1. kind \in Kind
    BY <1>4 DEF Builds, Kind
  <2>2. ASSUME NEW s \in Stack
        PROVE  Step(Build(tag, 0), s, Append(s, kind))
    <3>1. Append(s, kind) \in Stack /\ s \o <<>> = s /\ Len(<<>>) = 0
      BY <2>1, Appended, Concatenated
    <3>2. PICK kinds : kinds = <<>>
      OBVIOUS
    <3>3. Builds(tag, kinds, kind) /\ s = s \o kinds /\ Build(tag, 0) = Build(tag, Len(kinds))
      BY <1>4, <3>1, <3>2
    <3> QED
      BY ONLY <3>1, <3>3, s \in Stack DEF Step
  <2> QED
    BY <2>1, <2>2 DEF Pushes
<1> QED
  BY <1>2, <1>3, <1>4

LEMMA BuildStep ==
  ASSUME NEW tag, NEW kinds, NEW kind, Builds(tag, kinds, kind), NEW n, n = Len(kinds),
         NEW r \in Stack, NEW s \in Stack, s = r \o kinds
  PROVE  Step(Build(tag, n), s, Append(r, kind)) /\ Append(r, kind) \in Stack
<1>1. kind \in Kind
  BY DEF Builds, Kind
<1>2. Append(r, kind) \in Stack
  BY <1>1, Appended
<1> QED
  BY <1>2 DEF Step

(* The forms of right-hand sides. *)
LEMMA MakesOne ==
  ASSUME NEW x, NEW a, Pushes(x, a)
  PROVE  Makes(<<x>>, a)
BY RunOne DEF Pushes, Makes

LEMMA MakesOf1 ==
  ASSUME NEW x, NEW a, Pushes(x, a), NEW tag, NEW kind, Builds(tag, <<a>>, kind)
  PROVE  Makes(<<x, Build(tag, 1)>>, kind)
<1> SUFFICES ASSUME NEW s \in Stack
             PROVE  Run(<<x, Build(tag, 1)>>, s, Append(s, kind))
  BY DEF Makes
<1>1. PICK t : t = Append(s, a)
  OBVIOUS
<1>2. a \in Kind /\ Step(x, s, t) /\ t \in Stack /\ t = s \o <<a>>
  BY <1>1, Appended DEF Pushes
<1>3. PICK kinds : kinds = <<a>>
  OBVIOUS
<1>4. Builds(tag, kinds, kind) /\ 1 = Len(kinds) /\ t = s \o kinds
  BY <1>2, <1>3, TwoFirst
<1>5. Step(Build(tag, 1), t, Append(s, kind))
  BY <1>2, <1>4, BuildStep
<1> QED
  BY ONLY <1>2, <1>5, RunTwo

LEMMA MakesOf2 ==
  ASSUME NEW x, NEW a, Pushes(x, a), NEW y, NEW b, Pushes(y, b),
         NEW tag, NEW kind, Builds(tag, <<a, b>>, kind)
  PROVE  Makes(<<x, y, Build(tag, 2)>>, kind)
<1> SUFFICES ASSUME NEW s \in Stack
             PROVE  Run(<<x, y, Build(tag, 2)>>, s, Append(s, kind))
  BY DEF Makes
<1>1. PICK t, u : t = Append(s, a) /\ u = Append(t, b)
  OBVIOUS
<1>2. a \in Kind /\ Step(x, s, t) /\ t \in Stack
  BY <1>1, Appended DEF Pushes
<1>3. b \in Kind /\ Step(y, t, u) /\ u \in Stack
  BY <1>1, <1>2, Appended DEF Pushes
<1>4. PICK kinds : kinds = <<a, b>>
  OBVIOUS
<1>5. u = s \o kinds
  BY <1>1, <1>2, <1>3, <1>4, Appended
<1>6. Builds(tag, kinds, kind) /\ 2 = Len(kinds)
  BY <1>4, TwoFirst
<1>7. Step(Build(tag, 2), u, Append(s, kind))
  BY <1>3, <1>5, <1>6, BuildStep
<1> QED
  BY ONLY <1>2, <1>3, <1>7, RunThree

LEMMA MakesOf3 ==
  ASSUME NEW x, NEW a, Pushes(x, a), NEW y, NEW b, Pushes(y, b), NEW z, NEW c, Pushes(z, c),
         NEW tag, NEW kind, Builds(tag, <<a, b, c>>, kind)
  PROVE  Makes(<<x, y, z, Build(tag, 3)>>, kind)
<1> SUFFICES ASSUME NEW s \in Stack
             PROVE  Run(<<x, y, z, Build(tag, 3)>>, s, Append(s, kind))
  BY DEF Makes
<1>1. PICK t, u, v : t = Append(s, a) /\ u = Append(t, b) /\ v = Append(u, c)
  OBVIOUS
<1>2. a \in Kind /\ Step(x, s, t) /\ t \in Stack
  BY <1>1, Appended DEF Pushes
<1>3. b \in Kind /\ Step(y, t, u) /\ u \in Stack
  BY <1>1, <1>2, Appended DEF Pushes
<1>4. c \in Kind /\ Step(z, u, v) /\ v \in Stack
  BY <1>1, <1>3, Appended DEF Pushes
<1>5. PICK kinds : kinds = <<a, b, c>>
  OBVIOUS
<1>6. v = s \o kinds
  <2>1. Append(Append(Append(s, a), b), c) = s \o <<a, b, c>>
    BY <1>2, <1>3, <1>4, Appended, ZenonT(60)
  <2> QED
    BY ONLY <1>1, <1>5, <2>1, Zenon
<1>7. Builds(tag, kinds, kind) /\ 3 = Len(kinds)
  BY <1>5, TwoFirst
<1>8. Step(Build(tag, 3), v, Append(s, kind))
  BY <1>4, <1>6, <1>7, BuildStep
<1> QED
  BY ONLY <1>2, <1>3, <1>4, <1>8, RunFour

LEMMA PushAll ==
  ASSUME NEW work, NEW kinds, IsSeq(work), kinds \in Stack, Len(work) = Len(kinds),
         \A i \in 1..Len(kinds) : Pushes(work[i], kinds[i]), NEW s \in Stack
  PROVE  Run(work, s, s \o kinds) /\ s \o kinds \in Stack
<1>1. PICK n : n = Len(kinds)
  OBVIOUS
<1>2. n \in Nat /\ IsSeq(s) /\ IsSeq(kinds) /\ \A i \in 1..n : kinds[i] \in Kind
  BY <1>1, Appended DEF Stack
<1>3. PICK p : p = [i \in 0..n |-> [j \in 1..i |-> kinds[j]]]
  OBVIOUS
<1>4. ASSUME NEW i \in 0..n
      PROVE  p[i] \in Stack /\ Len(p[i]) = i /\ \A j \in 1..i : p[i][j] = kinds[j]
  <2>1. p[i] = [j \in 1..i |-> kinds[j]]
    BY <1>3
  <2>2. \A j \in 1..i : kinds[j] \in Kind /\ p[i][j] = kinds[j]
    BY <1>2, <2>1
  <2>3. p[i] \in Seq(Kind)
    BY <2>1, <2>2
  <2>4. IsSeq(p[i]) /\ Len(p[i]) = i
    <3>1. i \in Nat /\ p[i] = [j \in 1..i |-> p[i][j]]
      BY <2>1, <2>2
    <3> QED
      BY <3>1, MadeSeq
  <2> QED
    BY <2>2, <2>3, <2>4 DEF Stack
<1>5. p[0] = <<>> /\ p[n] = kinds
  <2>1. 0 \in 0..n /\ n \in 0..n
    BY <1>2
  <2>2. Len(p[0]) = 0 /\ IsSeq(p[0])
    BY <2>1, <1>4 DEF Stack, IsSeq
  <2>3. p[0] = <<>>
    BY <2>2, SeqFacts
  <2>4. IsSeq(p[n]) /\ Len(p[n]) = n /\ \A j \in 1..n : p[n][j] = kinds[j]
    BY <2>1, <1>4 DEF Stack, IsSeq
  <2>5. p[n] = kinds
    <3>1. Len(p[n]) = Len(kinds) /\ \A j \in 1..Len(p[n]) : p[n][j] = kinds[j]
      BY <2>4, <1>1
    <3> QED
      BY <3>1, <2>4, <1>2, SeqExtensional
  <2> QED
    BY <2>3, <2>5
<1>6. PICK g : g = [i \in 1..(n + 1) |-> s \o p[i - 1]]
  OBVIOUS
<1>7. \A i \in 1..(n + 1) : i - 1 \in 0..n /\ g[i] = s \o p[i - 1]
  BY <1>2, <1>6
<1>8. g[1] = s /\ g[n + 1] = s \o kinds
  <2>1. 1 \in 1..(n + 1) /\ n + 1 \in 1..(n + 1) /\ 1 - 1 = 0 /\ (n + 1) - 1 = n
    BY <1>2
  <2>2. g[1] = s \o p[0] /\ g[n + 1] = s \o p[n]
    BY <2>1, <1>6
  <2> QED
    BY <2>2, <1>2, <1>5, Concatenated
<1>9. \A i \in 0..n : s \o p[i] \in Stack
  BY <1>4 DEF Stack
<1>10. ASSUME NEW i \in 1..n
       PROVE  Step(work[i], g[i], g[i + 1])
  <2>1. i - 1 \in 0..n /\ i \in 0..n /\ i \in 1..(n + 1) /\ i + 1 \in 1..(n + 1)
        /\ (i + 1) - 1 = i
    BY <1>2
  <2>2. g[i] = s \o p[i - 1] /\ g[i + 1] = s \o p[i]
    BY <2>1, <1>6
  <2>3. PICK q, r, a : q = p[i - 1] /\ r = p[i] /\ a = kinds[i]
    OBVIOUS
  <2>4. /\ q \in Stack /\ Len(q) = i - 1 /\ (\A j \in 1..(i - 1) : q[j] = kinds[j])
        /\ r \in Stack /\ Len(r) = i /\ (\A j \in 1..i : r[j] = kinds[j])
        /\ a \in Kind /\ Pushes(work[i], a)
    BY <2>1, <2>3, <1>1, <1>2, <1>4
  <2>5. q \o <<a>> = r
    <3>1. IsSeq(q) /\ IsSeq(<<a>>) /\ IsSeq(r) /\ Len(<<a>>) = 1 /\ <<a>>[1] = a
      BY <2>4, IsSeqShort, TwoFirst DEF Stack, IsSeq
    <3>2. Len(r) = (i - 1) + 1 /\ \A j \in 1..(i - 1) : r[j] = q[j]
      BY <2>4
    <3>3. \A j \in 1..1 : r[(i - 1) + j] = <<a>>[j]
      <4>1. r[(i - 1) + 1] = a
        BY <2>3, <2>4
      <4>2. \A j \in 1..1 : j = 1
        OBVIOUS
      <4> QED
        BY <3>1, <4>1, <4>2
    <3>4. PICK one : one = <<a>>
      OBVIOUS
    <3>5. Joins(q, one, r, i - 1, 1)
      BY <3>1, <3>2, <3>3, <3>4, <2>4 DEF Joins
    <3> QED
      BY <3>4, <3>5, GluedAt
  <2>6. Append(s \o q, a) = s \o r
    <3>1. s \o q \in Stack
      BY <2>1, <2>3, <1>9
    <3>2. Append(s \o q, a) = (s \o q) \o <<a>>
      BY <3>1, <2>4, Appended
    <3>3. (s \o q) \o <<a>> = s \o (q \o <<a>>)
      BY <1>2, <2>4, IsSeqShort, Concatenated DEF Stack, IsSeq
    <3> QED
      BY ONLY <3>2, <3>3, <2>5, Zenon
  <2>7. Step(work[i], s \o q, Append(s \o q, a))
    BY <2>1, <2>3, <2>4, <1>9 DEF Pushes
  <2> QED
    BY <2>2, <2>3, <2>6, <2>7
<1> QED
  <2>1. Run(work, s, s \o kinds)
    BY <1>1, <1>8, <1>10 DEF Run
  <2>2. s \o kinds \in Stack
    BY DEF Stack
  <2> QED
    BY <2>1, <2>2

LEMMA LongPairs ==
  /\ \A a, b, c, d, e : <<a, b, c, d>> \o <<e>> = <<a, b, c, d, e>>
  /\ \A a, b, c, d, e, f, g, h : <<a, b, c, d, e, f, g>> \o <<h>> = <<a, b, c, d, e, f, g, h>>
  /\ \A a, b, c, d, e, f, g : <<a, b, c, d, e, f>> \o <<g>> = <<a, b, c, d, e, f, g>>
<1>0. \A i \in 1..1 : i = 1
  OBVIOUS
<1>1. \A a, b, c, d, e : <<a, b, c, d>> \o <<e>> = <<a, b, c, d, e>>
  <2> TAKE a, b, c, d, e
  <2>1. PICK s, t, u : s = <<a, b, c, d>> /\ t = <<e>> /\ u = <<a, b, c, d, e>>
    OBVIOUS
  <2>2. /\ s \in Seq({a, b, c, d, e}) /\ t \in Seq({a, b, c, d, e}) /\ u \in Seq({a, b, c, d, e})
    BY <2>1
  <2>3. /\ Len(s) = 4 /\ Len(t) = 1 /\ t[1] = e /\ Len(u) = 4 + 1 /\ u[4 + 1] = e
        /\ \A i \in 1..4 : u[i] = s[i]
    BY <2>1
  <2>4. Joins(s, t, u, 4, 1)
    BY <2>2, <2>3, <1>0 DEF Joins, IsSeq
  <2> QED
    BY <2>1, <2>4, GluedAt
<1>2. \A a, b, c, d, e, f, g, h : <<a, b, c, d, e, f, g>> \o <<h>> = <<a, b, c, d, e, f, g, h>>
  <2> TAKE a, b, c, d, e, f, g, h
  <2>1. PICK s, t, u : /\ s = <<a, b, c, d, e, f, g>> /\ t = <<h>>
                       /\ u = <<a, b, c, d, e, f, g, h>>
    OBVIOUS
  <2>2. PICK S : S = {a, b, c, d, e, f, g, h}
    OBVIOUS
  <2>3. s \in Seq(S) /\ t \in Seq(S) /\ u \in Seq(S)
    BY <2>1, <2>2
  <2>4. /\ Len(s) = 7 /\ Len(t) = 1 /\ t[1] = h /\ Len(u) = 7 + 1 /\ u[7 + 1] = h
        /\ \A i \in 1..7 : u[i] = s[i]
    BY <2>1
  <2>5. Joins(s, t, u, 7, 1)
    BY <2>3, <2>4, <1>0 DEF Joins, IsSeq
  <2> QED
    BY <2>1, <2>5, GluedAt
<1>3. \A a, b, c, d, e, f, g : <<a, b, c, d, e, f>> \o <<g>> = <<a, b, c, d, e, f, g>>
  <2> TAKE a, b, c, d, e, f, g
  <2>1. PICK s, t, u : /\ s = <<a, b, c, d, e, f>> /\ t = <<g>>
                       /\ u = <<a, b, c, d, e, f, g>>
    OBVIOUS
  <2>2. PICK S : S = {a, b, c, d, e, f, g}
    OBVIOUS
  <2>3. s \in Seq(S) /\ t \in Seq(S) /\ u \in Seq(S)
    BY <2>1, <2>2
  <2>4. /\ Len(s) = 6 /\ Len(t) = 1 /\ t[1] = g /\ Len(u) = 6 + 1 /\ u[6 + 1] = g
        /\ \A i \in 1..6 : u[i] = s[i]
    BY <2>1
  <2>5. Joins(s, t, u, 6, 1)
    BY <2>3, <2>4, <1>0 DEF Joins, IsSeq
  <2> QED
    BY <2>1, <2>5, GluedAt
<1> QED
  BY <1>1, <1>2, <1>3

(* A list of tasks that leaves one more value, and what comes after it *)
LEMMA MakesThen ==
  ASSUME NEW w, NEW a, IsSeq(w), Makes(w, a), a \in Kind, NEW x, NEW kind,
         \A s \in Stack : Step(x, Append(s, a), Append(s, kind))
  PROVE  Makes(w \o <<x>>, kind)
<1> SUFFICES ASSUME NEW s \in Stack
             PROVE  Run(w \o <<x>>, s, Append(s, kind))
  BY DEF Makes
<1>1. Run(w, s, Append(s, a))
  BY DEF Makes
<1>2. Run(<<x>>, Append(s, a), Append(s, kind))
  BY RunOne
<1> QED
  BY <1>1, <1>2, IsSeqShort, RunAfter

(* A token without a value leaves the stack as it is. *)
LEMMA ExpectStep == \A s \in Stack : Step(Expect, s, s)
BY Zenon DEF Step

LEMMA MakesExpected ==
  ASSUME NEW w, NEW a, IsSeq(w), Makes(w, a), a \in Kind
  PROVE  Makes(w \o <<Expect>>, a)
<1>1. ASSUME NEW s \in Stack
      PROVE  Step(Expect, Append(s, a), Append(s, a))
  BY ExpectStep, Appended
<1> QED
  BY <1>1, MakesThen

LEMMA MakesOf2Expected ==
  ASSUME NEW x, NEW a, Pushes(x, a), NEW y, NEW b, Pushes(y, b),
         NEW tag, NEW kind, Builds(tag, <<a, b>>, kind)
  PROVE  Makes(<<x, y, Expect, Build(tag, 2)>>, kind)
<1> SUFFICES ASSUME NEW s \in Stack
             PROVE  Run(<<x, y, Expect, Build(tag, 2)>>, s, Append(s, kind))
  BY DEF Makes
<1>1. PICK t, u : t = Append(s, a) /\ u = Append(t, b)
  OBVIOUS
<1>2. a \in Kind /\ Step(x, s, t) /\ t \in Stack
  BY <1>1, Appended DEF Pushes
<1>3. b \in Kind /\ Step(y, t, u) /\ u \in Stack
  BY <1>1, <1>2, Appended DEF Pushes
<1>4. PICK kinds : kinds = <<a, b>>
  OBVIOUS
<1>5. u = s \o kinds
  BY <1>1, <1>2, <1>3, <1>4, Appended
<1>6. Builds(tag, kinds, kind) /\ 2 = Len(kinds)
  BY <1>4, TwoFirst
<1>7. Step(Build(tag, 2), u, Append(s, kind))
  BY <1>3, <1>5, <1>6, BuildStep
<1>8. Step(Expect, u, u)
  BY <1>3, ExpectStep
<1> QED
  BY ONLY <1>2, <1>3, <1>7, <1>8, RunFour

LEMMA MakesBuilt ==
  ASSUME NEW w, NEW a, IsSeq(w), Makes(w, a), NEW tag, NEW kind, Builds(tag, <<a>>, kind), a \in Kind
  PROVE  Makes(w \o <<Build(tag, 1)>>, kind)
<1>1. ASSUME NEW s \in Stack
      PROVE  Step(Build(tag, 1), Append(s, a), Append(s, kind))
  <2>1. PICK kinds, t : kinds = <<a>> /\ t = Append(s, a)
    OBVIOUS
  <2>2. t \in Stack /\ t = s \o kinds
    BY <2>1, Appended
  <2>3. Builds(tag, kinds, kind) /\ 1 = Len(kinds)
    BY <2>1, TwoFirst
  <2>4. Step(Build(tag, 1), t, Append(s, kind))
    BY <2>2, <2>3, BuildStep
  <2> QED
    BY ONLY <2>1, <2>4, Zenon
<1> QED
  BY <1>1, MakesThen

MoreIs(x, work, list) == x = More(work) /\ Repeats(work, list)
LEMMA MakesMore ==
  ASSUME NEW w, NEW list, IsSeq(w), Makes(w, list), NEW x, NEW work, MoreIs(x, work, list)
  PROVE  Makes(w \o <<x>>, list)
<1>1. list \in Kind
  BY DEF MoreIs, Repeats, Kind
<1>2. ASSUME NEW s \in Stack
      PROVE  Step(x, Append(s, list), Append(s, list))
  <2>1. PICK t : t = Append(s, list)
    OBVIOUS
  <2>2. t \in Stack
    BY <1>1, <2>1, Appended
  <2>3. x = More(work) /\ Repeats(work, list)
    BY DEF MoreIs
  <2>4. Step(x, t, t)
    BY ONLY <2>1, <2>2, <2>3, s \in Stack DEF Step
  <2> QED
    BY ONLY <2>1, <2>4, Zenon
<1> QED
  BY <1>1, <1>2, MakesThen

LEMMA MakesAll ==
  ASSUME NEW work, NEW kinds, IsSeq(work), kinds \in Stack, Len(work) = Len(kinds),
         \A i \in 1..Len(kinds) : Pushes(work[i], kinds[i]), NEW x, NEW kind,
         \A s \in Stack : s \o kinds \in Stack => Step(x, s \o kinds, Append(s, kind))
  PROVE  Makes(work \o <<x>>, kind)
<1> SUFFICES ASSUME NEW s \in Stack
             PROVE  Run(work \o <<x>>, s, Append(s, kind))
  BY DEF Makes
<1>1. Run(work, s, s \o kinds) /\ s \o kinds \in Stack
  BY PushAll
<1>2. Run(<<x>>, s \o kinds, Append(s, kind))
  BY <1>1, RunOne
<1> QED
  BY <1>1, <1>2, IsSeqShort, RunAfter

LEMMA MakesOf4 ==
  ASSUME NEW x, NEW a, Pushes(x, a), NEW y, NEW b, Pushes(y, b), NEW z, NEW c, Pushes(z, c),
         NEW v, NEW d, Pushes(v, d), NEW tag, NEW kind, Builds(tag, <<a, b, c, d>>, kind)
  PROVE  Makes(<<x, y, z, v, Build(tag, 4)>>, kind)
<1>1. PICK work, kinds, build : work = <<x, y, z, v>> /\ kinds = <<a, b, c, d>> /\ build = Build(tag, 4)
  OBVIOUS
<1>2. /\ Len(work) = 4 /\ work[1] = x /\ work[2] = y /\ work[3] = z /\ work[4] = v
      /\ Len(kinds) = 4 /\ kinds[1] = a /\ kinds[2] = b /\ kinds[3] = c /\ kinds[4] = d
  BY ONLY <1>1
<1>3. IsSeq(work)
  BY ONLY <1>1, IsSeqShort
<1>4. a \in Kind /\ b \in Kind /\ c \in Kind /\ d \in Kind
  BY DEF Pushes
<1>5. kinds \in Stack
  BY ONLY <1>1, <1>4 DEF Stack
<1>6. \A i \in 1..4 : Pushes(work[i], kinds[i])
  <2> TAKE i \in 1..4
  <2>1. i = 1 \/ i = 2 \/ i = 3 \/ i = 4
    OBVIOUS
  <2> QED
    BY <2>1, <1>2
<1>7. ASSUME NEW s \in Stack, s \o kinds \in Stack
      PROVE  Step(build, s \o kinds, Append(s, kind))
  <2>1. PICK t : t = s \o kinds
    OBVIOUS
  <2>2. Builds(tag, kinds, kind) /\ 4 = Len(kinds) /\ t \in Stack
    BY <1>1, <1>2, <1>7, <2>1
  <2>3. Step(Build(tag, 4), t, Append(s, kind))
    BY <2>1, <2>2, BuildStep
  <2> QED
    BY ONLY <2>1, <2>3, <1>1, Zenon
<1>8. Makes(work \o <<build>>, kind)
  <2>1. Len(work) = Len(kinds) /\ \A i \in 1..Len(kinds) : Pushes(work[i], kinds[i])
    BY <1>2, <1>6
  <2> QED
    BY <1>3, <1>5, <1>7, <2>1, MakesAll
<1>9. <<x, y, z, v>> \o <<build>> = <<x, y, z, v, build>>
  BY ONLY LongPairs
<1> QED
  BY ONLY <1>1, <1>8, <1>9, Zenon

(* The right-hand sides, symbol by symbol *)
RulesArms ==
  /\ Rules("program") =
         {<<Token, Parse("optional_identifier_list"), Parse("type_declarations"),
            Parse("declarations"), Parse("subprogram_declarations"),
            Parse("compound_statement"), <<"accept">>>>}
  /\ Rules("optional_identifier_list") =
         {<<Parse("identifier_list")>>, <<Build("free", 0)>>}
  /\ Rules("identifier_list") = {<<Token, Build("free", 1), More(<<Token>>)>>}
  /\ Rules("type_declarations") =
         {<<Build("free_*", 0), More(<<Token, Parse("type"), Expect, Build("type_decl", 2)>>)>>}
  /\ Rules("declarations") =
         {<<Build("free_*", 0),
            More(<<Parse("identifier_list"), Parse("type"), Expect, Build("decls", 2)>>)>>}
  /\ Rules("standard_type") = {<<Build("TYPE_INTEGER", 0)>>}
  /\ Rules("type") =
         {<<Parse("standard_type")>>,
          <<Token, Token, Parse("standard_type"), Build("TYPE_ARRAY", 3)>>,
          <<Parse("type"), Build("TYPE_POINTER", 1)>>,
          <<Token, Build("TYPE_REF", 1)>>,
          <<Build("free_*", 0), More(<<Token, Parse("type"), Expect, Build("record_field", 2)>>),
            Build("TYPE_RECORD", 1)>>}
  /\ Rules("subprogram_declarations") =
         {<<Build("free_*", 0), More(<<Parse("subprogram_declaration"), Expect>>)>>}
  /\ Rules("arguments") =
         {<<Build("free_*", 0)>>,
          <<Parse("parameter"), Build("free_*", 1), More(<<Parse("parameter")>>)>>}
  /\ Rules("parameter") = {<<Parse("identifier_list"), Parse("type"), Build("decls", 2)>>}
  /\ Rules("compound_statement") =
         {<<Null, Expect>>,
          <<Parse("statement"), Build("free_*", 1), More(<<Parse("statement")>>),
            Build("STMT_STMTS", 1), Expect>>}
  /\ Rules("subprogram_declaration") =
         {<<Token, Parse("arguments"), result, Parse("subprogram_declarations"),
            Parse("type_declarations"), Parse("declarations"),
            Parse("compound_statement"), <<"build subprogram">>>> :
              result \in {Parse("standard_type"), Null}}
  /\ Rules("statement") =
         {<<Parse("lvalue"), Parse("expression"), Build("STMT_ASSIGN", 2)>>,
          <<Parse("path"), Build("free", 0), Build("STMT_PROC", 2)>>,
          <<Parse("path"), Parse("expression_list"), Build("STMT_PROC", 2)>>,
          <<Parse("compound_statement")>>,
          <<Parse("expression"), Parse("statement"), Null, Build("STMT_ITE", 3)>>,
          <<Parse("expression"), Parse("statement"), Parse("statement"),
            Build("STMT_ITE", 3)>>,
          <<Parse("expression"), Parse("statement"), Build("STMT_WDO", 2)>>,
          <<Token, Parse("expression"), Parse("expression"), Parse("statement"),
            Build("STMT_FOR", 4)>>}
  /\ Rules("path") = {<<Token, Build("path", 1), More(<<Token>>)>>}
  /\ Rules("lvalue") =
         {<<Parse("path"), Build("EXPR_PATH", 1)>>,
          <<Parse("path"), Parse("expression"), Expect, Build("EXPR_IDX", 2)>>,
          <<Parse("path"), Build("EXPR_PATH", 1), Build("EXPR_DEREF", 1)>>}
  /\ Rules("expression_list") = {<<Build("free_*", 0), More(<<Parse("expression")>>)>>}
  /\ Rules("expression") =
         {<<Parse("expression"), Operator, Parse("expression"), Build("EXPR_BIN", 3)>>,
          <<Operator, Parse("expression"), Build("EXPR_UN", 2)>>,
          <<Parse("expression"), Build("EXPR_UN", 1)>>,
          <<Parse("path"), Parse("expression_list"), Build("EXPR_APP", 2)>>,
          <<Token, Build("EXPR_LIT", 1)>>,
          <<Parse("lvalue")>>,
          <<Parse("expression"), Build("EXPR_ADDROF", 1)>>}
LEMMA RulesAre == RulesArms
BY DEF Rules, RulesArms

Making(symbol, kind) ==
  Yields(symbol, kind) /\ symbol # "program" =>
    \A work \in Rules(symbol) : IsSeq(work) /\ Makes(work, kind)

LEMMA MakesNames ==
  \A kind : Making("optional_identifier_list", kind) /\ Making("identifier_list", kind)
              /\ Making("path", kind)
<1> TAKE kind
<1>1. Making("optional_identifier_list", kind)
  <2> SUFFICES ASSUME Yields("optional_identifier_list", kind),
                      NEW work \in Rules("optional_identifier_list")
               PROVE  IsSeq(work) /\ Makes(work, kind)
    BY DEF Making
  <2>1. kind = "names"
    BY DEF Yields
  <2>2. CASE work = <<Parse("identifier_list")>>
    <3>1. Pushes(Parse("identifier_list"), "names")
      BY PushTasks DEF Yields
    <3> QED
      BY <3>1, <2>1, <2>2, IsSeqShort, MakesOne
  <2>3. CASE work = <<Build("free", 0)>>
    <3>1. Pushes(Build("free", 0), "names")
      BY PushTasks DEF Builds
    <3> QED
      BY <3>1, <2>1, <2>3, IsSeqShort, MakesOne
  <2> QED
    BY <2>2, <2>3, RulesAre DEF RulesArms
<1>2. IsSeq(<<Token>>) /\ Makes(<<Token>>, "string") /\ "string" \in Kind
  BY IsSeqShort, PushTasks, MakesOne DEF Kind
<1>3. ASSUME NEW tag, NEW list, Builds(tag, <<"string">>, list), Repeats(<<Token>>, list), list \in Kind
      PROVE  /\ IsSeq(<<Token, Build(tag, 1), More(<<Token>>)>>)
             /\ Makes(<<Token, Build(tag, 1), More(<<Token>>)>>, list)
  <2>1. Makes(<<Token, Build(tag, 1)>>, list) /\ IsSeq(<<Token, Build(tag, 1)>>)
    BY <1>3, PushTasks, MakesOf1, IsSeqShort
  <2>2. PICK x : x = More(<<Token>>)
    OBVIOUS
  <2>3. MoreIs(x, <<Token>>, list)
    BY <1>3, <2>2 DEF MoreIs
  <2>4. Makes(<<Token, Build(tag, 1)>> \o <<x>>, list)
    BY <2>1, <2>3, MakesMore
  <2>5. <<Token, Build(tag, 1)>> \o <<x>> = <<Token, Build(tag, 1), x>>
    BY ONLY Pairs
  <2>6. IsSeq(<<Token, Build(tag, 1), x>>)
    BY IsSeqShort
  <2> QED
    BY ONLY <2>2, <2>4, <2>5, <2>6, Zenon
<1>4. Making("identifier_list", kind)
  <2>1. Builds("free", <<"string">>, "names") /\ Repeats(<<Token>>, "names") /\ "names" \in Kind
    BY DEF Builds, Repeats, Kind
  <2>2. Yields("identifier_list", kind) => kind = "names"
    BY DEF Yields
  <2>3. Rules("identifier_list") = {<<Token, Build("free", 1), More(<<Token>>)>>}
    BY RulesAre DEF RulesArms
  <2> QED
    BY <1>3, <2>1, <2>2, <2>3 DEF Making
<1>5. Making("path", kind)
  <2>1. Builds("path", <<"string">>, "path") /\ Repeats(<<Token>>, "path") /\ "path" \in Kind
    BY DEF Builds, Repeats, Kind
  <2>2. Yields("path", kind) => kind = "path"
    BY DEF Yields
  <2>3. Rules("path") = {<<Token, Build("path", 1), More(<<Token>>)>>}
    BY RulesAre DEF RulesArms
  <2> QED
    BY <1>3, <2>1, <2>2, <2>3 DEF Making
<1> QED
  BY <1>1, <1>4, <1>5

(* A list that begins empty *)
LEMMA MakesList ==
  ASSUME NEW work, NEW list, Repeats(work, list), list \in {"list", "fields", "formals"}
  PROVE  /\ IsSeq(<<Build("free_*", 0), More(work)>>)
         /\ Makes(<<Build("free_*", 0), More(work)>>, list)
<1>1. PICK x : x = More(work)
  OBVIOUS
<1>2. MoreIs(x, work, list)
  BY <1>1 DEF MoreIs
<1>3. Builds("free_*", <<>>, list)
  BY DEF Builds
<1>4. Pushes(Build("free_*", 0), list)
  BY <1>3, PushTasks
<1>5. Makes(<<Build("free_*", 0)>>, list) /\ IsSeq(<<Build("free_*", 0)>>)
  BY <1>4, MakesOne, IsSeqShort
<1>6. Makes(<<Build("free_*", 0)>> \o <<x>>, list)
  BY <1>2, <1>5, MakesMore
<1>7. <<Build("free_*", 0)>> \o <<x>> = <<Build("free_*", 0), x>>
  BY ONLY Pairs
<1>8. IsSeq(<<Build("free_*", 0), x>>)
  BY IsSeqShort
<1> QED
  BY ONLY <1>1, <1>6, <1>7, <1>8, Zenon

LEMMA MakesLists ==
  \A kind : /\ Making("type_declarations", kind) /\ Making("declarations", kind)
            /\ Making("subprogram_declarations", kind) /\ Making("expression_list", kind)
<1> TAKE kind
<1>1. /\ Repeats(<<Token, Parse("type"), Expect, Build("type_decl", 2)>>, "list")
      /\ Repeats(<<Parse("identifier_list"), Parse("type"), Expect, Build("decls", 2)>>, "list")
      /\ Repeats(<<Parse("subprogram_declaration"), Expect>>, "list")
      /\ Repeats(<<Parse("expression")>>, "list")
  BY DEF Repeats
<1>2. ASSUME NEW symbol, NEW work, Rules(symbol) = {<<Build("free_*", 0), More(work)>>},
             Repeats(work, "list"), Yields(symbol, kind) => kind = "list"
      PROVE  Making(symbol, kind)
  <2>1. IsSeq(<<Build("free_*", 0), More(work)>>) /\ Makes(<<Build("free_*", 0), More(work)>>, "list")
    BY <1>2, MakesList
  <2> QED
    BY <1>2, <2>1 DEF Making
<1>3. \A symbol \in {"type_declarations", "declarations", "subprogram_declarations",
                     "expression_list"} : Yields(symbol, kind) => kind = "list"
  BY DEF Yields
<1>4. Making("type_declarations", kind)
  BY <1>1, <1>2, <1>3, RulesAre DEF RulesArms
<1>5. Making("declarations", kind)
  BY <1>1, <1>2, <1>3, RulesAre DEF RulesArms
<1>6. Making("subprogram_declarations", kind)
  BY <1>1, <1>2, <1>3, RulesAre DEF RulesArms
<1>7. Making("expression_list", kind)
  BY <1>1, <1>2, <1>3, RulesAre DEF RulesArms
<1> QED
  BY <1>4, <1>5, <1>6, <1>7

LEMMA MakesTypes ==
  \A kind : Making("standard_type", kind) /\ Making("type", kind)
<1> TAKE kind
<1>1. Making("standard_type", kind)
  <2>1. ASSUME Yields("standard_type", kind)
        PROVE  IsSeq(<<Build("TYPE_INTEGER", 0)>>) /\ Makes(<<Build("TYPE_INTEGER", 0)>>, kind)
    <3>1. Builds("TYPE_INTEGER", <<>>, kind)
      BY <2>1 DEF Yields, Builds
    <3> QED
      BY <3>1, PushTasks, MakesOne, IsSeqShort
  <2> QED
    BY <2>1, RulesAre DEF RulesArms, Making
<1>2. Making("type", kind)
  <2> SUFFICES ASSUME Yields("type", kind), NEW work \in Rules("type")
               PROVE  IsSeq(work) /\ Makes(work, kind)
    BY DEF Making
  <2>0. kind = "type"
    BY DEF Yields
  <2>1. Pushes(Token, "string") /\ Pushes(Parse("standard_type"), "type") /\ Pushes(Parse("type"), "type")
    BY PushTasks DEF Yields
  <2>2. CASE work = <<Parse("standard_type")>>
    BY <2>0, <2>1, <2>2, MakesOne, IsSeqShort
  <2>3. CASE work = <<Token, Token, Parse("standard_type"), Build("TYPE_ARRAY", 3)>>
    <3>1. Builds("TYPE_ARRAY", <<"string", "string", "type">>, "type")
      BY DEF Builds
    <3>2. Makes(<<Token, Token, Parse("standard_type"), Build("TYPE_ARRAY", 3)>>, "type")
      BY <2>1, <3>1, MakesOf3
    <3> QED
      BY ONLY <2>0, <2>3, <3>2, IsSeqShort
  <2>4. CASE work = <<Parse("type"), Build("TYPE_POINTER", 1)>>
    <3>1. Builds("TYPE_POINTER", <<"type">>, "type")
      BY DEF Builds
    <3> QED
      BY <2>0, <2>1, <2>4, <3>1, MakesOf1, IsSeqShort
  <2>5. CASE work = <<Token, Build("TYPE_REF", 1)>>
    <3>1. Builds("TYPE_REF", <<"string">>, "type")
      BY DEF Builds
    <3> QED
      BY <2>0, <2>1, <2>5, <3>1, MakesOf1, IsSeqShort
  <2>6. CASE work = <<Build("free_*", 0), More(<<Token, Parse("type"), Expect, Build("record_field", 2)>>),
                      Build("TYPE_RECORD", 1)>>
    <3>1. Builds("TYPE_RECORD", <<"fields">>, "type") /\ "fields" \in Kind
      BY DEF Builds, Kind
    <3>2. Repeats(<<Token, Parse("type"), Expect, Build("record_field", 2)>>, "fields")
      BY DEF Repeats
    <3>3. PICK x, y, z : /\ x = Build("free_*", 0) /\ z = Build("TYPE_RECORD", 1)
                         /\ y = More(<<Token, Parse("type"), Expect, Build("record_field", 2)>>)
      OBVIOUS
    <3>4. IsSeq(<<x, y>>) /\ Makes(<<x, y>>, "fields")
      BY <3>2, <3>3, MakesList
    <3>5. Makes(<<x, y>> \o <<z>>, "type")
      BY <3>1, <3>3, <3>4, MakesBuilt
    <3>6. <<x, y>> \o <<z>> = <<x, y, z>>
      BY ONLY Pairs
    <3>7. IsSeq(<<x, y, z>>)
      BY IsSeqShort
    <3> QED
      BY ONLY <2>0, <2>6, <3>3, <3>5, <3>6, <3>7, Zenon
  <2> QED
    BY <2>2, <2>3, <2>4, <2>5, <2>6, RulesAre DEF RulesArms
<1> QED
  BY <1>1, <1>2

LEMMA MakesFormals ==
  \A kind : Making("arguments", kind) /\ Making("parameter", kind)
<1> TAKE kind
<1>1. Making("arguments", kind)
  <2> SUFFICES ASSUME Yields("arguments", kind), NEW work \in Rules("arguments")
               PROVE  IsSeq(work) /\ Makes(work, kind)
    BY DEF Making
  <2>0. kind = "formals"
    BY DEF Yields
  <2>1. CASE work = <<Build("free_*", 0)>>
    <3>1. Builds("free_*", <<>>, "formals")
      BY DEF Builds
    <3> QED
      BY <2>0, <2>1, <3>1, PushTasks, MakesOne, IsSeqShort
  <2>2. CASE work = <<Parse("parameter"), Build("free_*", 1), More(<<Parse("parameter")>>)>>
    <3>1. PICK x, y, z : /\ x = Parse("parameter") /\ y = Build("free_*", 1)
                         /\ z = More(<<Parse("parameter")>>)
      OBVIOUS
    <3>2. Builds("free_*", <<"decls">>, "formals") /\ Pushes(x, "decls")
      BY <3>1, PushTasks DEF Builds, Yields
    <3>3. IsSeq(<<x, y>>) /\ Makes(<<x, y>>, "formals")
      BY <3>1, <3>2, MakesOf1, IsSeqShort
    <3>4. MoreIs(z, <<Parse("parameter")>>, "formals")
      BY <3>1 DEF MoreIs, Repeats
    <3>5. Makes(<<x, y>> \o <<z>>, "formals")
      BY <3>3, <3>4, MakesMore
    <3>6. <<x, y>> \o <<z>> = <<x, y, z>>
      BY ONLY Pairs
    <3>7. IsSeq(<<x, y, z>>)
      BY IsSeqShort
    <3> QED
      BY ONLY <2>0, <2>2, <3>1, <3>5, <3>6, <3>7, Zenon
  <2> QED
    BY <2>1, <2>2, RulesAre DEF RulesArms
<1>2. Making("parameter", kind)
  <2>1. Pushes(Parse("identifier_list"), "names") /\ Pushes(Parse("type"), "type")
    BY PushTasks DEF Yields
  <2>2. Builds("decls", <<"names", "type">>, "decls")
    BY DEF Builds
  <2>3. Makes(<<Parse("identifier_list"), Parse("type"), Build("decls", 2)>>, "decls")
    BY <2>1, <2>2, MakesOf2
  <2>4. Yields("parameter", kind) => kind = "decls"
    BY DEF Yields
  <2>5. Rules("parameter") = {<<Parse("identifier_list"), Parse("type"), Build("decls", 2)>>}
    BY RulesAre DEF RulesArms
  <2> QED
    BY <2>3, <2>4, <2>5, IsSeqShort DEF Making
<1> QED
  BY <1>1, <1>2

LEMMA MakesStatements ==
  \A kind : Making("statement", kind) /\ Making("compound_statement", kind)
<1> TAKE kind
<1>1. /\ Pushes(Parse("lvalue"), "ref") /\ Pushes(Parse("expression"), "ref")
      /\ Pushes(Parse("statement"), "ref") /\ Pushes(Parse("compound_statement"), "ref")
      /\ Pushes(Parse("path"), "path") /\ Pushes(Parse("expression_list"), "list")
      /\ Pushes(Token, "string") /\ Pushes(Null, "ref")
  BY PushTasks DEF Yields
<1>2. Pushes(Build("free", 0), "names")
  BY PushTasks DEF Builds
<1>3. Making("statement", kind)
  <2> SUFFICES ASSUME Yields("statement", kind), NEW work \in Rules("statement")
               PROVE  IsSeq(work) /\ Makes(work, kind)
    BY DEF Making
  <2>0. kind = "ref"
    BY DEF Yields
  <2>1. CASE work = <<Parse("lvalue"), Parse("expression"), Build("STMT_ASSIGN", 2)>>
    <3>1. Builds("STMT_ASSIGN", <<"ref", "ref">>, "ref")
      BY DEF Builds
    <3> QED
      BY <2>0, <2>1, <3>1, <1>1, MakesOf2, IsSeqShort
  <2>2. CASE work = <<Parse("path"), Build("free", 0), Build("STMT_PROC", 2)>>
    <3>1. Builds("STMT_PROC", <<"path", "names">>, "ref")
      BY DEF Builds
    <3> QED
      BY <2>0, <2>2, <3>1, <1>1, <1>2, MakesOf2, IsSeqShort
  <2>3. CASE work = <<Parse("path"), Parse("expression_list"), Build("STMT_PROC", 2)>>
    <3>1. Builds("STMT_PROC", <<"path", "list">>, "ref")
      BY DEF Builds
    <3> QED
      BY <2>0, <2>3, <3>1, <1>1, MakesOf2, IsSeqShort
  <2>4. CASE work = <<Parse("compound_statement")>>
    BY <2>0, <2>4, <1>1, MakesOne, IsSeqShort
  <2>5. CASE work = <<Parse("expression"), Parse("statement"), Null, Build("STMT_ITE", 3)>>
    <3>1. Builds("STMT_ITE", <<"ref", "ref", "ref">>, "ref")
      BY DEF Builds
    <3>2. Makes(<<Parse("expression"), Parse("statement"), Null, Build("STMT_ITE", 3)>>, "ref")
      BY <3>1, <1>1, MakesOf3
    <3> QED
      BY ONLY <2>0, <2>5, <3>2, IsSeqShort
  <2>6. CASE work = <<Parse("expression"), Parse("statement"), Parse("statement"),
                      Build("STMT_ITE", 3)>>
    <3>1. Builds("STMT_ITE", <<"ref", "ref", "ref">>, "ref")
      BY DEF Builds
    <3>2. Makes(<<Parse("expression"), Parse("statement"), Parse("statement"),
                  Build("STMT_ITE", 3)>>, "ref")
      BY <3>1, <1>1, MakesOf3
    <3> QED
      BY ONLY <2>0, <2>6, <3>2, IsSeqShort
  <2>7. CASE work = <<Parse("expression"), Parse("statement"), Build("STMT_WDO", 2)>>
    <3>1. Builds("STMT_WDO", <<"ref", "ref">>, "ref")
      BY DEF Builds
    <3> QED
      BY <2>0, <2>7, <3>1, <1>1, MakesOf2, IsSeqShort
  <2>8. CASE work = <<Token, Parse("expression"), Parse("expression"), Parse("statement"),
                      Build("STMT_FOR", 4)>>
    <3>1. Builds("STMT_FOR", <<"string", "ref", "ref", "ref">>, "ref")
      BY DEF Builds
    <3>2. Makes(<<Token, Parse("expression"), Parse("expression"), Parse("statement"),
                  Build("STMT_FOR", 4)>>, "ref")
      BY <3>1, <1>1, MakesOf4
    <3> QED
      BY ONLY <2>0, <2>8, <3>2, IsSeqShort
  <2> QED
    <3>1. Rules("statement") =
            {<<Parse("lvalue"), Parse("expression"), Build("STMT_ASSIGN", 2)>>,
             <<Parse("path"), Build("free", 0), Build("STMT_PROC", 2)>>,
             <<Parse("path"), Parse("expression_list"), Build("STMT_PROC", 2)>>,
             <<Parse("compound_statement")>>,
             <<Parse("expression"), Parse("statement"), Null, Build("STMT_ITE", 3)>>,
             <<Parse("expression"), Parse("statement"), Parse("statement"),
               Build("STMT_ITE", 3)>>,
             <<Parse("expression"), Parse("statement"), Build("STMT_WDO", 2)>>,
             <<Token, Parse("expression"), Parse("expression"), Parse("statement"),
               Build("STMT_FOR", 4)>>}
      BY RulesAre DEF RulesArms
    <3> QED
      BY ONLY <2>1, <2>2, <2>3, <2>4, <2>5, <2>6, <2>7, <2>8, <3>1, work \in Rules("statement"), Zenon
<1>4. Making("compound_statement", kind)
  <2> SUFFICES ASSUME Yields("compound_statement", kind), NEW work \in Rules("compound_statement")
               PROVE  IsSeq(work) /\ Makes(work, kind)
    BY DEF Making
  <2>0. kind = "ref"
    BY DEF Yields
  <2>1. CASE work = <<Null, Expect>>
    <3>1. IsSeq(<<Null>>) /\ Makes(<<Null>>, "ref") /\ "ref" \in Kind
      BY <1>1, MakesOne, IsSeqShort DEF Kind
    <3>2. Makes(<<Null>> \o <<Expect>>, "ref")
      BY <3>1, MakesExpected
    <3>3. <<Null>> \o <<Expect>> = <<Null, Expect>>
      BY ONLY Pairs
    <3>4. IsSeq(<<Null, Expect>>)
      BY IsSeqShort
    <3> QED
      BY ONLY <2>0, <2>1, <3>2, <3>3, <3>4, Zenon
  <2>2. CASE work = <<Parse("statement"), Build("free_*", 1), More(<<Parse("statement")>>),
                      Build("STMT_STMTS", 1), Expect>>
    <3>1. PICK x, y, z, last : /\ x = Parse("statement") /\ y = Build("free_*", 1)
                               /\ z = More(<<Parse("statement")>>) /\ last = Build("STMT_STMTS", 1)
      OBVIOUS
    <3>2. Builds("free_*", <<"ref">>, "list") /\ Pushes(x, "ref")
      BY <3>1, <1>1 DEF Builds
    <3>3. IsSeq(<<x, y>>) /\ Makes(<<x, y>>, "list")
      BY <3>1, <3>2, MakesOf1, IsSeqShort
    <3>4. MoreIs(z, <<Parse("statement")>>, "list")
      BY <3>1 DEF MoreIs, Repeats
    <3>5. Makes(<<x, y>> \o <<z>>, "list")
      BY <3>3, <3>4, MakesMore
    <3>6. <<x, y>> \o <<z>> = <<x, y, z>>
      BY ONLY Pairs
    <3>7. IsSeq(<<x, y, z>>) /\ Makes(<<x, y, z>>, "list")
      BY ONLY <3>5, <3>6, IsSeqShort, Zenon
    <3>8. Builds("STMT_STMTS", <<"list">>, "ref") /\ "list" \in Kind
      BY DEF Builds, Kind
    <3>9. Makes(<<x, y, z>> \o <<last>>, "ref")
      BY <3>1, <3>7, <3>8, MakesBuilt
    <3>10. <<x, y, z>> \o <<last>> = <<x, y, z, last>>
      BY ONLY Pairs
    <3>11. IsSeq(<<x, y, z, last>>) /\ Makes(<<x, y, z, last>>, "ref")
      BY ONLY <3>9, <3>10, IsSeqShort, Zenon
    <3>12. Makes(<<x, y, z, last>> \o <<Expect>>, "ref")
      BY <3>11, MakesExpected DEF Kind
    <3>13. <<x, y, z, last>> \o <<Expect>> = <<x, y, z, last, Expect>>
      BY ONLY LongPairs
    <3>14. IsSeq(<<x, y, z, last, Expect>>)
      <4>1. PICK e : e = Expect
        OBVIOUS
      <4>2. <<x, y, z, last, e>> \in Seq({x, y, z, last, e})
        OBVIOUS
      <4> QED
        BY <4>1, <4>2 DEF IsSeq
    <3> QED
      BY ONLY <2>0, <2>2, <3>1, <3>12, <3>13, <3>14, Zenon
  <2> QED
    BY <2>1, <2>2, RulesAre DEF RulesArms
<1> QED
  BY <1>3, <1>4

LEMMA MakesExpressions ==
  \A kind : Making("lvalue", kind) /\ Making("expression", kind)
<1> TAKE kind
<1>1. /\ Pushes(Parse("lvalue"), "ref") /\ Pushes(Parse("expression"), "ref")
      /\ Pushes(Parse("path"), "path") /\ Pushes(Parse("expression_list"), "list")
      /\ Pushes(Token, "string") /\ Pushes(Operator, "operator")
  BY PushTasks DEF Yields
<1>2. Making("lvalue", kind)
  <2> SUFFICES ASSUME Yields("lvalue", kind), NEW work \in Rules("lvalue")
               PROVE  IsSeq(work) /\ Makes(work, kind)
    BY DEF Making
  <2>0. kind = "ref"
    BY DEF Yields
  <2>1. Builds("EXPR_PATH", <<"path">>, "ref") /\ "ref" \in Kind
    BY DEF Builds, Kind
  <2>2. Makes(<<Parse("path"), Build("EXPR_PATH", 1)>>, "ref")
        /\ IsSeq(<<Parse("path"), Build("EXPR_PATH", 1)>>)
    BY <2>1, <1>1, MakesOf1, IsSeqShort
  <2>3. CASE work = <<Parse("path"), Parse("expression"), Expect, Build("EXPR_IDX", 2)>>
    <3>1. Builds("EXPR_IDX", <<"path", "ref">>, "ref")
      BY DEF Builds
    <3> QED
      BY <2>0, <2>3, <3>1, <1>1, MakesOf2Expected, IsSeqShort
  <2>4. CASE work = <<Parse("path"), Build("EXPR_PATH", 1), Build("EXPR_DEREF", 1)>>
    <3>1. Builds("EXPR_DEREF", <<"ref">>, "ref")
      BY DEF Builds
    <3>2. PICK x, y, z : x = Parse("path") /\ y = Build("EXPR_PATH", 1) /\ z = Build("EXPR_DEREF", 1)
      OBVIOUS
    <3>3. Makes(<<x, y>> \o <<z>>, "ref")
      BY <3>1, <3>2, <2>1, <2>2, MakesBuilt
    <3>4. <<x, y>> \o <<z>> = <<x, y, z>>
      BY ONLY Pairs
    <3>5. IsSeq(<<x, y, z>>)
      BY IsSeqShort
    <3> QED
      BY ONLY <2>0, <2>4, <3>2, <3>3, <3>4, <3>5, Zenon
  <2> QED
    BY <2>0, <2>2, <2>3, <2>4, RulesAre DEF RulesArms
<1>3. Making("expression", kind)
  <2> SUFFICES ASSUME Yields("expression", kind), NEW work \in Rules("expression")
               PROVE  IsSeq(work) /\ Makes(work, kind)
    BY DEF Making
  <2>0. kind = "ref"
    BY DEF Yields
  <2>1. CASE work = <<Parse("expression"), Operator, Parse("expression"), Build("EXPR_BIN", 3)>>
    <3>1. Builds("EXPR_BIN", <<"ref", "operator", "ref">>, "ref")
      BY DEF Builds
    <3>2. Makes(<<Parse("expression"), Operator, Parse("expression"), Build("EXPR_BIN", 3)>>, "ref")
      BY <3>1, <1>1, MakesOf3
    <3> QED
      BY ONLY <2>0, <2>1, <3>2, IsSeqShort
  <2>2. CASE work = <<Operator, Parse("expression"), Build("EXPR_UN", 2)>>
    <3>1. Builds("EXPR_UN", <<"operator", "ref">>, "ref")
      BY DEF Builds
    <3> QED
      BY <2>0, <2>2, <3>1, <1>1, MakesOf2, IsSeqShort
  <2>3. CASE work = <<Parse("expression"), Build("EXPR_UN", 1)>>
    <3>1. Builds("EXPR_UN", <<"ref">>, "ref")
      BY DEF Builds
    <3> QED
      BY <2>0, <2>3, <3>1, <1>1, MakesOf1, IsSeqShort
  <2>4. CASE work = <<Parse("path"), Parse("expression_list"), Build("EXPR_APP", 2)>>
    <3>1. Builds("EXPR_APP", <<"path", "list">>, "ref")
      BY DEF Builds
    <3> QED
      BY <2>0, <2>4, <3>1, <1>1, MakesOf2, IsSeqShort
  <2>5. CASE work = <<Token, Build("EXPR_LIT", 1)>>
    <3>1. Builds("EXPR_LIT", <<"string">>, "ref")
      BY DEF Builds
    <3> QED
      BY <2>0, <2>5, <3>1, <1>1, MakesOf1, IsSeqShort
  <2>6. CASE work = <<Parse("lvalue")>>
    BY <2>0, <2>6, <1>1, MakesOne, IsSeqShort
  <2>7. CASE work = <<Parse("expression"), Build("EXPR_ADDROF", 1)>>
    <3>1. Builds("EXPR_ADDROF", <<"ref">>, "ref")
      BY DEF Builds
    <3> QED
      BY <2>0, <2>7, <3>1, <1>1, MakesOf1, IsSeqShort
  <2> QED
    <3>1. Rules("expression") =
            {<<Parse("expression"), Operator, Parse("expression"), Build("EXPR_BIN", 3)>>,
             <<Operator, Parse("expression"), Build("EXPR_UN", 2)>>,
             <<Parse("expression"), Build("EXPR_UN", 1)>>,
             <<Parse("path"), Parse("expression_list"), Build("EXPR_APP", 2)>>,
             <<Token, Build("EXPR_LIT", 1)>>,
             <<Parse("lvalue")>>,
             <<Parse("expression"), Build("EXPR_ADDROF", 1)>>}
      BY RulesAre DEF RulesArms
    <3> QED
      BY ONLY <2>1, <2>2, <2>3, <2>4, <2>5, <2>6, <2>7, <3>1, work \in Rules("expression"), Zenon
<1> QED
  BY <1>2, <1>3

SUBPROGRAM == <<"build subprogram">>
LEMMA SubprogramStep ==
  ASSUME NEW s \in Stack, s \o SubprogramKinds \in Stack, Append(s, "ref") \in Stack
  PROVE  Step(SUBPROGRAM, s \o SubprogramKinds, Append(s, "ref"))
BY Zenon DEF Step, SUBPROGRAM

LEMMA ListsOfKinds ==
  /\ SubprogramKinds \in Stack /\ Len(SubprogramKinds) = 7 /\ IsSeq(SubprogramKinds)
  /\ ProgramKinds \in Stack /\ Len(ProgramKinds) = 6 /\ IsSeq(ProgramKinds)
<1>1. {"string", "formals", "result", "list", "ref", "names"} \subseteq Kind
  BY DEF Kind
<1>2. SubprogramKinds \in Stack /\ Len(SubprogramKinds) = 7
  BY ONLY <1>1 DEF SubprogramKinds, Stack
<1>3. ProgramKinds \in Stack /\ Len(ProgramKinds) = 6
  BY ONLY <1>1 DEF ProgramKinds, Stack
<1> QED
  BY <1>2, <1>3 DEF Stack, IsSeq

LEMMA MakesSubprogram ==
  \A kind : Making("subprogram_declaration", kind)
<1> TAKE kind
<1> SUFFICES ASSUME Yields("subprogram_declaration", kind), NEW work \in Rules("subprogram_declaration")
             PROVE  IsSeq(work) /\ Makes(work, kind)
  BY DEF Making
<1>0. kind = "ref" /\ "ref" \in Kind
  BY DEF Yields, Kind
<1>1. PICK result \in {Parse("standard_type"), Null} :
        work = <<Token, Parse("arguments"), result, Parse("subprogram_declarations"),
                 Parse("type_declarations"), Parse("declarations"),
                 Parse("compound_statement"), SUBPROGRAM>>
  BY RulesAre, Zenon DEF RulesArms, SUBPROGRAM
<1>2. PICK a, b, c, d, e, f, g : /\ a = Token /\ b = Parse("arguments") /\ c = result
        /\ d = Parse("subprogram_declarations") /\ e = Parse("type_declarations")
        /\ f = Parse("declarations") /\ g = Parse("compound_statement")
  OBVIOUS
<1>3. /\ Pushes(a, "string") /\ Pushes(b, "formals") /\ Pushes(c, "result") /\ Pushes(d, "list")
      /\ Pushes(e, "list") /\ Pushes(f, "list") /\ Pushes(g, "ref")
  BY <1>2, PushTasks DEF Yields
<1>4. PICK front : front = <<a, b, c, d, e, f, g>>
  OBVIOUS
<1>5. /\ Len(front) = 7 /\ front[1] = a /\ front[2] = b /\ front[3] = c /\ front[4] = d
      /\ front[5] = e /\ front[6] = f /\ front[7] = g /\ front \in Seq({a, b, c, d, e, f, g})
  BY ONLY <1>4
<1>6. PICK kinds : kinds = SubprogramKinds
  OBVIOUS
<1>7. /\ kinds[1] = "string" /\ kinds[2] = "formals" /\ kinds[3] = "result" /\ kinds[4] = "list"
      /\ kinds[5] = "list" /\ kinds[6] = "list" /\ kinds[7] = "ref"
  BY ONLY <1>6 DEF SubprogramKinds
<1>8. kinds \in Stack /\ Len(kinds) = 7 /\ IsSeq(front)
  BY <1>5, <1>6, ListsOfKinds DEF IsSeq
<1>9. \A i \in 1..7 : Pushes(front[i], kinds[i])
  <2> TAKE i \in 1..7
  <2>1. i = 1 \/ i = 2 \/ i = 3 \/ i = 4 \/ i = 5 \/ i = 6 \/ i = 7
    OBVIOUS
  <2> QED
    BY ONLY <2>1, <1>3, <1>5, <1>7
<1>10. \A s \in Stack : s \o kinds \in Stack => Step(SUBPROGRAM, s \o kinds, Append(s, "ref"))
  BY <1>0, <1>6, Appended, SubprogramStep
<1>11. Makes(front \o <<SUBPROGRAM>>, "ref")
  <2>1. Len(front) = Len(kinds) /\ \A i \in 1..Len(kinds) : Pushes(front[i], kinds[i])
    BY <1>5, <1>8, <1>9
  <2> QED
    BY <2>1, <1>8, <1>10, MakesAll
<1>12. <<a, b, c, d, e, f, g>> \o <<SUBPROGRAM>> = <<a, b, c, d, e, f, g, SUBPROGRAM>>
  BY ONLY LongPairs
<1>13. work = <<a, b, c, d, e, f, g, SUBPROGRAM>>
  BY ONLY <1>1, <1>2, Zenon
<1>14. IsSeq(<<a, b, c, d, e, f, g, SUBPROGRAM>>)
  <2>1. PICK last : last = SUBPROGRAM
    OBVIOUS
  <2>2. <<a, b, c, d, e, f, g, last>> \in Seq({a, b, c, d, e, f, g, last})
    OBVIOUS
  <2> QED
    BY <2>1, <2>2 DEF IsSeq
<1> QED
  BY ONLY <1>0, <1>4, <1>11, <1>12, <1>13, <1>14, Zenon

(* Every right-hand side makes what its symbol yields. *)
LEMMA RulesMake ==
  ASSUME NEW symbol, NEW kind, Yields(symbol, kind), NEW work \in Rules(symbol)
  PROVE  IsSeq(work) /\ Makes(work, kind)
<1>1. symbol \in {"optional_identifier_list", "identifier_list", "type_declarations",
                  "declarations", "subprogram_declarations", "expression_list", "standard_type",
                  "type", "arguments", "parameter", "path", "subprogram_declaration",
                  "compound_statement", "statement", "lvalue", "expression"}
  BY DEF Yields
<1>2. Making(symbol, kind)
  BY <1>1, MakesNames, MakesLists, MakesTypes, MakesFormals, MakesStatements, MakesExpressions,
     MakesSubprogram
<1>3. symbol # "program"
  BY <1>1
<1> QED
  BY <1>2, <1>3 DEF Making

(* What the program's rule comes to *)
LEMMA ProgramRun ==
  ASSUME NEW work \in Rules("program")
  PROVE  \E w : /\ IsSeq(w) /\ work = w \o <<ACCEPT>> /\ Run(w, <<>>, ProgramKinds)
<1>1. work = <<Token, Parse("optional_identifier_list"), Parse("type_declarations"),
               Parse("declarations"), Parse("subprogram_declarations"),
               Parse("compound_statement"), ACCEPT>>
  BY RulesAre DEF RulesArms, ACCEPT
<1>2. PICK a, b, c, d, e, f : /\ a = Token /\ b = Parse("optional_identifier_list")
        /\ c = Parse("type_declarations") /\ d = Parse("declarations")
        /\ e = Parse("subprogram_declarations") /\ f = Parse("compound_statement")
  OBVIOUS
<1>3. /\ Pushes(a, "string") /\ Pushes(b, "names") /\ Pushes(c, "list") /\ Pushes(d, "list")
      /\ Pushes(e, "list") /\ Pushes(f, "ref")
  BY <1>2, PushTasks DEF Yields
<1>4. PICK w : w = <<a, b, c, d, e, f>>
  OBVIOUS
<1>5. /\ Len(w) = 6 /\ w[1] = a /\ w[2] = b /\ w[3] = c /\ w[4] = d
      /\ w[5] = e /\ w[6] = f /\ w \in Seq({a, b, c, d, e, f})
  BY ONLY <1>4
<1>6. PICK kinds : kinds = ProgramKinds
  OBVIOUS
<1>7. /\ kinds[1] = "string" /\ kinds[2] = "names" /\ kinds[3] = "list" /\ kinds[4] = "list"
      /\ kinds[5] = "list" /\ kinds[6] = "ref"
  BY ONLY <1>6 DEF ProgramKinds
<1>8. kinds \in Stack /\ Len(kinds) = 6 /\ IsSeq(w) /\ IsSeq(kinds)
  BY <1>5, <1>6, ListsOfKinds DEF IsSeq
<1>9. \A i \in 1..6 : Pushes(w[i], kinds[i])
  <2> TAKE i \in 1..6
  <2>1. i = 1 \/ i = 2 \/ i = 3 \/ i = 4 \/ i = 5 \/ i = 6
    OBVIOUS
  <2> QED
    BY ONLY <2>1, <1>3, <1>5, <1>7
<1>10. Run(w, <<>>, <<>> \o kinds)
  <2>1. Len(w) = Len(kinds) /\ \A i \in 1..Len(kinds) : Pushes(w[i], kinds[i])
    BY <1>5, <1>8, <1>9
  <2>2. <<>> \in Stack
    BY DEF Stack
  <2> QED
    BY <2>1, <2>2, <1>8, PushAll
<1>11. <<>> \o kinds = kinds
  BY <1>8, Concatenated
<1>12. <<a, b, c, d, e, f>> \o <<ACCEPT>> = <<a, b, c, d, e, f, ACCEPT>>
  BY ONLY LongPairs
<1>13. work = w \o <<ACCEPT>>
  BY ONLY <1>1, <1>2, <1>4, <1>12, Zenon
<1> QED
  BY <1>6, <1>8, <1>10, <1>11, <1>13

(* One round of what is done any number of times *)
LEMMA RoundsMake ==
  ASSUME NEW work, NEW list, Repeats(work, list), NEW round \in Rounds(work), NEW r \in Stack
  PROVE  IsSeq(round) /\ Run(round, Append(r, list), Append(r, list))
<1>1. CASE round = <<>>
  BY <1>1, RunNone, SeqFacts
<1>2. CASE round = work \o <<Add, More(work)>>
  <2>1. list \in Kind
    BY DEF Repeats, Kind
  <2>2. \E element : Adds(list, element) /\ IsSeq(work) /\ Makes(work, element)
    <3>1. CASE work = <<Token>> /\ list \in {"names", "path"}
      BY <3>1, PushTasks, MakesOne, IsSeqShort DEF Adds
    <3>2. CASE work = <<Token, Parse("type"), Expect, Build("type_decl", 2)>> /\ list = "list"
      <4>1. Builds("type_decl", <<"string", "type">>, "ref")
        BY DEF Builds
      <4>2. Pushes(Token, "string") /\ Pushes(Parse("type"), "type")
        BY PushTasks DEF Yields
      <4> QED
        BY <3>2, <4>1, <4>2, MakesOf2Expected, IsSeqShort DEF Adds
    <3>3. CASE work = <<Parse("identifier_list"), Parse("type"), Expect, Build("decls", 2)>> /\ list = "list"
      <4>1. Builds("decls", <<"names", "type">>, "ref")
        BY DEF Builds
      <4>2. Pushes(Parse("identifier_list"), "names") /\ Pushes(Parse("type"), "type")
        BY PushTasks DEF Yields
      <4> QED
        BY <3>3, <4>1, <4>2, MakesOf2Expected, IsSeqShort DEF Adds
    <3>4. CASE work = <<Token, Parse("type"), Expect, Build("record_field", 2)>> /\ list = "fields"
      <4>1. Builds("record_field", <<"string", "type">>, "field")
        BY DEF Builds
      <4>2. Pushes(Token, "string") /\ Pushes(Parse("type"), "type")
        BY PushTasks DEF Yields
      <4> QED
        BY <3>4, <4>1, <4>2, MakesOf2Expected, IsSeqShort DEF Adds
    <3>5. CASE work = <<Parse("parameter")>> /\ list = "formals"
      <4>1. Pushes(Parse("parameter"), "decls")
        BY PushTasks DEF Yields
      <4> QED
        BY <3>5, <4>1, MakesOne, IsSeqShort DEF Adds
    <3>6. CASE work \in {<<Parse("statement")>>, <<Parse("expression")>>} /\ list = "list"
      <4>1. Pushes(Parse("statement"), "ref") /\ Pushes(Parse("expression"), "ref")
        BY PushTasks DEF Yields
      <4> QED
        BY <3>6, <4>1, MakesOne, IsSeqShort DEF Adds
    <3>7. CASE work = <<Parse("subprogram_declaration"), Expect>> /\ list = "list"
      <4>1. PICK x : x = Parse("subprogram_declaration")
        OBVIOUS
      <4>2. IsSeq(<<x>>) /\ Makes(<<x>>, "ref") /\ "ref" \in Kind
        BY <4>1, PushTasks, MakesOne, IsSeqShort DEF Yields, Kind
      <4>3. Makes(<<x>> \o <<Expect>>, "ref")
        BY <4>2, MakesExpected
      <4>4. <<x>> \o <<Expect>> = <<x, Expect>>
        BY ONLY Pairs
      <4>5. IsSeq(work) /\ Makes(work, "ref")
        BY <4>1, <4>3, <4>4, <3>7, IsSeqShort
      <4> QED
        BY <4>5, <3>7 DEF Adds
    <3> QED
      BY <3>1, <3>2, <3>3, <3>4, <3>5, <3>6, <3>7 DEF Repeats
  <2>3. PICK element : Adds(list, element) /\ IsSeq(work) /\ Makes(work, element)
    BY <2>2
  <2>4. element \in Kind
    BY <2>3 DEF Adds, Kind
  <2>5. PICK s, t, x : s = Append(r, list) /\ t = Append(s, element) /\ x = More(work)
    OBVIOUS
  <2>6. s \in Stack /\ t \in Stack /\ t = r \o <<list, element>>
    BY <2>1, <2>4, <2>5, Appended
  <2>7. Step(Add, t, s)
    BY ONLY <2>3, <2>5, <2>6, r \in Stack DEF Step
  <2>8. Step(x, s, s)
    BY ONLY <2>5, <2>6, r \in Stack, Repeats(work, list) DEF Step
  <2>9. Run(work, s, t)
    BY <2>3, <2>5, <2>6 DEF Makes
  <2>10. Run(<<Add, x>>, t, s)
    BY <2>7, <2>8, RunTwo
  <2>11. IsSeq(<<Add, x>>)
    BY IsSeqShort
  <2>12. Run(work \o <<Add, x>>, s, s)
    BY <2>3, <2>9, <2>10, <2>11, RunAfter
  <2>13. IsSeq(work \o <<Add, x>>)
    BY <2>3, <2>11, SeqFacts
  <2> QED
    BY ONLY <1>2, <2>5, <2>12, <2>13, Zenon
<1> QED
  BY <1>1, <1>2 DEF Rounds

(* What the bound leaves: no right-hand side takes less than its symbol. *)
LEMMA Leasts ==
  /\ \A symbol : Least(symbol) \in Nat
  /\ \A symbol \in {"expression", "path", "identifier_list"} : Least(symbol) = 2
  /\ Least("lvalue") = 3 /\ Least("parameter") = 4 /\ Least("program") = 6
  /\ Least("subprogram_declaration") = 7
  /\ \A symbol \in {"compound_statement", "statement"} : Least(symbol) = 0
  /\ \A symbol \in {"optional_identifier_list", "type_declarations", "declarations",
                    "subprogram_declarations", "expression_list", "standard_type", "type",
                    "arguments"} : Least(symbol) = 1
BY DEF Least

LEMMA LeastTasks ==
  /\ \A task : LeastOf(task) \in Nat
  /\ LeastOf(Token) = 1 /\ LeastOf(ACCEPT) = 1 /\ LeastOf(SUBPROGRAM) = 2
  /\ \A tag, n : LeastOf(Build(tag, n)) = 1
  /\ \A symbol : symbol # "subprogram_declaration" => LeastOf(Parse(symbol)) = Least(symbol)
<1>1. ASSUME NEW task
      PROVE  LeastOf(task) \in {0, 1, 2, 3, Least(task[2])}
  BY Zenon DEF LeastOf
<1>2. \A task : LeastOf(task) \in Nat
  BY ONLY <1>1, Leasts
<1>3. /\ Token[1] = "token" /\ ACCEPT[1] = "accept" /\ SUBPROGRAM[1] = "build subprogram"
      /\ (\A tag, n : Build(tag, n)[1] = "build")
  BY TwoFirst, Zenon DEF Token, ACCEPT, SUBPROGRAM, Build
<1>4. ASSUME NEW task, NEW name \in {"token", "build", "add", "accept"}, task[1] = name
      PROVE  LeastOf(task) = 1
  <2>1. task[1] # "build subprogram" /\ task[1] # "parse"
    BY <1>4, Zenon
  <2>2. task # Parse("subprogram_declaration")
    BY <2>1, TwoFirst, ZenonT(60) DEF Parse
  <2> QED
    BY <1>4, <2>1, <2>2, Zenon DEF LeastOf
<1>5. ASSUME NEW task, task[1] = "build subprogram"
      PROVE  LeastOf(task) = 2
  <2>1. task[1] \notin {"token", "build", "add", "accept"} /\ task[1] # "parse"
    BY <1>5, Zenon
  <2>2. PICK other : other = Parse("subprogram_declaration")
    OBVIOUS
  <2>3. other[1] = "parse"
    BY ONLY <2>2, TwoFirst, Zenon DEF Parse
  <2>4. task # Parse("subprogram_declaration")
    BY ONLY <2>1, <2>2, <2>3, Zenon
  <2> QED
    BY <1>5, <2>1, <2>4, Zenon DEF LeastOf
<1>6. ASSUME NEW symbol, symbol # "subprogram_declaration"
      PROVE  LeastOf(Parse(symbol)) = Least(symbol)
  <2>1. PICK task : task = Parse(symbol)
    OBVIOUS
  <2>2. task[1] = "parse" /\ task[2] = symbol /\ task # Parse("subprogram_declaration")
    BY <1>6, <2>1, TwoFirst DEF Parse
  <2>3. LeastOf(task) = Least(task[2])
    BY <2>2, Zenon DEF LeastOf
  <2> QED
    BY ONLY <2>1, <2>2, <2>3, Zenon
<1>7. /\ LeastOf(Token) = 1 /\ LeastOf(ACCEPT) = 1 /\ LeastOf(SUBPROGRAM) = 2
      /\ \A tag, n : LeastOf(Build(tag, n)) = 1
  BY ONLY <1>3, <1>4, <1>5, Zenon
<1> QED
  BY ONLY <1>2, <1>6, <1>7, Zenon

Share(work, i) == IF i \in DOMAIN work THEN LeastOf(work[i]) ELSE 0
LEMMA Costs ==
  ASSUME NEW work
  PROVE  /\ Cost(work) \in Nat /\ \A i : Share(work, i) \in Nat
         /\ Cost(work) = Share(work, 1) + Share(work, 2) + Share(work, 3) + Share(work, 4)
                         + Share(work, 5) + Share(work, 6) + Share(work, 7) + Share(work, 8)
<1>1. \A i : Share(work, i) \in Nat
  BY LeastTasks DEF Share
<1>2. Cost(work) = Share(work, 1) + Share(work, 2) + Share(work, 3) + Share(work, 4)
                   + Share(work, 5) + Share(work, 6) + Share(work, 7) + Share(work, 8)
  BY DEF Cost, Share
<1> QED
  BY <1>1, <1>2

LEMMA CostOfShort ==
  /\ \A a : Cost(<<a>>) >= LeastOf(a)
  /\ \A a, b : Cost(<<a, b>>) >= LeastOf(a) + LeastOf(b)
  /\ \A a, b, c : Cost(<<a, b, c>>) >= LeastOf(a) + LeastOf(b) + LeastOf(c)
  /\ \A a, b, c, d : Cost(<<a, b, c, d>>) >= LeastOf(a) + LeastOf(b) + LeastOf(c) + LeastOf(d)
<1>1. \A a : Cost(<<a>>) >= LeastOf(a)
  <2> TAKE a
  <2>1. PICK w : w = <<a>>
    OBVIOUS
  <2>2. Share(w, 1) = LeastOf(a)
    BY <2>1 DEF Share
  <2> QED
    BY <2>1, <2>2, Costs
<1>2. \A a, b : Cost(<<a, b>>) >= LeastOf(a) + LeastOf(b)
  <2> TAKE a, b
  <2>1. PICK w : w = <<a, b>>
    OBVIOUS
  <2>2. Share(w, 1) = LeastOf(a) /\ Share(w, 2) = LeastOf(b)
    BY <2>1 DEF Share
  <2> QED
    BY <2>1, <2>2, Costs
<1>3. \A a, b, c : Cost(<<a, b, c>>) >= LeastOf(a) + LeastOf(b) + LeastOf(c)
  <2> TAKE a, b, c
  <2>1. PICK w : w = <<a, b, c>>
    OBVIOUS
  <2>2. Share(w, 1) = LeastOf(a) /\ Share(w, 2) = LeastOf(b) /\ Share(w, 3) = LeastOf(c)
    BY <2>1 DEF Share
  <2> QED
    BY <2>1, <2>2, Costs
<1>4. \A a, b, c, d :
        Cost(<<a, b, c, d>>) >= LeastOf(a) + LeastOf(b) + LeastOf(c) + LeastOf(d)
  <2> TAKE a, b, c, d
  <2>1. PICK w : w = <<a, b, c, d>>
    OBVIOUS
  <2>2. /\ Share(w, 1) = LeastOf(a) /\ Share(w, 2) = LeastOf(b) /\ Share(w, 3) = LeastOf(c)
        /\ Share(w, 4) = LeastOf(d)
    BY <2>1 DEF Share
  <2> QED
    BY <2>1, <2>2, Costs
<1> QED
  BY <1>1, <1>2, <1>3, <1>4

LEMMA CostFirst ==
  /\ \A a : Cost(<<a>>) >= LeastOf(a)
  /\ \A a, b : Cost(<<a, b>>) >= LeastOf(a)
  /\ \A a, b, c : Cost(<<a, b, c>>) >= LeastOf(a) /\ Cost(<<a, b, c>>) >= LeastOf(b)
  /\ \A a, b, c, d : Cost(<<a, b, c, d>>) >= LeastOf(a)
  /\ \A a, b : LeastOf(a) = 1 /\ LeastOf(b) = 1 => Cost(<<a, b>>) >= 2
  /\ \A a, b, c : LeastOf(a) = 1 /\ LeastOf(b) = 1 => Cost(<<a, b, c>>) >= 2
  /\ \A a, b : LeastOf(a) = 2 /\ LeastOf(b) = 1 => Cost(<<a, b>>) >= 3
  /\ \A a, b, c : LeastOf(a) = 2 /\ LeastOf(c) = 1 => Cost(<<a, b, c>>) >= 3
  /\ \A a, b, c : LeastOf(a) = 2 /\ LeastOf(b) = 1 /\ LeastOf(c) = 1 => Cost(<<a, b, c>>) >= 4
  /\ \A a, b, c, d : LeastOf(a) = 2 /\ LeastOf(d) = 1 => Cost(<<a, b, c, d>>) >= 3
<1>1. ASSUME NEW a
      PROVE  LeastOf(a) \in Nat /\ Cost(<<a>>) >= LeastOf(a)
  BY CostOfShort, LeastTasks
<1>2. ASSUME NEW a, NEW b
      PROVE  Cost(<<a, b>>) >= LeastOf(a) + LeastOf(b) /\ Cost(<<a, b>>) \in Nat
  BY CostOfShort, Costs
<1>3. ASSUME NEW a, NEW b, NEW c
      PROVE  Cost(<<a, b, c>>) >= LeastOf(a) + LeastOf(b) + LeastOf(c) /\ Cost(<<a, b, c>>) \in Nat
  BY CostOfShort, Costs
<1>4. ASSUME NEW a, NEW b, NEW c, NEW d
      PROVE  /\ Cost(<<a, b, c, d>>) >= LeastOf(a) + LeastOf(b) + LeastOf(c) + LeastOf(d)
             /\ Cost(<<a, b, c, d>>) \in Nat
  BY CostOfShort, Costs
<1>5. ASSUME NEW a, NEW b
      PROVE  /\ Cost(<<a, b>>) >= LeastOf(a)
             /\ LeastOf(a) = 1 /\ LeastOf(b) = 1 => Cost(<<a, b>>) >= 2
             /\ LeastOf(a) = 2 /\ LeastOf(b) = 1 => Cost(<<a, b>>) >= 3
  <2>1. LeastOf(a) \in Nat /\ LeastOf(b) \in Nat
    BY <1>1
  <2>2. Cost(<<a, b>>) >= LeastOf(a) + LeastOf(b) /\ Cost(<<a, b>>) \in Nat
    BY <1>2
  <2> QED
    BY ONLY <2>1, <2>2
<1>6. ASSUME NEW a, NEW b, NEW c
      PROVE  /\ Cost(<<a, b, c>>) >= LeastOf(a) /\ Cost(<<a, b, c>>) >= LeastOf(b)
             /\ LeastOf(a) = 1 /\ LeastOf(b) = 1 => Cost(<<a, b, c>>) >= 2
             /\ LeastOf(a) = 2 /\ LeastOf(c) = 1 => Cost(<<a, b, c>>) >= 3
             /\ LeastOf(a) = 2 /\ LeastOf(b) = 1 /\ LeastOf(c) = 1 => Cost(<<a, b, c>>) >= 4
  <2>1. LeastOf(a) \in Nat /\ LeastOf(b) \in Nat /\ LeastOf(c) \in Nat
    BY <1>1
  <2>2. Cost(<<a, b, c>>) >= LeastOf(a) + LeastOf(b) + LeastOf(c) /\ Cost(<<a, b, c>>) \in Nat
    BY <1>3
  <2> QED
    BY ONLY <2>1, <2>2
<1>7. ASSUME NEW a, NEW b, NEW c, NEW d
      PROVE  /\ Cost(<<a, b, c, d>>) >= LeastOf(a)
             /\ LeastOf(a) = 2 /\ LeastOf(d) = 1 => Cost(<<a, b, c, d>>) >= 3
  <2>1. LeastOf(a) \in Nat /\ LeastOf(b) \in Nat /\ LeastOf(c) \in Nat /\ LeastOf(d) \in Nat
    BY <1>1
  <2>2. /\ Cost(<<a, b, c, d>>) >= LeastOf(a) + LeastOf(b) + LeastOf(c) + LeastOf(d)
        /\ Cost(<<a, b, c, d>>) \in Nat
    BY <1>4
  <2> QED
    BY ONLY <2>1, <2>2
<1> QED
  BY ONLY <1>1, <1>5, <1>6, <1>7, Zenon

LEMMA RuleCosts ==
  \A symbol : \A work \in Rules(symbol) :
    symbol \in {"program", "subprogram_declaration", "parameter", "lvalue"} \cup
       {"expression", "path", "identifier_list"} \cup {"compound_statement", "statement"} \cup
       {"optional_identifier_list", "type_declarations", "declarations",
        "subprogram_declarations", "expression_list", "standard_type", "type", "arguments"}
      => Cost(work) >= Least(symbol)
<1>1. /\ LeastOf(Token) = 1 /\ LeastOf(ACCEPT) = 1 /\ LeastOf(SUBPROGRAM) = 2
      /\ (\A tag, n : LeastOf(Build(tag, n)) = 1) /\ \A task : LeastOf(task) \in Nat
  BY LeastTasks
<1>2. /\ LeastOf(Parse("identifier_list")) = 2 /\ LeastOf(Parse("type")) = 1
      /\ LeastOf(Parse("standard_type")) = 1 /\ LeastOf(Parse("parameter")) = 4
      /\ LeastOf(Parse("path")) = 2 /\ LeastOf(Parse("expression")) = 2
      /\ LeastOf(Parse("lvalue")) = 3 /\ LeastOf(Parse("expression_list")) = 1
      /\ LeastOf(Parse("optional_identifier_list")) = 1 /\ LeastOf(Parse("type_declarations")) = 1
      /\ LeastOf(Parse("declarations")) = 1 /\ LeastOf(Parse("subprogram_declarations")) = 1
      /\ LeastOf(Parse("arguments")) = 1
  BY LeastTasks, Leasts
<1>3. \A work \in Rules("program") : Cost(work) >= Least("program")
  <2> TAKE work \in Rules("program")
  <2>1. work = <<Token, Parse("optional_identifier_list"), Parse("type_declarations"),
                 Parse("declarations"), Parse("subprogram_declarations"),
                 Parse("compound_statement"), ACCEPT>>
    BY RulesAre DEF RulesArms, ACCEPT
  <2>2. PICK a, b, c, d, e, f : /\ a = Token /\ b = Parse("optional_identifier_list")
          /\ c = Parse("type_declarations") /\ d = Parse("declarations")
          /\ e = Parse("subprogram_declarations") /\ f = Parse("compound_statement")
    OBVIOUS
  <2>3. work = <<a, b, c, d, e, f, ACCEPT>>
    BY ONLY <2>1, <2>2, Zenon
  <2>4. /\ Share(work, 1) = LeastOf(a) /\ Share(work, 2) = LeastOf(b) /\ Share(work, 3) = LeastOf(c)
        /\ Share(work, 4) = LeastOf(d) /\ Share(work, 5) = LeastOf(e)
        /\ Share(work, 7) = LeastOf(ACCEPT)
    BY ONLY <2>3 DEF Share
  <2>5. /\ Share(work, 1) = 1 /\ Share(work, 2) = 1 /\ Share(work, 3) = 1
        /\ Share(work, 4) = 1 /\ Share(work, 5) = 1 /\ Share(work, 7) = 1
    BY ONLY <2>2, <2>4, <1>1, <1>2, Zenon
  <2>6. Cost(work) >= 6
    BY ONLY <2>5, Costs
  <2> QED
    BY <2>6, Leasts
<1>4. \A work \in Rules("subprogram_declaration") : Cost(work) >= Least("subprogram_declaration")
  <2> TAKE work \in Rules("subprogram_declaration")
  <2>1. PICK result \in {Parse("standard_type"), Null} :
          work = <<Token, Parse("arguments"), result, Parse("subprogram_declarations"),
                   Parse("type_declarations"), Parse("declarations"),
                   Parse("compound_statement"), SUBPROGRAM>>
    BY RulesAre, Zenon DEF RulesArms, SUBPROGRAM
  <2>2. PICK a, b, c, d, e, f, g : /\ a = Token /\ b = Parse("arguments") /\ c = result
          /\ d = Parse("subprogram_declarations") /\ e = Parse("type_declarations")
          /\ f = Parse("declarations") /\ g = Parse("compound_statement")
    OBVIOUS
  <2>3. work = <<a, b, c, d, e, f, g, SUBPROGRAM>>
    BY ONLY <2>1, <2>2, Zenon
  <2>4. /\ Share(work, 1) = LeastOf(a) /\ Share(work, 2) = LeastOf(b)
        /\ Share(work, 4) = LeastOf(d) /\ Share(work, 5) = LeastOf(e)
        /\ Share(work, 6) = LeastOf(f) /\ Share(work, 8) = LeastOf(SUBPROGRAM)
    BY ONLY <2>3 DEF Share
  <2>5. /\ Share(work, 1) = 1 /\ Share(work, 2) = 1 /\ Share(work, 4) = 1
        /\ Share(work, 5) = 1 /\ Share(work, 6) = 1 /\ Share(work, 8) = 2
    BY ONLY <2>2, <2>4, <1>1, <1>2, Zenon
  <2>6. Cost(work) >= 7
    BY ONLY <2>5, Costs
  <2> QED
    BY <2>6, Leasts
<1>5. \A work \in Rules("parameter") : Cost(work) >= Least("parameter")
  <2>1. Cost(<<Parse("identifier_list"), Parse("type"), Build("decls", 2)>>) >= 4
    BY ONLY <1>1, <1>2, CostFirst, Zenon
  <2>2. Rules("parameter") = {<<Parse("identifier_list"), Parse("type"), Build("decls", 2)>>}
    BY RulesAre DEF RulesArms
  <2> QED
    BY ONLY <2>1, <2>2, Leasts, Zenon
<1>6. \A work \in Rules("lvalue") : Cost(work) >= Least("lvalue")
  <2>1. /\ Cost(<<Parse("path"), Build("EXPR_PATH", 1)>>) >= 3
        /\ Cost(<<Parse("path"), Parse("expression"), Expect, Build("EXPR_IDX", 2)>>) >= 3
        /\ Cost(<<Parse("path"), Build("EXPR_PATH", 1), Build("EXPR_DEREF", 1)>>) >= 3
    BY ONLY <1>1, <1>2, CostFirst, Zenon
  <2>2. Rules("lvalue") =
          {<<Parse("path"), Build("EXPR_PATH", 1)>>,
           <<Parse("path"), Parse("expression"), Expect, Build("EXPR_IDX", 2)>>,
           <<Parse("path"), Build("EXPR_PATH", 1), Build("EXPR_DEREF", 1)>>}
    BY RulesAre DEF RulesArms
  <2> QED
    BY ONLY <2>1, <2>2, Leasts, Zenon
<1>7. \A work \in Rules("expression") : Cost(work) >= Least("expression")
  <2>1. /\ Cost(<<Parse("expression"), Operator, Parse("expression"), Build("EXPR_BIN", 3)>>) >= 2
        /\ Cost(<<Operator, Parse("expression"), Build("EXPR_UN", 2)>>) >= 2
        /\ Cost(<<Parse("expression"), Build("EXPR_UN", 1)>>) >= 2
        /\ Cost(<<Parse("path"), Parse("expression_list"), Build("EXPR_APP", 2)>>) >= 2
    BY ONLY <1>1, <1>2, CostFirst, Zenon
  <2>2. /\ Cost(<<Token, Build("EXPR_LIT", 1)>>) >= 2
        /\ Cost(<<Parse("expression"), Build("EXPR_ADDROF", 1)>>) >= 2
    BY ONLY <1>1, <1>2, CostFirst, Zenon
  <2>3. Cost(<<Parse("lvalue")>>) >= 2
    <3>1. Cost(<<Parse("lvalue")>>) >= 3 /\ Cost(<<Parse("lvalue")>>) \in Nat
      BY <1>2, CostFirst, Costs
    <3> QED
      BY ONLY <3>1
  <2>4. Rules("expression") =
          {<<Parse("expression"), Operator, Parse("expression"), Build("EXPR_BIN", 3)>>,
           <<Operator, Parse("expression"), Build("EXPR_UN", 2)>>,
           <<Parse("expression"), Build("EXPR_UN", 1)>>,
           <<Parse("path"), Parse("expression_list"), Build("EXPR_APP", 2)>>,
           <<Token, Build("EXPR_LIT", 1)>>,
           <<Parse("lvalue")>>,
           <<Parse("expression"), Build("EXPR_ADDROF", 1)>>}
    BY RulesAre DEF RulesArms
  <2>5. Least("expression") = 2
    BY Leasts
  <2> QED
    BY ONLY <2>1, <2>2, <2>3, <2>4, <2>5, Zenon
<1>8. \A symbol \in {"path", "identifier_list"} : \A work \in Rules(symbol) : Cost(work) >= Least(symbol)
  <2>1. \A tag, n, b : Cost(<<Token, Build(tag, n), b>>) >= 2
    BY ONLY <1>1, CostFirst, Zenon
  <2>2. /\ Rules("path") = {<<Token, Build("path", 1), More(<<Token>>)>>}
        /\ Rules("identifier_list") = {<<Token, Build("free", 1), More(<<Token>>)>>}
    BY RulesAre DEF RulesArms
  <2>3. Least("path") = 2 /\ Least("identifier_list") = 2
    BY Leasts
  <2>4. \A work \in Rules("path") : Cost(work) >= 2
    BY ONLY <2>1, <2>2, Zenon
  <2>5. \A work \in Rules("identifier_list") : Cost(work) >= 2
    BY ONLY <2>1, <2>2, Zenon
  <2> QED
    BY ONLY <2>3, <2>4, <2>5
<1>9. \A symbol \in {"compound_statement", "statement"} : \A work \in Rules(symbol) :
        Cost(work) >= Least(symbol)
  BY Costs, Leasts
<1>10. \A symbol \in {"optional_identifier_list", "type_declarations", "declarations",
                      "subprogram_declarations", "expression_list", "standard_type", "type",
                      "arguments"} : \A work \in Rules(symbol) : Cost(work) >= Least(symbol)
  <2>1. /\ \A tag, n : Cost(<<Build(tag, n)>>) >= 1
        /\ \A tag, n, b : Cost(<<Build(tag, n), b>>) >= 1
        /\ \A tag, n, b, c : Cost(<<Build(tag, n), b, c>>) >= 1
        /\ Cost(<<Parse("standard_type")>>) >= 1
        /\ \A b, c, d : Cost(<<Token, b, c, d>>) >= 1
        /\ \A b : Cost(<<Parse("type"), b>>) >= 1
        /\ \A b : Cost(<<Token, b>>) >= 1
    BY ONLY <1>1, <1>2, CostFirst, Zenon
  <2>2. Cost(<<Parse("identifier_list")>>) >= 1
    <3>1. Cost(<<Parse("identifier_list")>>) >= 2 /\ Cost(<<Parse("identifier_list")>>) \in Nat
      BY <1>2, CostFirst, Costs
    <3> QED
      BY ONLY <3>1
  <2>3. \A b, c : Cost(<<Parse("parameter"), b, c>>) >= 1
    <3> TAKE b, c
    <3>1. /\ Cost(<<Parse("parameter"), b, c>>) >= LeastOf(Parse("parameter"))
          /\ Cost(<<Parse("parameter"), b, c>>) \in Nat
      BY CostFirst, Costs
    <3> QED
      BY ONLY <3>1, <1>2
  <2>4. Rules("type") =
          {<<Parse("standard_type")>>,
           <<Token, Token, Parse("standard_type"), Build("TYPE_ARRAY", 3)>>,
           <<Parse("type"), Build("TYPE_POINTER", 1)>>,
           <<Token, Build("TYPE_REF", 1)>>,
           <<Build("free_*", 0), More(<<Token, Parse("type"), Expect, Build("record_field", 2)>>),
             Build("TYPE_RECORD", 1)>>}
    BY RulesAre DEF RulesArms
  <2>5. Rules("arguments") =
          {<<Build("free_*", 0)>>,
           <<Parse("parameter"), Build("free_*", 1), More(<<Parse("parameter")>>)>>}
    BY RulesAre DEF RulesArms
  <2>6. /\ Rules("optional_identifier_list") =
             {<<Parse("identifier_list")>>, <<Build("free", 0)>>}
        /\ Rules("type_declarations") =
             {<<Build("free_*", 0), More(<<Token, Parse("type"), Expect, Build("type_decl", 2)>>)>>}
        /\ Rules("declarations") =
             {<<Build("free_*", 0),
                More(<<Parse("identifier_list"), Parse("type"), Expect, Build("decls", 2)>>)>>}
        /\ Rules("subprogram_declarations") =
             {<<Build("free_*", 0), More(<<Parse("subprogram_declaration"), Expect>>)>>}
        /\ Rules("expression_list") = {<<Build("free_*", 0), More(<<Parse("expression")>>)>>}
        /\ Rules("standard_type") = {<<Build("TYPE_INTEGER", 0)>>}
    BY RulesAre DEF RulesArms
  <2>7. /\ \A work \in Rules("type") : Cost(work) >= 1
        /\ \A work \in Rules("arguments") : Cost(work) >= 1
    BY ONLY <2>1, <2>3, <2>4, <2>5, Zenon
  <2>8. /\ \A work \in Rules("optional_identifier_list") : Cost(work) >= 1
        /\ \A work \in Rules("type_declarations") : Cost(work) >= 1
        /\ \A work \in Rules("declarations") : Cost(work) >= 1
        /\ \A work \in Rules("subprogram_declarations") : Cost(work) >= 1
        /\ \A work \in Rules("expression_list") : Cost(work) >= 1
        /\ \A work \in Rules("standard_type") : Cost(work) >= 1
    BY ONLY <2>1, <2>2, <2>6, Zenon
  <2> QED
    BY ONLY <2>7, <2>8, Leasts, Zenon
<1> QED
  BY <1>3, <1>4, <1>5, <1>6, <1>7, <1>8, <1>9, <1>10

-----------------------------------------------------------------------------
(* What a step of the parser does to memory: it allocates at most two      *)
(* nodes, and moves the k topmost values into their fields, onto the stack *)
(* again or to the driver.                                                 *)
Parses(nodes, k, pushed) ==
  /\ Grows(nodes, <<>>) /\ Len(nodes) \in 0..2 /\ k \in 0..Len(vals)
  /\ IsSeq(pushed) /\ vals' = Below(k) \o pushed
  /\ st' = st /\ causes' = causes /\ phase' = phase /\ room' \in 0..MaxObjects
  /\ IsSeq(todo') /\ \A i \in DOMAIN todo' : ~Releasing(todo'[i])
  /\ \A i \in 1..Len(nodes) : \A j \in 1..Len(nodes[i].kids) :
       nodes[i].kids[j] \in 0..(fresh + i - 1)
  /\ \A j \in 1..Len(pushed) : pushed[j] \in 0..(fresh + Len(nodes)) \cup {OPERATOR}
  /\ program' \in 0..(fresh + Len(nodes)) /\ Rooted'
  /\ \A a \in Alive' : a \notin Alive => Shaped(a)'

Loose(n, k) ==
  (fresh + 1)..(fresh + n) \cup {vals[i] : i \in (Len(vals) - k + 1)..Len(vals)}
Placed(v, place, o, n, k) == v > 0 => v \in Loose(n, k) /\ o[v] = place
Moves(nodes, k, pushed, o) ==
  /\ \A i \in 1..Len(nodes) : \A j \in 1..Len(nodes[i].kids) :
       Placed(nodes[i].kids[j], <<"field", fresh + i, j>>, o, Len(nodes), k)
  /\ \A j \in 1..Len(pushed) :
       Placed(pushed[j], <<"value", Len(vals) - k + j, 0>>, o, Len(nodes), k)
  /\ Placed(program', <<"program", 0, 0>>, o, Len(nodes), k)
  /\ \A v \in Loose(Len(nodes), k) : v > 0 =>
       \/ \E i \in 1..Len(nodes) : \E j \in 1..Len(nodes[i].kids) : nodes[i].kids[j] = v
       \/ \E j \in 1..Len(pushed) : pushed[j] = v
       \/ program' = v

LEMMA Stacked ==
  ASSUME TypeOK, NEW k \in 0..Len(vals), NEW pushed, IsSeq(pushed), vals' = Below(k) \o pushed
  PROVE  /\ IsSeq(vals) /\ Len(vals) \in Nat /\ DOMAIN vals = 1..Len(vals)
         /\ Len(vals) - k \in Nat /\ Len(pushed) \in Nat
         /\ IsSeq(vals') /\ DOMAIN vals' = 1..(Len(vals) - k + Len(pushed))
         /\ Len(vals') = Len(vals) - k + Len(pushed)
         /\ \A i \in 1..(Len(vals) - k) : vals'[i] = vals[i]
         /\ \A j \in 1..Len(pushed) : vals'[Len(vals) - k + j] = pushed[j]
<1>1. IsSeq(vals) /\ Len(vals) \in Nat /\ DOMAIN vals = 1..Len(vals)
  BY DEF TypeOK, IsSeq
<1>2. PICK h : h = Len(vals) - k
  OBVIOUS
<1>3. h \in Nat /\ 1 \in Int /\ h \in Int
  BY <1>1, <1>2
<1>4. PICK low : low = SubSeq(vals, 1, h)
  OBVIOUS
<1>5. PICK S : vals \in Seq(S)
  BY <1>1 DEF IsSeq
<1>6. \A i \in 1..h : vals[i] \in S
  BY <1>1, <1>2, <1>3, <1>5
<1>7. low \in Seq(S) /\ Len(low) = (IF 1 <= h THEN h - 1 + 1 ELSE 0)
      /\ \A i \in 1..(h - 1 + 1) : low[i] = vals[1 + i - 1]
  BY ONLY <1>3, <1>4, <1>6, PartOf
<1>8. IsSeq(low) /\ Len(low) = h /\ \A i \in 1..h : low[i] = vals[i]
  <2>1. Len(low) = h
    BY <1>3, <1>7
  <2>2. \A i \in 1..h : 1 + i - 1 = i /\ h - 1 + 1 = h
    BY <1>3
  <2> QED
    BY <1>7, <2>1, <2>2 DEF IsSeq
<1>9. vals' = low \o pushed
  BY <1>2, <1>4 DEF Below
<1>10. /\ IsSeq(low \o pushed) /\ Len(low \o pushed) = Len(low) + Len(pushed)
       /\ \A i \in 1..Len(low) : (low \o pushed)[i] = low[i]
       /\ \A i \in 1..Len(pushed) : (low \o pushed)[Len(low) + i] = pushed[i]
  <2>1. IsSeq(low)
    BY <1>8
  <2> QED
    BY <2>1, Joined
<1>11. /\ IsSeq(vals') /\ Len(vals') = h + Len(pushed) /\ DOMAIN vals' = 1..(h + Len(pushed))
       /\ \A i \in 1..h : vals'[i] = vals[i]
       /\ \A j \in 1..Len(pushed) : vals'[h + j] = pushed[j]
  <2>1. IsSeq(vals') /\ Len(vals') = h + Len(pushed)
    BY <1>8, <1>9, <1>10
  <2>2. DOMAIN vals' = 1..(h + Len(pushed))
    BY <2>1, SeqFacts
  <2> QED
    BY <2>1, <2>2, <1>8, <1>9, <1>10
<1>12. Len(pushed) \in Nat
  BY SeqFacts
<1> QED
  BY <1>1, <1>2, <1>3, <1>11, <1>12

LEMMA ParseOwned ==
  ASSUME Memory, Parsing, program = NULL, NEW nodes, NEW k, NEW pushed, NEW o,
         Parses(nodes, k, pushed), Moves(nodes, k, pushed, o)
  PROVE  Owned'
<1>1. PICK n, m, h, len : n = Len(nodes) /\ m = Len(pushed) /\ h = Len(vals) - k /\ len = Len(vals)
  OBVIOUS
<1> DEFINE New(p) ==
             \/ \E i \in 1..n : \E j \in 1..Len(nodes[i].kids) : p = <<"field", fresh + i, j>>
             \/ \E j \in 1..m : p = <<"value", h + j, 0>>
             \/ p = <<"program", 0, 0>>
           Gone(p) == (\E i \in (h + 1)..len : p = <<"value", i, 0>>) \/ p = <<"program", 0, 0>>
           G == {p \in Owners' : New(p)}
           R == {p \in Owners : Gone(p)}
<1>2. /\ TypeOK /\ Stabbed /\ Owned /\ fresh \in Nat /\ Alive \subseteq Address
      /\ st = NULL /\ causes = {} /\ (\A d : <<"call", d, 0>> \notin Places)
      /\ \A i \in DOMAIN todo' : ~Releasing(todo'[i])
  <2>1. Memory /\ TypeOK
    BY DEF Memory
  <2>2. fresh \in Nat /\ Alive \subseteq Address
    BY <2>1 DEF TypeOK
  <2> QED
    BY <2>1, <2>2, ParsingTasks DEF Memory, Parses
<1>3. /\ len \in Nat /\ DOMAIN vals = 1..len /\ h \in Nat /\ m \in Nat /\ h <= len
      /\ DOMAIN vals' = 1..(h + m)
      /\ (\A i \in 1..h : vals'[i] = vals[i])
      /\ \A j \in 1..m : vals'[h + j] = pushed[j]
  <2>1. k \in 0..Len(vals) /\ IsSeq(pushed) /\ vals' = Below(k) \o pushed
    BY DEF Parses
  <2>2. TypeOK
    BY <1>2
  <2>3. /\ Len(vals) \in Nat /\ DOMAIN vals = 1..Len(vals)
        /\ Len(vals) - k \in Nat /\ Len(pushed) \in Nat
        /\ DOMAIN vals' = 1..(Len(vals) - k + Len(pushed))
        /\ (\A i \in 1..(Len(vals) - k) : vals'[i] = vals[i])
        /\ \A j \in 1..Len(pushed) : vals'[Len(vals) - k + j] = pushed[j]
    BY ONLY <2>1, <2>2, Stacked
  <2>4. Len(vals) - k <= Len(vals)
    BY <2>1, <2>3
  <2> QED
    BY ONLY <2>3, <2>4, <1>1
<1>4. /\ fresh' = fresh + n /\ n \in Nat /\ fresh' \in Nat
      /\ Alive' = Alive \cup (fresh + 1)..(fresh + n)
      /\ \A i \in 1..n : heap'[fresh + i] = nodes[i] /\ DOMAIN nodes[i].kids = 1..Len(nodes[i].kids)
  <2>1. Grows(nodes, <<>>)
    BY DEF Parses
  <2> QED
    BY <2>1, <1>1, <1>2, SeqFacts DEF Grows
<1>5. \A a \in Alive : heap'[a] = heap[a] /\ a <= fresh /\ a > 0
  <2>1. \A a \in Alive : a > 0 /\ a <= fresh
    BY <1>2 DEF Address
  <2>2. \A a \in Alive : a # st
    BY <2>1, <1>2 DEF NULL
  <2> QED
    BY <2>1, <2>2 DEF Parses, Grows
<1>6. \A a \in Alive' : a <= fresh => a \in Alive
  BY <1>2, <1>4
<1>7. ASSUME NEW p \in Owners'
      PROVE  \/ \E i \in 1..n : \E j \in 1..Len(nodes[i].kids) :
                  p = <<"field", fresh + i, j>> /\ Held(p)' = nodes[i].kids[j]
             \/ \E j \in 1..m : p = <<"value", h + j, 0>> /\ Held(p)' = pushed[j]
             \/ p = <<"program", 0, 0>> /\ Held(p)' = program'
             \/ p \in Owners /\ ~Gone(p) /\ ~New(p) /\ Held(p)' = Held(p)
  <2>0. p \in Places' /\ Held(p)' > 0
    BY PlaceFactsPrime
  <2>1. CASE \E i \in DOMAIN vals' : p = <<"value", i, 0>>
    <3>1. PICK i \in 1..(h + m) : p = <<"value", i, 0>>
      BY <2>1, <1>3
    <3>2. Held(p)' = vals'[i]
      BY <3>1, PlaceFactsPrime
    <3>3. CASE i \in 1..h
      <4>1. vals'[i] = vals[i] /\ i \in DOMAIN vals
        BY <3>3, <1>3
      <4>2. p \in Owners /\ Held(p) = vals[i]
        BY <4>1, <3>1, <3>2, <2>0, PlaceFacts DEF PlaceLaws
      <4>3. ~Gone(p) /\ ~New(p)
        <5>1. /\ \A j \in (h + 1)..len : j # i
              /\ \A j \in 1..m : h + j # i
          BY <3>3, <1>3
        <5> QED
          BY <3>1, <5>1
      <4> QED
        BY <4>1, <4>2, <4>3, <3>2
    <3>4. CASE i \notin 1..h
      <4>1. i - h \in 1..m /\ i = h + (i - h)
        BY <3>4, <1>3
      <4> QED
        BY <4>1, <3>1, <3>2, <1>3
    <3> QED
      BY <3>3, <3>4
  <2>2. CASE \E j \in DOMAIN todo' : Releasing(todo'[j]) /\ p = <<"call", Len(todo') - j, 0>>
    BY <2>2, <1>2
  <2>3. CASE \E a \in Alive' : \E i \in DOMAIN heap'[a].kids : p = <<"field", a, i>>
    <3>1. PICK a \in Alive' : \E i \in DOMAIN heap'[a].kids : p = <<"field", a, i>>
      BY <2>3
    <3>2. PICK j \in DOMAIN heap'[a].kids : p = <<"field", a, j>>
      BY <3>1
    <3>3. Held(p)' = heap'[a].kids[j]
      BY <3>2, PlaceFactsPrime
    <3>4. CASE a \in Alive
      <4>1. heap'[a].kids = KidsOf(a)
        BY <3>4, <1>5 DEF KidsOf
      <4>2. p \in Owners /\ Held(p) = KidsOf(a)[j]
        BY <4>1, <3>2, <3>3, <3>4, <2>0, PlaceFacts DEF PlaceLaws
      <4>3. ~Gone(p) /\ ~New(p)
        <5>1. \A i \in 1..n : fresh + i # a
          BY <3>4, <1>2, <1>4, <1>5
        <5> QED
          BY <3>2, <5>1
      <4> QED
        BY <4>1, <4>2, <4>3, <3>3
    <3>5. CASE a \notin Alive
      <4>1. a \in (fresh + 1)..(fresh + n)
        BY <3>5, <1>4
      <4>2. a - fresh \in 1..n /\ a = fresh + (a - fresh)
        BY <4>1, <1>2, <1>4
      <4>3. PICK i \in 1..n : a = fresh + i
        BY <4>2
      <4>4. heap'[a] = nodes[i] /\ j \in 1..Len(nodes[i].kids)
        BY <4>3, <3>2, <1>4
      <4> QED
        BY <4>3, <4>4, <3>2, <3>3
    <3> QED
      BY <3>4, <3>5
  <2>4. CASE p = <<"program", 0, 0>>
    BY <2>4, PlaceFactsPrime
  <2>5. CASE p = <<"st", 0, 0>>
    <3>1. Held(p)' = st' /\ st' = 0
      BY <2>5, <1>2, PlaceFactsPrime DEF Parses, NULL
    <3> QED
      BY <3>1, <2>0
  <2> QED
    BY <2>0, <2>1, <2>2, <2>3, <2>4, <2>5, PlaceFactsPrime
<1>8. ASSUME NEW p \in Owners, ~Gone(p)
      PROVE  p \in Owners' /\ Held(p)' = Held(p)
  <2>0. p \in Places /\ Held(p) > 0
    BY PlaceFacts DEF PlaceLaws
  <2>1. CASE \E i \in DOMAIN vals : p = <<"value", i, 0>>
    <3>1. PICK i \in 1..len : p = <<"value", i, 0>>
      BY <2>1, <1>3
    <3>2. i \in 1..h
      BY <3>1, <1>8, <1>3
    <3>3. vals'[i] = vals[i] /\ i \in DOMAIN vals'
      BY <3>2, <1>3
    <3>4. Held(p)' = vals'[i] /\ Held(p) = vals[i] /\ (<<"value", i, 0>> \in Places)'
      BY <3>1, <3>3, PlaceFacts, PlaceFactsPrime DEF PlaceLaws
    <3> QED
      BY <3>1, <3>3, <3>4, <2>0, PlaceFactsPrime
  <2>2. CASE \E d : p = <<"call", d, 0>>
    BY <2>0, <2>2, <1>2
  <2>3. CASE \E a \in Alive : \E i \in DOMAIN KidsOf(a) : p = <<"field", a, i>>
    <3>1. PICK a \in Alive : \E i \in DOMAIN KidsOf(a) : p = <<"field", a, i>>
      BY <2>3
    <3>2. PICK j \in DOMAIN KidsOf(a) : p = <<"field", a, j>>
      BY <3>1
    <3>3. heap'[a].kids = KidsOf(a) /\ a \in Alive'
      BY <1>4, <1>5 DEF KidsOf
    <3>4. Held(p)' = heap'[a].kids[j] /\ Held(p) = KidsOf(a)[j] /\ (<<"field", a, j>> \in Places)'
      BY <3>2, <3>3, PlaceFacts, PlaceFactsPrime DEF PlaceLaws
    <3> QED
      BY <3>2, <3>3, <3>4, <2>0, PlaceFactsPrime
  <2>4. p # <<"program", 0, 0>>
    BY <1>8
  <2>5. CASE p = <<"st", 0, 0>>
    BY <2>0, <2>5, <1>2, PlaceFacts DEF PlaceLaws, NULL
  <2> QED
    BY <2>0, <2>1, <2>2, <2>3, <2>4, <2>5, PlaceFacts DEF PlaceLaws
<1>9. ASSUME NEW p \in G
      PROVE  Held(p)' > 0 /\ Held(p)' \in Loose(n, k) /\ o[Held(p)'] = p
  <2>1. p \in Owners' /\ New(p) /\ Held(p)' > 0
    BY PlaceFactsPrime
  <2>2. CASE \E i \in 1..n : \E j \in 1..Len(nodes[i].kids) :
                  p = <<"field", fresh + i, j>> /\ Held(p)' = nodes[i].kids[j]
    <3>1. PICK i \in 1..n : \E j \in 1..Len(nodes[i].kids) :
                  p = <<"field", fresh + i, j>> /\ Held(p)' = nodes[i].kids[j]
      BY <2>2
    <3>2. PICK j \in 1..Len(nodes[i].kids) :
                  p = <<"field", fresh + i, j>> /\ Held(p)' = nodes[i].kids[j]
      BY <3>1
    <3>3. Placed(nodes[i].kids[j], <<"field", fresh + i, j>>, o, n, k)
      BY <3>2, <1>1 DEF Moves
    <3> QED
      BY <3>2, <3>3, <2>1 DEF Placed
  <2>3. CASE \E j \in 1..m : p = <<"value", h + j, 0>> /\ Held(p)' = pushed[j]
    <3>1. PICK j \in 1..m : p = <<"value", h + j, 0>> /\ Held(p)' = pushed[j]
      BY <2>3
    <3>2. Placed(pushed[j], <<"value", h + j, 0>>, o, n, k)
      BY <3>1, <1>1 DEF Moves
    <3> QED
      BY <3>1, <3>2, <2>1 DEF Placed
  <2>4. CASE p = <<"program", 0, 0>> /\ Held(p)' = program'
    <3>1. Placed(program', <<"program", 0, 0>>, o, n, k)
      BY <1>1 DEF Moves
    <3> QED
      BY <3>1, <2>4, <2>1 DEF Placed
  <2> QED
    BY <2>1, <2>2, <2>3, <2>4, <1>7
<1>10. ASSUME NEW v \in Loose(n, k), v > 0
       PROVE  \E p \in G : Held(p)' = v
  <2>1. CASE \E i \in 1..n : \E j \in 1..Len(nodes[i].kids) : nodes[i].kids[j] = v
    <3>1. PICK i \in 1..n : \E j \in 1..Len(nodes[i].kids) : nodes[i].kids[j] = v
      BY <2>1
    <3>2. PICK j \in 1..Len(nodes[i].kids) : nodes[i].kids[j] = v
      BY <3>1
    <3>3. PICK a : a = fresh + i
      OBVIOUS
    <3>4. a \in Alive' /\ j \in DOMAIN heap'[a].kids /\ heap'[a].kids[j] = v
      BY <3>2, <3>3, <1>2, <1>4
    <3>5. (<<"field", a, j>> \in Places)' /\ Held(<<"field", a, j>>)' = v
      BY <3>4, PlaceFactsPrime
    <3>6. <<"field", a, j>> \in Owners'
      BY <3>5, <1>10, PlaceFactsPrime
    <3>7. New(<<"field", a, j>>)
      BY <3>2, <3>3
    <3> QED
      BY <3>5, <3>6, <3>7
  <2>2. CASE \E j \in 1..m : pushed[j] = v
    <3>1. PICK j \in 1..m : pushed[j] = v
      BY <2>2
    <3>2. PICK i : i = h + j
      OBVIOUS
    <3>3. i \in DOMAIN vals' /\ vals'[i] = v
      BY <3>1, <3>2, <1>3
    <3>4. (<<"value", i, 0>> \in Places)' /\ Held(<<"value", i, 0>>)' = v
      BY <3>3, PlaceFactsPrime
    <3>5. <<"value", i, 0>> \in Owners'
      BY <3>4, <1>10, PlaceFactsPrime
    <3>6. New(<<"value", i, 0>>)
      BY <3>1, <3>2
    <3> QED
      BY <3>4, <3>5, <3>6
  <2>3. CASE program' = v
    BY <2>3, <1>10, PlaceFactsPrime
  <2> QED
    BY <2>1, <2>2, <2>3, <1>1, <1>10 DEF Moves
<1>11. \A r \in R : \E i \in (h + 1)..len : r = <<"value", i, 0>> /\ Held(r) = vals[i]
  <2> TAKE r \in R
  <2>1. Held(r) > 0
    BY PlaceFacts DEF PlaceLaws
  <2>2. r # <<"program", 0, 0>>
    BY <2>1, PlaceFacts DEF PlaceLaws, NULL
  <2> QED
    BY <2>2, PlaceFacts DEF PlaceLaws
<1>12. ASSUME NEW v, NEW i \in (h + 1)..len, v = vals[i], v > 0
       PROVE  \E r \in R \cap Owners : Held(r) = v
  <2>1. i \in DOMAIN vals
    BY <1>3
  <2>2. <<"value", i, 0>> \in Owners /\ Held(<<"value", i, 0>>) = v
    BY <2>1, <1>12, PlaceFacts DEF PlaceLaws
  <2> QED
    BY <2>2
<1>13. \A p \in G \cap Owners' :
         \/ Held(p)' \in Alive' /\ Held(p)' > fresh
         \/ \E r \in R \cap Owners : Held(r) = Held(p)'
  <2> TAKE p \in G \cap Owners'
  <2>1. PICK v : v = Held(p)'
    OBVIOUS
  <2>2. v > 0 /\ v \in Loose(n, k)
    BY <2>1, <1>9
  <2>3. CASE v \in (fresh + 1)..(fresh + n)
    BY <2>1, <2>3, <1>2, <1>4
  <2>4. CASE \E i \in (h + 1)..len : v = vals[i]
    BY <2>1, <2>2, <2>4, <1>12
  <2> QED
    BY <2>2, <2>3, <2>4, <1>1 DEF Loose
<1>14. \A p, q \in G \cap Owners' :
         Held(p)' = Held(q)' /\ p # q => causes' # {} /\ IsString(Held(p))'
  BY <1>9
<1>15. \A a \in Alive' : \/ \E p \in G \cap Owners' : Held(p)' = a
                         \/ a \in Alive /\ \A r \in R \cap Owners : Held(r) # a
  <2> TAKE a \in Alive'
  <2>1. CASE a \in Loose(n, k) /\ a > 0
    BY <2>1, <1>10
  <2>2. CASE a \notin Loose(n, k) /\ a > 0
    <3>1. a \in Alive
      BY <2>2, <1>1, <1>4 DEF Loose
    <3>2. \A i \in (h + 1)..len : vals[i] # a
      BY <2>2, <1>1 DEF Loose
    <3> QED
      BY <3>1, <3>2, <1>11
  <2>3. a > 0
    BY <1>2, <1>4, <1>5
  <2> QED
    BY <2>1, <2>2, <2>3
<1>16. \A p \in Owners' \ G : p \in Owners \ R /\ Held(p)' = Held(p)
  BY <1>7
<1>17. \A p \in Owners \ R : p \in Owners' /\ Held(p)' = Held(p)
  BY <1>8
<1>18. /\ Alive' \subseteq Address' /\ causes \subseteq causes' /\ fresh <= fresh' /\ Alive \ Alive' = {}
  <2>1. causes \subseteq causes' /\ fresh <= fresh' /\ Alive \ Alive' = {}
    BY <1>2, <1>4 DEF Parses
  <2>2. ASSUME NEW a \in Alive'
        PROVE  a \in 1..fresh'
    <3>1. CASE a \in Alive
      BY <3>1, <1>2, <1>4 DEF Address
    <3>2. CASE a \in (fresh + 1)..(fresh + n)
      BY <3>2, <1>2, <1>4
    <3> QED
      BY <3>1, <3>2, <1>4
  <2> QED
    BY <2>1, <2>2 DEF Address
<1>19. \A a \in Alive' : a <= fresh => a \in Alive /\ heap'[a].tag = heap[a].tag
  BY <1>5, <1>6
<1> HIDE DEF G, R
<1>20. \A a \in Alive \ Alive' : /\ \E r \in R \cap Owners : Held(r) = a
                                /\ \A p \in G \cap Owners' : Held(p)' # a
  BY <1>18
<1>21. \A p \in G \cap Owners' :
         \/ Held(p)' \in Alive' /\ Held(p)' > fresh
         \/ \E r \in R \cap Owners : Held(r) = Held(p)'
         \/ causes' # {} /\ IsString(Held(p))' /\ Held(p)' \in Address
  BY <1>13
<1>22. Owned /\ fresh \in Nat /\ fresh' \in Nat /\ Alive \subseteq Address
  BY <1>2, <1>4
<1> QED
  BY ONLY <1>14, <1>15, <1>16, <1>17, <1>18, <1>19, <1>20, <1>21, <1>22, Transfer

LEMMA ParseGrounded ==
  ASSUME Memory, st = NULL, NEW nodes, NEW k, NEW pushed, Parses(nodes, k, pushed)
  PROVE  Grounded'
<1>1. PICK n : n = Len(nodes)
  OBVIOUS
<1>2. /\ TypeOK /\ Grounded /\ fresh \in Nat /\ n \in {0, 1, 2}
      /\ Alive' = Alive \cup (fresh + 1)..(fresh + n)
      /\ \A i \in 1..n : heap'[fresh + i] = nodes[i] /\ IsSeq(nodes[i].kids)
      /\ \A i \in 1..n : \A j \in 1..Len(nodes[i].kids) : nodes[i].kids[j] <= fresh + i - 1
  <2>1. TypeOK /\ Grounded /\ fresh \in Nat /\ n \in {0, 1, 2}
    BY <1>1 DEF Memory, TypeOK, Parses
  <2>2. /\ Alive' = Alive \cup (fresh + 1)..(fresh + n)
        /\ \A i \in 1..n : heap'[fresh + i] = nodes[i] /\ IsSeq(nodes[i].kids)
    BY <1>1 DEF Parses, Grows
  <2>3. \A i \in 1..n : \A j \in 1..Len(nodes[i].kids) : nodes[i].kids[j] \in 0..(fresh + i - 1)
    BY <1>1 DEF Parses
  <2>4. \A i \in 1..n : \A j \in 1..Len(nodes[i].kids) : nodes[i].kids[j] <= fresh + i - 1
    BY <2>1, <2>3
  <2> QED
    BY <2>1, <2>2, <2>4
<1>3. \A a \in Alive : heap'[a] = heap[a] /\ a <= fresh /\ a > 0 /\ a \in Int
  <2>1. \A a \in Alive : a > 0 /\ a <= fresh /\ a \in Int
    BY <1>2 DEF TypeOK, Address
  <2>2. \A a \in Alive : a # st
    BY <2>1 DEF NULL
  <2> QED
    BY <2>1, <2>2 DEF Parses, Grows
<1>4. \A a \in Alive : \A i \in DOMAIN heap'[a].kids : heap'[a].kids[i] <= fresh
  <2> TAKE a \in Alive
  <2>1. heap'[a].kids = KidsOf(a) /\ KidsOf(a) \in Seq(0..fresh)
    BY <1>2, <1>3 DEF KidsOf, TypeOK, References, Address, NULL
  <2> QED
    BY <2>1, <1>2
<1>6. PICK A, f : A = Alive /\ f = fresh
  OBVIOUS
<1>7. GroundedOn(A)'
  <2> SUFFICES ASSUME NEW S \in SUBSET A, S # {}
               PROVE  \E a \in S : ~Into(a, S)'
    BY DEF GroundedOn
  <2>1. PICK a \in S : ~Into(a, S)
    BY <1>2, <1>6 DEF Grounded, GroundedOn
  <2>2. \A b \in S : heap'[b] = heap[b]
    BY <1>3, <1>6
  <2> QED
    BY <2>1, <2>2 DEF Into, KidsOf
<1>8. \A B, C : GroundedOn(B)' /\ (\A c \in C : ~Into(c, B \cup C)') => GroundedOn(B \cup C)'
  BY LayerPrime DEF LayerLaw
<1>9. \A b \in A : \A i \in DOMAIN heap'[b].kids : heap'[b].kids[i] <= f
  BY <1>4, <1>6
<1>10. ASSUME n >= 1
       PROVE  /\ \A i \in DOMAIN heap'[f + 1].kids : heap'[f + 1].kids[i] <= f
              /\ GroundedOn(A \cup {f + 1})'
  <2>1. 1 \in 1..n /\ heap'[f + 1] = nodes[1] /\ IsSeq(nodes[1].kids) /\ f + 1 - 1 = f /\ f \in Nat
    BY <1>2, <1>6, <1>10
  <2>2. \A j \in 1..Len(nodes[1].kids) : nodes[1].kids[j] <= f
    BY <2>1, <1>2, <1>6
  <2>3. DOMAIN nodes[1].kids = 1..Len(nodes[1].kids)
    BY <2>1, SeqFacts
  <2>4. \A i \in DOMAIN heap'[f + 1].kids : heap'[f + 1].kids[i] <= f
    BY <2>1, <2>2, <2>3
  <2>5. ~(f + 1 <= f)
    BY <2>1
  <2>6. ~Into(f + 1, A \cup {f + 1})'
    BY <2>4, <2>5, <1>9 DEF Into, KidsOf
  <2>7. \A c \in {f + 1} : ~Into(c, A \cup {f + 1})'
    BY <2>6
  <2> QED
    BY ONLY <2>4, <2>7, <1>7, <1>8
<1>11. ASSUME n = 2
       PROVE  GroundedOn((A \cup {f + 1}) \cup {f + 2})'
  <2>1. 2 \in 1..n /\ heap'[f + 2] = nodes[2] /\ IsSeq(nodes[2].kids) /\ f + 2 - 1 = f + 1 /\ f \in Nat
        /\ n >= 1
    BY <1>2, <1>6, <1>11
  <2>2. \A j \in 1..Len(nodes[2].kids) : nodes[2].kids[j] <= f + 1
    BY <2>1, <1>2, <1>6
  <2>3. DOMAIN nodes[2].kids = 1..Len(nodes[2].kids)
    BY <2>1, SeqFacts
  <2>4. \A i \in DOMAIN heap'[f + 2].kids : heap'[f + 2].kids[i] <= f + 1
    BY <2>1, <2>2, <2>3
  <2>5. ~(f + 2 <= f) /\ ~(f + 2 <= f + 1)
    BY <2>1
  <2>6. \A b \in (A \cup {f + 1}) \cup {f + 2} : \A i \in DOMAIN heap'[b].kids : heap'[b].kids[i] # f + 2
    BY <2>1, <2>4, <2>5, <1>9, <1>10
  <2>7. \A c \in {f + 2} : ~Into(c, (A \cup {f + 1}) \cup {f + 2})'
    BY <2>6 DEF Into, KidsOf
  <2>8. GroundedOn(A \cup {f + 1})'
    BY <2>1, <1>10
  <2> QED
    BY ONLY <2>7, <2>8, <1>8
<1>13. \/ n = 0 /\ Alive' = A
       \/ n = 1 /\ Alive' = A \cup {f + 1}
       \/ n = 2 /\ Alive' = (A \cup {f + 1}) \cup {f + 2}
  <2>1. f \in Nat /\ f + 0 < f + 1
    BY <1>2, <1>6
  <2>2. (f + 1)..(f + 0) = {} /\ (f + 1)..(f + 1) = {f + 1} /\ (f + 1)..(f + 2) = {f + 1, f + 2}
    BY <2>1
  <2> QED
    BY <2>2, <1>2, <1>6
<1>14. PICK B : B = Alive'
  OBVIOUS
<1>15. GroundedOn(B)'
  BY <1>7, <1>10, <1>11, <1>13, <1>14
<1> QED
  BY <1>14, <1>15 DEF Grounded, GroundedOn

LEMMA ParseMemory ==
  ASSUME Memory, Parsing, program = NULL, NEW nodes, NEW k, NEW pushed, NEW o,
         Parses(nodes, k, pushed), Moves(nodes, k, pushed, o)
  PROVE  Memory'
<1>1. /\ TypeOK /\ Records /\ Shape /\ Rooted /\ Stabbed /\ fresh \in Nat /\ Alive \subseteq Address
      /\ Grows(nodes, <<>>) /\ st = NULL /\ st' = NULL /\ causes' = {}
      /\ \A a \in Alive : ~Emptied(a)
  BY ParsingTasks DEF Memory, TypeOK, Parses
<1>2. /\ fresh' = fresh + Len(nodes) /\ fresh' \in Nat /\ fresh <= fresh' /\ Len(nodes) \in Nat
      /\ Alive \subseteq Alive' /\ Alive' \subseteq Address'
      /\ (\A a \in Alive' : a \notin Alive =>
           \E i \in 1..Len(nodes) : a = fresh + i /\ heap'[a] = nodes[i])
      /\ \A a \in Alive : heap'[a].tag = heap[a].tag /\ (a # st => heap'[a].kids = KidsOf(a))
  BY <1>1, GrowKeeps
<1>3. \A v, kind : Is(v, kind) => Is(v, kind)'
  BY <1>1, GrowKeeps
<1>4. \A a \in Alive : heap'[a].kids = KidsOf(a) /\ KidsOf(a) \in Seq(References) /\ Shaped(a)
  <2>1. \A a \in Alive : a # st
    BY <1>1 DEF Address, NULL
  <2>2. \A a \in Alive : KidsOf(a) \in Seq(References) /\ Shaped(a)
    BY <1>1 DEF TypeOK, Shape
  <2> QED
    BY <2>1, <2>2, <1>2
<1>5. Shape'
  <2> SUFFICES ASSUME NEW a \in Alive'
               PROVE  Shaped(a)'
    BY DEF Shape
  <2>1. CASE a \notin Alive
    BY <2>1 DEF Parses
  <2>2. CASE a \in Alive
    <3>1. /\ Shaped(a) /\ heap'[a].tag = heap[a].tag /\ heap'[a].kids = KidsOf(a)
          /\ KidsOf(a) \in Seq(References)
      BY <2>2, <1>2, <1>4
    <3>2. \A i \in DOMAIN KidsOf(a), kind \in Kind :
            Is(KidsOf(a)[i], kind) => Is(KidsOf(a)[i], kind)'
      <4> TAKE i \in DOMAIN KidsOf(a), kind \in Kind
      <4>1. PICK v : v = KidsOf(a)[i]
        OBVIOUS
      <4>2. KidsOf(a)'[i] = v
        BY <4>1, <3>1 DEF KidsOf
      <4> QED
        BY <1>3, <4>1, <4>2
    <3> QED
      BY ONLY <3>1, <3>2, <2>2, a \in Alive', ShapedKept
  <2> QED
    BY <2>1, <2>2
<1>6. References = 0..fresh /\ References' = 0..fresh'
  BY <1>1, <1>2 DEF References, Address, NULL
<1>7. ASSUME NEW a \in Alive'
      PROVE  heap'[a].kids \in Seq(References')
  <2>1. CASE a \in Alive
    <3>1. heap'[a].kids \in Seq(0..fresh)
      BY <2>1, <1>4, <1>6
    <3>2. 0..fresh \subseteq 0..fresh'
      BY <1>1, <1>2
    <3>3. heap'[a].kids \in Seq(0..fresh')
      <4>1. PICK S, T, kids : S = 0..fresh /\ T = 0..fresh' /\ kids = heap'[a].kids
        OBVIOUS
      <4>2. S \subseteq T /\ kids \in Seq(S)
        BY <4>1, <3>1, <3>2
      <4>3. kids \in Seq(T)
        BY ONLY <4>2
      <4> QED
        BY ONLY <4>1, <4>3
    <3> QED
      BY ONLY <3>3, <1>6
  <2>2. CASE a \notin Alive
    <3>1. PICK i \in 1..Len(nodes) : a = fresh + i /\ heap'[a] = nodes[i]
      BY <2>2, <1>2
    <3>2. IsSeq(nodes[i].kids)
      BY <1>1 DEF Grows
    <3>3. \A j \in 1..Len(nodes[i].kids) : nodes[i].kids[j] \in 0..(fresh + i - 1)
      BY DEF Parses
    <3>4. 0..(fresh + i - 1) \subseteq 0..fresh'
      BY <1>1, <1>2
    <3>5. \A j \in 1..Len(nodes[i].kids) : nodes[i].kids[j] \in References'
      BY <3>3, <3>4, <1>6
    <3> QED
      BY <3>1, <3>2, <3>5, SeqOver
  <2> QED
    BY <2>1, <2>2
<1>8. vals' \in Seq(References' \cup {OPERATOR})
  <2>1. PICK h, m : h = Len(vals) - k /\ m = Len(pushed)
    OBVIOUS
  <2>2. /\ IsSeq(vals') /\ Len(vals') = h + m /\ h \in Nat /\ m \in Nat /\ h <= Len(vals)
        /\ Len(vals) \in Nat
        /\ (\A i \in 1..h : vals'[i] = vals[i])
        /\ \A j \in 1..m : vals'[h + j] = pushed[j]
    <3>1. k \in 0..Len(vals) /\ IsSeq(pushed) /\ vals' = Below(k) \o pushed
      BY DEF Parses
    <3>2. /\ IsSeq(vals') /\ Len(vals') = Len(vals) - k + Len(pushed) /\ Len(vals) - k \in Nat
          /\ Len(pushed) \in Nat /\ Len(vals) \in Nat
          /\ (\A i \in 1..(Len(vals) - k) : vals'[i] = vals[i])
          /\ \A j \in 1..Len(pushed) : vals'[Len(vals) - k + j] = pushed[j]
      BY ONLY <3>1, <1>1, Stacked
    <3>3. Len(vals) - k <= Len(vals)
      BY <3>1, <3>2
    <3> QED
      BY ONLY <2>1, <3>2, <3>3
  <2>3. PICK S : S = References' \cup {OPERATOR}
    OBVIOUS
  <2>4. ASSUME NEW i \in 1..Len(vals')
        PROVE  vals'[i] \in S
    <3>1. CASE i \in 1..h
      <4>1. i \in 1..Len(vals) /\ vals'[i] = vals[i]
        BY <3>1, <2>2
      <4>2. vals[i] \in References \cup {OPERATOR}
        BY <4>1, <1>1 DEF TypeOK
      <4>3. 0..fresh \subseteq 0..fresh'
        BY <1>1, <1>2
      <4> QED
        BY <4>1, <4>2, <4>3, <1>6, <2>3
    <3>2. CASE i \notin 1..h
      <4>1. i - h \in 1..m /\ i = h + (i - h)
        BY <3>2, <2>2
      <4>2. pushed[i - h] \in 0..(fresh + Len(nodes)) \cup {OPERATOR}
        BY <4>1, <2>1 DEF Parses
      <4> QED
        BY <4>1, <4>2, <2>2, <2>3, <1>2, <1>6
    <3> QED
      BY <3>1, <3>2
  <2>5. vals' \in Seq(S)
    BY <2>2, <2>4, SeqOver
  <2> QED
    BY <2>3, <2>5
<1>9. TypeOK'
  <2>1. {program', st'} \subseteq References' /\ room' \in 0..MaxObjects
    BY <1>1, <1>2, <1>6 DEF Parses, NULL
  <2>2. phase' \in {"run", "done", "error", "abort", "undefined"}
    BY <1>1 DEF TypeOK, Parses
  <2> QED
    BY <2>1, <2>2, <1>2, <1>7, <1>8 DEF TypeOK, KidsOf
<1>10. Owned'
  BY ParseOwned
<1>11. Grounded'
  BY <1>1, ParseGrounded
<1>12. Records' /\ Rooted' /\ Stabbed' /\ causes' \subseteq Shares
  BY <1>1 DEF Parses, Grows, Stabbed
<1> QED
  BY <1>5, <1>9, <1>10, <1>11, <1>12 DEF Memory

LEMMA FieldsSplit ==
  ASSUME IsSeq(vals), NEW r \in Stack, NEW kinds \in Stack, Fields(vals, r \o kinds)
  PROVE  /\ Len(r) \in Nat /\ Len(kinds) \in Nat /\ Len(vals) = Len(r) + Len(kinds)
         /\ Len(vals) \in Nat /\ Len(kinds) \in 0..Len(vals) /\ Len(vals) - Len(kinds) = Len(r)
         /\ \A i \in 1..Len(r) : Is(vals[i], r[i])
         /\ \A i \in 1..Len(kinds) : Is(vals[Len(r) + i], kinds[i])
<1>1. IsSeq(r) /\ IsSeq(kinds)
  BY DEF Stack, IsSeq
<1>2. PICK s : s = r \o kinds
  OBVIOUS
<1>3. /\ Len(s) = Len(r) + Len(kinds) /\ Len(r) \in Nat /\ Len(kinds) \in Nat
      /\ (\A i \in 1..Len(r) : s[i] = r[i])
      /\ \A i \in 1..Len(kinds) : s[Len(r) + i] = kinds[i]
  BY <1>1, <1>2, SeqFacts
<1>4. Len(vals) = Len(s) /\ \A i \in 1..Len(s) : Is(vals[i], s[i])
  BY <1>2 DEF Fields
<1>5. \A i \in 1..Len(r) : Is(vals[i], r[i])
  BY <1>3, <1>4
<1>6. \A i \in 1..Len(kinds) : Is(vals[Len(r) + i], kinds[i])
  <2> TAKE i \in 1..Len(kinds)
  <2>1. Len(r) + i \in 1..Len(s)
    BY <1>3
  <2> QED
    BY <2>1, <1>3, <1>4
<1>7. Len(kinds) \in 0..Len(vals) /\ Len(vals) - Len(kinds) = Len(r)
  BY <1>3, <1>4
<1> QED
  BY <1>3, <1>4, <1>5, <1>6, <1>7

(* What a step may be, from the name of its task *)
StepsBy(task, s, t) ==
  /\ task[1] = "token" => t = Append(s, "string")
  /\ task[1] = "expect" => t = s
  /\ task[1] = "null" => t \in {Append(s, "ref"), Append(s, "result")}
  /\ task[1] = "operator" => t = Append(s, "operator")
  /\ task[1] = "parse" =>
       task = Parse(task[2]) /\ \E kind : Yields(task[2], kind) /\ t = Append(s, kind)
  /\ task[1] = "build" =>
       \E kinds, kind : \E r \in Stack :
         /\ task = Build(task[2], Len(kinds)) /\ Builds(task[2], kinds, kind)
         /\ s = r \o kinds /\ t = Append(r, kind)
  /\ task[1] = "add" =>
       \E list, element : \E r \in Stack :
         Adds(list, element) /\ s = r \o <<list, element>> /\ t = Append(r, list)
  /\ task[1] = "more" =>
       \E list : \E r \in Stack : Repeats(task[2], list) /\ s = Append(r, list) /\ t = s
  /\ task[1] = SUBPROGRAM[1] =>
       \E r \in Stack : s = r \o SubprogramKinds /\ t = Append(r, "ref")
StepIs(task, s, t) ==
  \/ task = Token /\ t = Append(s, "string")
  \/ task = Expect /\ t = s
  \/ task = Null /\ t \in {Append(s, "ref"), Append(s, "result")}
  \/ task = Operator /\ t = Append(s, "operator")
  \/ \E symbol, kind : task = Parse(symbol) /\ Yields(symbol, kind) /\ t = Append(s, kind)
  \/ \E tag, kinds, kind : \E r \in Stack :
       /\ task = Build(tag, Len(kinds)) /\ Builds(tag, kinds, kind)
       /\ s = r \o kinds /\ t = Append(r, kind)
  \/ \E list, element : \E r \in Stack :
       /\ task = Add /\ Adds(list, element)
       /\ s = r \o <<list, element>> /\ t = Append(r, list)
  \/ \E work, list : \E r \in Stack :
       task = More(work) /\ Repeats(work, list) /\ s = Append(r, list) /\ t = s
  \/ \E r \in Stack : task = SUBPROGRAM /\ s = r \o SubprogramKinds /\ t = Append(r, "ref")
LEMMA StepInverse ==
  ASSUME NEW task, NEW s, NEW t, Step(task, s, t)
  PROVE  s \in Stack /\ t \in Stack /\ StepsBy(task, s, t) /\ task[1] # "accept"
<1>1. s \in Stack /\ t \in Stack /\ StepIs(task, s, t)
  BY Zenon DEF Step, StepIs, SUBPROGRAM
<1>2. /\ Token[1] = "token" /\ Null[1] = "null" /\ Operator[1] = "operator" /\ Add[1] = "add"
      /\ Expect[1] = "expect"
      /\ \A symbol : Parse(symbol)[1] = "parse" /\ Parse(symbol)[2] = symbol
      /\ \A tag, n : Build(tag, n)[1] = "build" /\ Build(tag, n)[2] = tag
      /\ \A work : More(work)[1] = "more" /\ More(work)[2] = work
  BY TwoFirst DEF Token, Expect, Null, Operator, Add, Parse, Build, More
<1>3. SUBPROGRAM[1] \notin {"token", "expect", "null", "operator", "add", "parse", "build", "more",
                           "accept"}
  <2>1. SUBPROGRAM[1] = "build subprogram"
    BY TwoFirst, Zenon DEF SUBPROGRAM
  <2> QED
    BY ONLY <2>1, Zenon
<1> DEFINE
  T1 == t = Append(s, "string")
  T2 == t \in {Append(s, "ref"), Append(s, "result")}
  T3 == t = Append(s, "operator")
  T4 == task = Parse(task[2]) /\ \E kind : Yields(task[2], kind) /\ t = Append(s, kind)
  T5 == \E kinds, kind : \E r \in Stack :
          /\ task = Build(task[2], Len(kinds)) /\ Builds(task[2], kinds, kind)
          /\ s = r \o kinds /\ t = Append(r, kind)
  T6 == \E list, element : \E r \in Stack :
          Adds(list, element) /\ s = r \o <<list, element>> /\ t = Append(r, list)
  T7 == \E list : \E r \in Stack : Repeats(task[2], list) /\ s = Append(r, list) /\ t = s
  T8 == \E r \in Stack : s = r \o SubprogramKinds /\ t = Append(r, "ref")
  T9 == t = s
  S1 == task = Token /\ t = Append(s, "string")
  S2 == task = Null /\ t \in {Append(s, "ref"), Append(s, "result")}
  S3 == task = Operator /\ t = Append(s, "operator")
  S4 == \E symbol, kind : task = Parse(symbol) /\ Yields(symbol, kind) /\ t = Append(s, kind)
  S5 == \E tag, kinds, kind : \E r \in Stack :
          /\ task = Build(tag, Len(kinds)) /\ Builds(tag, kinds, kind)
          /\ s = r \o kinds /\ t = Append(r, kind)
  S6 == \E list, element : \E r \in Stack :
          /\ task = Add /\ Adds(list, element)
          /\ s = r \o <<list, element>> /\ t = Append(r, list)
  S7 == \E work, list : \E r \in Stack :
          task = More(work) /\ Repeats(work, list) /\ s = Append(r, list) /\ t = s
  S8 == \E r \in Stack : task = SUBPROGRAM /\ s = r \o SubprogramKinds /\ t = Append(r, "ref")
  S9 == task = Expect /\ t = s
<1>0. S9 => task[1] = "expect" /\ T9
  BY ONLY <1>2, Zenon
<1>4. S1 => task[1] = "token" /\ T1
  BY ONLY <1>2, Zenon
<1>5. S2 => task[1] = "null" /\ T2
  BY ONLY <1>2, Zenon
<1>6. S3 => task[1] = "operator" /\ T3
  BY ONLY <1>2, Zenon
<1>7. S4 => task[1] = "parse" /\ T4
  BY ONLY <1>2, ZenonT(60)
<1>8. S5 => task[1] = "build" /\ T5
  <2> SUFFICES ASSUME NEW tag, NEW kinds, NEW kind, NEW r \in Stack,
                      task = Build(tag, Len(kinds)), Builds(tag, kinds, kind),
                      s = r \o kinds, t = Append(r, kind)
               PROVE  task[1] = "build" /\ T5
    BY Zenon
  <2>1. task[1] = "build" /\ task[2] = tag
    <3>1. task = Build(tag, Len(kinds))
      OBVIOUS
    <3>2. Build(tag, Len(kinds))[1] = "build" /\ Build(tag, Len(kinds))[2] = tag
      BY TwoFirst, Zenon DEF Build
    <3> QED
      BY ONLY <3>1, <3>2, Zenon
  <2>2. task = Build(task[2], Len(kinds)) /\ Builds(task[2], kinds, kind)
    BY <2>1, Zenon
  <2>3. T5
    BY <2>2, Zenon
  <2> QED
    BY <2>1, <2>3
<1>9. S6 => task[1] = "add" /\ T6
  BY ONLY <1>2, Zenon
<1>10. S7 => task[1] = "more" /\ T7
  BY ONLY <1>2, ZenonT(60)
<1>11. S8 => task[1] = SUBPROGRAM[1] /\ T8
  BY ONLY Zenon
<1>12. \/ task[1] = "token" /\ T1
       \/ task[1] = "null" /\ T2
       \/ task[1] = "operator" /\ T3
       \/ task[1] = "parse" /\ T4
       \/ task[1] = "build" /\ T5
       \/ task[1] = "add" /\ T6
       \/ task[1] = "more" /\ T7
       \/ task[1] = SUBPROGRAM[1] /\ T8
       \/ task[1] = "expect" /\ T9
  <2>1. StepIs(task, s, t)
    BY <1>1
  <2>2. S1 \/ S2 \/ S3 \/ S4 \/ S5 \/ S6 \/ S7 \/ S8 \/ S9
    BY ONLY <2>1, Zenon DEF StepIs
  <2> HIDE DEF S1, S2, S3, S4, S5, S6, S7, S8, S9, T1, T2, T3, T4, T5, T6, T7, T8, T9
  <2> QED
    BY ONLY <2>2, <1>0, <1>4, <1>5, <1>6, <1>7, <1>8, <1>9, <1>10, <1>11, Zenon
<1>13. /\ task[1] = "token" => T1
       /\ task[1] = "null" => T2
       /\ task[1] = "operator" => T3
       /\ task[1] = "parse" => T4
       /\ task[1] = "build" => T5
       /\ task[1] = "add" => T6
       /\ task[1] = "more" => T7
       /\ task[1] = SUBPROGRAM[1] => T8
       /\ task[1] = "expect" => T9
  <2> HIDE DEF T1, T2, T3, T4, T5, T6, T7, T8, T9
  <2> QED
    BY ONLY <1>12, <1>3
<1>14. StepsBy(task, s, t)
  BY ONLY <1>13, Zenon DEF StepsBy
<1>15. task[1] # "accept"
  <2> HIDE DEF T1, T2, T3, T4, T5, T6, T7, T8, T9
  <2> QED
    BY ONLY <1>12, <1>3
<1> QED
  BY <1>1, <1>14, <1>15

(* The work after the one at hand *)
Ahead(w, t) ==
  IsSeq(w) /\ t \in Stack /\ Tail(todo) = w \o <<ACCEPT, END>> /\ Run(w, t, ProgramKinds)
LEMMA ParsingNext ==
  ASSUME Parsing, Head(todo)[1] \notin {"accept", "end"}, Head(todo) # Parse("program")
  PROVE  /\ program = NULL /\ \A a \in Alive : heap[a].tag # "program"
         /\ \E w, s, t : Ahead(w, t) /\ Fields(vals, s) /\ Step(Head(todo), s, t)
<1>1. ACCEPT[1] = "accept" /\ END[1] = "end"
  BY TwoFirst DEF ACCEPT, END
<1>2. todo # <<END>>
  <2>1. Head(<<END>>) = END
    BY TwoFirst
  <2> QED
    BY <2>1, <1>1
<1>3. todo # <<Parse("program"), END>>
  <2>1. Head(<<Parse("program"), END>>) = Parse("program")
    BY TwoFirst
  <2> QED
    BY <2>1
<1>4. PICK w, s : ParsingIs(w, s)
  BY <1>2, <1>3 DEF Parsing
<1>5. program = NULL /\ \A a \in Alive : heap[a].tag # "program"
  BY <1>2, <1>3 DEF Parsing
<1>6. PICK ends : ends = <<ACCEPT, END>>
  OBVIOUS
<1>7. IsSeq(ends) /\ Head(ends) = ACCEPT
  BY <1>6, IsSeqShort, TwoFirst
<1>8. IsSeq(w) /\ s \in Stack /\ todo = w \o ends /\ Run(w, s, ProgramKinds) /\ Fields(vals, s)
  BY <1>4, <1>6 DEF ParsingIs
<1>9. w # <<>>
  <2>1. <<>> \o ends = ends
    BY <1>7, Concatenated
  <2> QED
    BY <2>1, <1>1, <1>7, <1>8
<1>10. Head(todo) = Head(w) /\ Tail(todo) = Tail(w) \o ends
  BY <1>7, <1>8, <1>9, Concatenated
<1>11. PICK t : Step(Head(w), s, t) /\ Run(Tail(w), t, ProgramKinds)
  BY <1>8, <1>9, RunHead
<1>12. IsSeq(Tail(w)) /\ t \in Stack
  BY <1>8, <1>9, <1>11, SeqFacts, StepInverse
<1>13. Ahead(Tail(w), t)
  BY ONLY <1>6, <1>10, <1>11, <1>12 DEF Ahead
<1> QED
  BY <1>5, <1>8, <1>10, <1>11, <1>13

LEMMA Ready ==
  ASSUME NEW w, NEW s, IsSeq(w), Run(w, s, ProgramKinds), NEW work, work = w \o <<ACCEPT, END>>
  PROVE  IsSeq(work) /\ \A i \in DOMAIN work : ~Releasing(work[i])
<1>1. \A task : task[1] \in ParseTasks \cup {"end"} => ~Releasing(task)
  BY DEF ParseTasks, Releasing
<1>2. ACCEPT[1] \in ParseTasks /\ END[1] = "end"
  BY TwoFirst DEF ACCEPT, END, ParseTasks
<1>3. PICK ends : ends = <<ACCEPT, END>>
  OBVIOUS
<1>4. IsSeq(ends) /\ Len(ends) = 2 /\ ends[1] = ACCEPT /\ ends[2] = END
  BY <1>3, IsSeqShort, TwoFirst
<1>5. \A i \in 1..Len(ends) : ends[i][1] \in ParseTasks \cup {"end"}
  <2>1. \A i \in 1..2 : i = 1 \/ i = 2
    OBVIOUS
  <2> QED
    BY <2>1, <1>2, <1>4
<1>6. \A i \in 1..Len(w) : w[i][1] \in ParseTasks
  BY StepTasks DEF Run
<1>7. work = w \o ends
  BY <1>3
<1>8. IsSeq(work)
  BY <1>4, <1>7, Joined
<1>9. ASSUME NEW i \in 1..Len(work)
      PROVE  work[i][1] \in ParseTasks \cup {"end"}
  BY <1>4, <1>5, <1>6, <1>7, <1>9, InEither, SMTT(40)
<1>10. DOMAIN work = 1..Len(work)
  BY <1>8, SeqFacts
<1> QED
  BY <1>1, <1>8, <1>9, <1>10

LEMMA ParseSound ==
  ASSUME Sound, phase = "run", Parsing, program = NULL, \A a \in Alive : heap[a].tag # "program",
         NEW nodes, NEW k, NEW pushed, NEW o, Parses(nodes, k, pushed), Moves(nodes, k, pushed, o),
         program' = NULL, \A i \in 1..Len(nodes) : nodes[i].tag # "program",
         NEW w, NEW s, IsSeq(w), s \in Stack, todo' = w \o <<ACCEPT, END>>,
         Run(w, s, ProgramKinds), Fields(vals, s)'
  PROVE  Sound'
<1>1. Memory /\ st = NULL /\ causes = {} /\ TypeOK /\ Stabbed
  BY DEF Sound, Parsing, Memory
<1>2. Memory'
  BY ONLY <1>1, Parsing, program = NULL, Parses(nodes, k, pushed), Moves(nodes, k, pushed, o), ParseMemory
<1>3. st' = NULL /\ causes' = {} /\ phase' = "run" /\ Grows(nodes, <<>>)
  BY <1>1 DEF Parses
<1>4. \A a \in Alive' : heap'[a].tag # "program"
  <2>1. /\ (\A a \in Alive' : a \notin Alive =>
              \E i \in 1..Len(nodes) : a = fresh + i /\ heap'[a] = nodes[i])
        /\ \A a \in Alive : heap'[a].tag = heap[a].tag
    BY <1>1, <1>3, GrowKeeps
  <2> QED
    BY <2>1
<1>5. ParsingIs(w, s)'
  BY DEF ParsingIs
<1>6. Parsing'
  BY <1>3, <1>4, <1>5 DEF Parsing
<1>7. TypeOK' /\ NoMisuse'
  BY <1>2, <1>3 DEF Memory, NoMisuse
<1> QED
  BY <1>2, <1>3, <1>6, <1>7 DEF Sound

LEMMA FieldsPushed ==
  ASSUME TypeOK, Stabbed, NEW nodes, Grows(nodes, <<>>),
         NEW r \in Stack, NEW kinds \in Stack, Fields(vals, r \o kinds),
         NEW v, NEW kind \in Kind, vals' = Below(Len(kinds)) \o <<v>>, Is(v, kind)'
  PROVE  Fields(vals, Append(r, kind))'
<1>1. IsSeq(vals)
  BY DEF TypeOK, IsSeq
<1>2. /\ Len(r) \in Nat /\ Len(kinds) \in 0..Len(vals) /\ Len(vals) - Len(kinds) = Len(r)
      /\ \A i \in 1..Len(r) : Is(vals[i], r[i])
  BY <1>1, FieldsSplit
<1>3. PICK k, pushed : k = Len(kinds) /\ pushed = <<v>>
  OBVIOUS
<1>4. IsSeq(pushed) /\ Len(pushed) = 1 /\ pushed[1] = v
  BY <1>3, IsSeqShort, TwoFirst
<1>5. k \in 0..Len(vals) /\ vals' = Below(k) \o pushed
  BY <1>2, <1>3
<1>6. /\ Len(vals') = Len(vals) - k + Len(pushed)
      /\ \A i \in 1..(Len(vals) - k) : vals'[i] = vals[i]
      /\ \A j \in 1..Len(pushed) : vals'[Len(vals) - k + j] = pushed[j]
  BY ONLY <1>4, <1>5, TypeOK, Stacked
<1>7. PICK n : n = Len(r)
  OBVIOUS
<1>8. /\ n \in Nat /\ Len(vals') = n + 1 /\ vals'[n + 1] = v
      /\ \A i \in 1..n : vals'[i] = vals[i] /\ Is(vals[i], r[i])
  <2>1. n \in Nat /\ Len(vals) - k = n
    BY <1>2, <1>3, <1>7
  <2>2. Len(vals') = n + 1 /\ \A i \in 1..n : vals'[i] = vals[i]
    BY <2>1, <1>4, <1>6
  <2>3. vals'[n + 1] = v
    <3>1. 1 \in 1..Len(pushed)
      BY <1>4
    <3> QED
      BY ONLY <3>1, <2>1, <1>4, <1>6
  <2> QED
    BY <2>1, <2>2, <2>3, <1>2, <1>7
<1>9. PICK u : u = Append(r, kind)
  OBVIOUS
<1>10. Len(u) = n + 1 /\ u[n + 1] = kind /\ \A i \in 1..n : u[i] = r[i]
  BY ONLY r \in Stack, kind \in Kind, <1>7, <1>9 DEF Stack
<1>11. \A x, kd : Is(x, kd) => Is(x, kd)'
  BY GrowKeeps
<1>12. ASSUME NEW i \in 1..(n + 1)
       PROVE  Is(vals[i], u[i])'
  <2>1. CASE i = n + 1
    <3>1. vals'[i] = v /\ u[i] = kind
      BY <2>1, <1>8, <1>10
    <3> QED
      BY <3>1
  <2>2. CASE i # n + 1
    <3>1. i \in 1..n
      BY <2>2, <1>8
    <3>2. PICK x : x = vals[i]
      OBVIOUS
    <3>3. vals'[i] = x /\ Is(x, u[i])
      BY <3>1, <3>2, <1>8, <1>10
    <3>4. Is(x, u[i])'
      BY <3>3, <1>11
    <3> QED
      BY <3>3, <3>4
  <2> QED
    BY <2>1, <2>2
<1>13. Fields(vals, u)'
  BY <1>8, <1>10, <1>12 DEF Fields
<1> QED
  BY <1>9, <1>13

(* The parser takes the topmost values and leaves one. *)
Taken(nodes) ==
  /\ Grows(nodes, <<>>) /\ Len(nodes) \in 0..2
  /\ UNCHANGED <<program, st, room, phase, causes>> /\ todo' = Tail(todo)
  /\ \A i \in 1..Len(nodes) : nodes[i].tag # "program"
  /\ \A i \in 1..Len(nodes) : \A j \in 1..Len(nodes[i].kids) :
       nodes[i].kids[j] \in 0..(fresh + i - 1)
  /\ \A a \in Alive' : a \notin Alive => Shaped(a)'
LEMMA PushedSound ==
  ASSUME Sound, phase = "run", Parsing, program = NULL, \A a \in Alive : heap[a].tag # "program",
         NEW w, NEW r \in Stack, NEW kinds \in Stack, NEW kind \in Kind,
         Ahead(w, Append(r, kind)), Fields(vals, r \o kinds),
         NEW nodes, NEW v, NEW o, Taken(nodes), vals' = Below(Len(kinds)) \o <<v>>,
         v \in 0..(fresh + Len(nodes)) \cup {OPERATOR}, Is(v, kind)',
         Moves(nodes, Len(kinds), <<v>>, o)
  PROVE  Sound'
<1>1. TypeOK /\ Stabbed /\ fresh \in Nat /\ IsSeq(vals)
  BY DEF Sound, Memory, TypeOK, IsSeq
<1>2. PICK k, pushed, s : k = Len(kinds) /\ pushed = <<v>> /\ s = Append(r, kind)
  OBVIOUS
<1>3. IsSeq(pushed) /\ Len(pushed) = 1 /\ pushed[1] = v
  BY <1>2, IsSeqShort, TwoFirst
<1>4. k \in 0..Len(vals) /\ vals' = Below(k) \o pushed
  BY <1>1, <1>2, FieldsSplit
<1>5. Grows(nodes, <<>>) /\ todo' = Tail(todo) /\ program' = NULL
  BY DEF Taken
<1>6. Fields(vals, s)'
  BY <1>1, <1>2, <1>5, FieldsPushed
<1>7. IsSeq(w) /\ s \in Stack /\ todo' = w \o <<ACCEPT, END>> /\ Run(w, s, ProgramKinds)
  BY <1>2, <1>5 DEF Ahead
<1>8. IsSeq(todo') /\ \A i \in DOMAIN todo' : ~Releasing(todo'[i])
  BY ONLY <1>7, Ready
<1>9. Parses(nodes, k, pushed)
  <2>1. \A j \in 1..Len(pushed) : pushed[j] \in 0..(fresh + Len(nodes)) \cup {OPERATOR}
    BY <1>3
  <2>2. room' \in 0..MaxObjects
    BY <1>1 DEF Taken, TypeOK
  <2>3. program' \in 0..(fresh + Len(nodes)) /\ Rooted'
    BY <1>1, <1>5 DEF Rooted, Taken, NULL
  <2> QED
    BY <2>1, <2>2, <2>3, <1>3, <1>4, <1>8 DEF Parses, Taken
<1>10. Moves(nodes, k, pushed, o)
  BY <1>2
<1>11. \A i \in 1..Len(nodes) : nodes[i].tag # "program"
  BY DEF Taken
<1> QED
  BY <1>5, <1>6, <1>7, <1>9, <1>10, <1>11, ParseSound

ShapedStringLaw == \A a : heap[a] = String => Shaped(a)
LEMMA ShapedString == ShapedStringLaw
<1> SUFFICES ASSUME NEW a, heap[a] = String
             PROVE  Shaped(a)
  BY DEF ShapedStringLaw
<1>1. heap[a].tag = "string" /\ KidsOf(a) = <<>>
  BY DEF String, Node, KidsOf
<1>2. \A layout \in Layouts : layout[1] # "string"
  BY DEF Layouts
<1> QED
  BY <1>1, <1>2 DEF Shaped

(* No pointer moves. *)
LEMMA MovesNothing ==
  ASSUME TypeOK, program' = NULL, NEW o
  PROVE  /\ Moves(<<>>, 0, <<>>, o)
         /\ \A v \in {NULL, OPERATOR} : Moves(<<>>, 0, <<v>>, o)
<1>1. fresh \in Nat /\ Len(vals) \in Nat /\ Len(<<>>) = 0 /\ 1..0 = {}
  BY SeqFacts DEF TypeOK
<1>2. (fresh + 1)..(fresh + 0) = {} /\ (Len(vals) - 0 + 1)..Len(vals) = {}
  BY <1>1
<1>3. Loose(0, 0) = {}
  BY ONLY <1>2 DEF Loose
<1>4. Placed(program', <<"program", 0, 0>>, o, 0, 0)
  BY DEF Placed, NULL
<1>5. Moves(<<>>, 0, <<>>, o)
  BY ONLY <1>1, <1>3, <1>4 DEF Moves
<1>6. ASSUME NEW v \in {NULL, OPERATOR}
      PROVE  Moves(<<>>, 0, <<v>>, o)
  <2>1. PICK pushed : pushed = <<v>>
    OBVIOUS
  <2>2. Len(pushed) = 1 /\ pushed[1] = v
    BY <2>1, TwoFirst
  <2>3. \A place : Placed(v, place, o, 0, 0)
    BY DEF Placed, NULL, OPERATOR
  <2>4. \A j \in 1..Len(pushed) : Placed(pushed[j], <<"value", Len(vals) - 0 + j, 0>>, o, 0, 0)
    <3>1. \A j \in 1..1 : j = 1
      OBVIOUS
    <3> QED
      BY <2>2, <2>3, <3>1
  <2>5. Moves(<<>>, 0, pushed, o)
    BY ONLY <1>1, <1>3, <1>4, <2>4 DEF Moves
  <2> QED
    BY <2>1, <2>5
<1> QED
  BY <1>5, <1>6

(* A symbol is expanded, or a token without a value read. *)
LEMMA ExpandSound ==
  ASSUME Sound, phase = "run", Parsing, program = NULL, \A a \in Alive : heap[a].tag # "program",
         UNCHANGED <<heap, fresh, vals, program, st, phase, causes>>, room' \in 0..MaxObjects,
         NEW w, NEW s, IsSeq(w), s \in Stack, todo' = w \o <<ACCEPT, END>>,
         Run(w, s, ProgramKinds), Fields(vals, s)
  PROVE  Sound'
<1>1. TypeOK /\ Records /\ Stabbed /\ fresh \in Nat /\ IsSeq(vals) /\ Len(vals) \in Nat
  BY DEF Sound, Memory, TypeOK, IsSeq
<1>2. Grows(<<>>, <<>>)
  BY <1>1, GrowNothing
<1>3. Len(<<>>) = 0 /\ IsSeq(<<>>)
  BY SeqFacts
<1>4. vals' = Below(0) \o <<>>
  <2>1. Below(0) = vals
    BY <1>1 DEF TypeOK, Below
  <2> QED
    BY <2>1, <1>1, Concatenated
<1>5. program' = NULL
  OBVIOUS
<1>6. Moves(<<>>, 0, <<>>, <<>>)
  BY <1>1, <1>5, MovesNothing
<1>7. IsSeq(todo') /\ \A i \in DOMAIN todo' : ~Releasing(todo'[i])
  BY ONLY IsSeq(w), todo' = w \o <<ACCEPT, END>>, Run(w, s, ProgramKinds), Ready
<1>8. Alive' = Alive
  BY DEF Alive
<1>9. program' \in 0..(fresh + Len(<<>>)) /\ Rooted'
  BY <1>1, <1>3, <1>5 DEF Rooted, NULL
<1>10. Parses(<<>>, 0, <<>>)
  BY <1>1, <1>2, <1>3, <1>4, <1>7, <1>8, <1>9 DEF Parses
<1>11. Fields(vals, s)'
  <2>1. \A v, kind : Is(v, kind) => Is(v, kind)'
    BY <1>1, <1>2, GrowKeeps
  <2>2. ASSUME NEW i \in 1..Len(s)
        PROVE  Is(vals[i], s[i])'
    <3>1. PICK x : x = vals[i]
      OBVIOUS
    <3>2. vals'[i] = x /\ Is(x, s[i])'
      BY <3>1, <2>1 DEF Fields
    <3> QED
      BY <3>2
  <2> QED
    BY <2>2 DEF Fields
<1>12. \A i \in 1..Len(<<>>) : <<>>[i].tag # "program"
  BY <1>3
<1> QED
  BY <1>5, <1>6, <1>10, <1>11, <1>12, ParseSound

LEMMA ShiftSound ==
  ASSUME Sound, Shift
  PROVE  Sound'
<1>1. /\ phase = "run" /\ todo # <<>> /\ Head(todo)[1] \in {"token", "expect", "null", "operator"}
      /\ UNCHANGED <<program, st, room, phase, causes>>
  BY DEF Shift, At
<1>2. Memory /\ Parsing /\ IsSeq(todo)
  BY <1>1, Stages DEF ParseTasks
<1>3. TypeOK /\ Records /\ Stabbed /\ fresh \in Nat /\ IsSeq(vals) /\ Len(vals) \in Nat
      /\ Alive \subseteq Address
  BY <1>2 DEF Memory, TypeOK, IsSeq
<1>4. Head(todo)[1] \notin {"accept", "end"} /\ Head(todo) # Parse("program")
  BY <1>1, TwoFirst DEF Parse
<1>5. /\ program = NULL /\ \A a \in Alive : heap[a].tag # "program"
      /\ \E w, s, t : Ahead(w, t) /\ Fields(vals, s) /\ Step(Head(todo), s, t)
  BY <1>2, <1>4, ParsingNext
<1>6. PICK w, s, t : Ahead(w, t) /\ Fields(vals, s) /\ Step(Head(todo), s, t)
  BY <1>5
<1>7. s \in Stack /\ t \in Stack /\ StepsBy(Head(todo), s, t)
  BY <1>6, StepInverse
<1>8. <<>> \in Stack /\ s \o <<>> = s /\ Len(<<>>) = 0 /\ IsSeq(s)
  BY <1>7, SeqFacts, Concatenated DEF Stack, IsSeq
<1>9. Fields(vals, s \o <<>>)
  BY <1>6, <1>8
<1>10. \A v : Append(vals, v) = Below(0) \o <<v>>
  BY <1>3 DEF TypeOK, Below
<1>11. IsSeq(todo') /\ todo' = Tail(todo)
  BY <1>2, SeqFacts, Concatenated, <1>1 DEF Shift, Then
<1>12. ASSUME Head(todo)[1] \in {"null", "operator"},
              NEW v \in {NULL, OPERATOR}, NEW kind \in Kind, t = Append(s, kind), Is(v, kind)',
              vals' = Append(vals, v), UNCHANGED <<heap, fresh>>
       PROVE  Sound'
  <2>1. Grows(<<>>, <<>>)
    BY <1>3, <1>12, GrowNothing
  <2>2. Alive' = Alive
    BY <1>12 DEF Alive
  <2>3. Taken(<<>>)
    BY <2>1, <2>2, <1>1, <1>8, <1>11 DEF Taken
  <2>4. vals' = Below(Len(<<>>)) \o <<v>>
    BY <1>8, <1>10, <1>12
  <2>5. v \in 0..(fresh + Len(<<>>)) \cup {OPERATOR}
    BY <1>3, <1>8 DEF NULL
  <2>6. program' = NULL
    BY <1>1, <1>5
  <2>7. Moves(<<>>, Len(<<>>), <<v>>, <<>>)
    BY <2>6, <1>3, <1>8, MovesNothing
  <2>8. Ahead(w, Append(s, kind))
    BY <1>6, <1>12
  <2> QED
    BY ONLY <2>3, <2>4, <2>5, <2>7, <2>8, <1>1, <1>2, <1>5, <1>7, <1>8, <1>9, <1>12, Sound,
            PushedSound
<1>13. CASE Head(todo)[1] = "token"
  <2>1. Allocate(<<String>>) /\ vals' = Append(vals, fresh + 1)
    BY <1>13 DEF Shift, At
  <2>2. PICK nodes, v, o : /\ nodes = <<String>> /\ v = fresh + 1
                           /\ o = [x \in {fresh + 1} |-> <<"value", Len(vals) + 1, 0>>]
    OBVIOUS
  <2>3. /\ IsSeq(nodes) /\ Len(nodes) = 1 /\ nodes[1] = String
        /\ String.tag = "string" /\ String.kids = <<>> /\ String = Node(String.tag, String.kids)
        /\ \A i \in 1..1 : i = 1
    BY <2>2, IsSeqShort, TwoFirst DEF String, Node
  <2>4. Grows(nodes, <<>>)
    <3>1. \A i \in 1..Len(nodes) : IsSeq(nodes[i].kids) /\ nodes[i] = Node(nodes[i].tag, nodes[i].kids)
      BY <2>3, SeqFacts
    <3>2. Allocate(nodes) /\ IsSeq(nodes)
      BY <2>1, <2>2, <2>3
    <3> QED
      BY <3>1, <3>2, <1>3, AllocateGrows
  <2>5. Alive' = Alive \cup {v} /\ heap'[v] = String /\ fresh' = v /\ v \in Nat \ {0}
    <3>1. 1 \in 1..Len(nodes)
      BY <2>3
    <3>2. heap'[fresh + 1] = nodes[1] /\ fresh' = fresh + Len(nodes)
          /\ Alive' = Alive \cup (fresh + 1)..(fresh + Len(nodes))
      BY <2>4, <3>1 DEF Grows
    <3>3. (fresh + 1)..(fresh + 1) = {fresh + 1}
      BY <1>3
    <3> QED
      BY <3>2, <3>3, <2>2, <2>3, <1>3
  <2>6. Is(v, "string")'
    BY <2>3, <2>5 DEF Is, Address, IsString
  <2>7. \A a \in Alive' : a \notin Alive => Shaped(a)'
    <3>1. ShapedStringLaw'
      BY ShapedString, PTL
    <3> QED
      BY <3>1, <2>5 DEF ShapedStringLaw
  <2>8. Taken(nodes)
    <3>1. Len(nodes) \in 0..2 /\ (\A i \in 1..Len(nodes) : nodes[i].tag # "program")
          /\ \A i \in 1..Len(nodes) : \A j \in 1..Len(nodes[i].kids) :
               nodes[i].kids[j] \in 0..(fresh + i - 1)
      BY <2>3, <1>8
    <3> QED
      BY <3>1, <2>4, <2>7, <1>1, <1>11 DEF Taken
  <2>9. vals' = Below(Len(<<>>)) \o <<v>>
    BY <2>1, <2>2, <1>8, <1>10
  <2>10. v \in 0..(fresh + Len(nodes)) \cup {OPERATOR}
    BY <2>2, <2>3, <1>3
  <2>11. Loose(1, 0) = {v}
    <3>1. (fresh + 1)..(fresh + 1) = {fresh + 1} /\ (Len(vals) - 0 + 1)..Len(vals) = {}
      BY <1>3
    <3> QED
      BY <3>1, <2>2 DEF Loose
  <2>12. Moves(nodes, Len(<<>>), <<v>>, o)
    <3>1. PICK pushed, n : pushed = <<v>> /\ n = Len(vals)
      OBVIOUS
    <3>2. Len(pushed) = 1 /\ pushed[1] = v
      BY <3>1, TwoFirst
    <3>3. \A j \in 1..Len(pushed) : Placed(pushed[j], <<"value", n - 0 + j, 0>>, o, 1, 0)
      <4>1. n - 0 + 1 = n + 1
        BY <3>1, <1>3
      <4>2. o[v] = <<"value", n + 1, 0>>
        BY <2>2, <3>1
      <4>3. Placed(v, <<"value", n - 0 + 1, 0>>, o, 1, 0)
        BY <4>1, <4>2, <2>11 DEF Placed
      <4> QED
        BY <4>3, <3>2, <2>3
    <3>4. Placed(program', <<"program", 0, 0>>, o, 1, 0)
      BY <1>1, <1>5 DEF Placed, NULL
    <3>5. \A i \in 1..Len(nodes) : \A j \in 1..Len(nodes[i].kids) :
            Placed(nodes[i].kids[j], <<"field", fresh + i, j>>, o, Len(nodes), 0)
      BY <2>3, <1>8
    <3>6. \A x \in Loose(1, 0) : \E j \in 1..Len(pushed) : pushed[j] = x
      <4>1. 1 \in 1..Len(pushed)
        BY <3>2
      <4> QED
        BY <4>1, <3>2, <2>11
    <3>7. Moves(nodes, 0, pushed, o)
      BY ONLY <3>1, <3>3, <3>4, <3>5, <3>6, <2>3 DEF Moves
    <3> QED
      BY <3>1, <3>7, <1>8
  <2>13. Ahead(w, Append(s, "string")) /\ "string" \in Kind
    BY <1>6, <1>7, <1>13 DEF StepsBy, Kind
  <2> QED
    BY ONLY <2>6, <2>8, <2>9, <2>10, <2>12, <2>13, <1>1, <1>2, <1>5, <1>7, <1>8, <1>9, Sound,
            PushedSound
<1>14. CASE Head(todo)[1] = "null"
  <2>1. vals' = Append(vals, NULL) /\ UNCHANGED <<heap, fresh>>
    BY <1>14 DEF Shift, At
  <2>2. PICK kind \in {"ref", "result"} : t = Append(s, kind)
    BY <1>7, <1>14 DEF StepsBy
  <2>3. kind \in Kind /\ Is(NULL, kind)'
    BY <2>2 DEF Kind, Is, References
  <2> QED
    BY <2>1, <2>2, <2>3, <1>12, <1>14
<1>15. CASE Head(todo)[1] = "operator"
  <2>1. vals' = Append(vals, OPERATOR) /\ UNCHANGED <<heap, fresh>>
    BY <1>15 DEF Shift, At
  <2>2. "operator" \in Kind /\ Is(OPERATOR, "operator")' /\ t = Append(s, "operator")
    BY <1>7, <1>15 DEF StepsBy, Kind, Is
  <2> QED
    BY <2>1, <2>2, <1>12, <1>15
<1>16. CASE Head(todo)[1] = "expect"
  <2>1. UNCHANGED <<heap, fresh, vals, room>>
    BY <1>16 DEF Shift, At
  <2>2. t = s
    BY <1>7, <1>16 DEF StepsBy
  <2>3. IsSeq(w) /\ todo' = w \o <<ACCEPT, END>> /\ Run(w, s, ProgramKinds) /\ Fields(vals, s)
    BY <1>6, <1>11, <2>2 DEF Ahead
  <2>4. room' \in 0..MaxObjects
    BY <1>3, <2>1 DEF TypeOK
  <2> QED
    BY <1>1, <1>2, <1>5, <1>7, <2>1, <2>3, <2>4, ExpandSound
<1> QED
  BY <1>1, <1>13, <1>14, <1>15, <1>16

LEMMA ParsingBegins ==
  ASSUME Parsing, Head(todo) = Parse("program")
  PROVE  /\ vals = <<>> /\ program = NULL /\ \A a \in Alive : heap[a].tag # "program"
         /\ Tail(todo) = <<END>>
<1>1. ACCEPT[1] = "accept" /\ END[1] = "end" /\ Parse("program")[1] = "parse"
      /\ Parse("program")[2] = "program"
  BY TwoFirst DEF ACCEPT, END, Parse
<1>2. todo # <<END>>
  <2>1. Head(<<END>>) = END
    BY TwoFirst
  <2> QED
    BY <2>1, <1>1
<1>3. program = NULL /\ \A a \in Alive : heap[a].tag # "program"
  BY <1>2 DEF Parsing
<1>4. ~\E w, s : ParsingIs(w, s)
  <2> SUFFICES ASSUME NEW w, NEW s, ParsingIs(w, s)
               PROVE  FALSE
    OBVIOUS
  <2>1. PICK ends : ends = <<ACCEPT, END>>
    OBVIOUS
  <2>2. IsSeq(ends) /\ Head(ends) = ACCEPT
    BY <2>1, IsSeqShort, TwoFirst
  <2>3. IsSeq(w) /\ todo = w \o ends /\ Run(w, s, ProgramKinds)
    BY <2>1 DEF ParsingIs
  <2>4. w # <<>>
    <3>1. <<>> \o ends = ends
      BY <2>2, Concatenated
    <3> QED
      BY <3>1, <1>1, <2>2, <2>3
  <2>5. Head(w) = Parse("program")
    BY <2>2, <2>3, <2>4, Concatenated
  <2>6. PICK t : Step(Parse("program"), s, t)
    BY <2>3, <2>4, <2>5, RunHead
  <2>7. \E kind : Yields(Parse("program")[2], kind)
    BY <1>1, <2>6, StepInverse DEF StepsBy
  <2>8. PICK kind : Yields("program", kind)
    BY <2>7, <1>1
  <2> QED
    BY <2>8, Zenon DEF Yields
<1>5. vals = <<>> /\ todo = <<Parse("program"), END>>
  BY <1>2, <1>4 DEF Parsing
<1>6. Tail(<<Parse("program"), END>>) = <<END>>
  BY TwoFirst
<1> QED
  BY <1>3, <1>5, <1>6

(* The bound is met for what an expansion costs. *)
LEMMA RoomLeft ==
  ASSUME room \in 0..MaxObjects, NEW cost \in Nat, NEW least \in Nat, cost >= least,
         cost - least <= room, room' = room - (cost - least), MaxObjects \in Nat
  PROVE  room' \in 0..MaxObjects
OBVIOUS

LEMMA DeriveSound ==
  ASSUME Sound, Derive
  PROVE  Sound'
<1>1. /\ phase = "run" /\ todo # <<>> /\ Head(todo)[1] = "parse"
      /\ UNCHANGED <<heap, fresh, vals, program, st, phase, causes>>
  BY DEF Derive, At, Expand
<1>2. Memory /\ Parsing /\ IsSeq(todo)
  BY <1>1, Stages DEF ParseTasks
<1>3. PICK symbol : symbol = Arg
  OBVIOUS
<1>4. PICK work \in Rules(symbol) :
        /\ Cost(work) - Least(symbol) <= room
        /\ room' = room - (Cost(work) - Least(symbol))
        /\ todo' = work \o Tail(todo)
  BY <1>3 DEF Derive, Expand, Then
<1>5. /\ room \in 0..MaxObjects /\ MaxObjects \in Nat /\ Cost(work) \in Nat /\ Least(symbol) \in Nat
      /\ IsSeq(vals)
  BY <1>2, Costs, Leasts, OwnershipAssumption DEF Memory, TypeOK, IsSeq
<1>6. ASSUME Cost(work) >= Least(symbol)
      PROVE  room' \in 0..MaxObjects
  BY ONLY <1>4, <1>5, <1>6, RoomLeft
<1>7. CASE Head(todo) = Parse("program")
  <2>1. /\ vals = <<>> /\ program = NULL /\ \A a \in Alive : heap[a].tag # "program"
        /\ Tail(todo) = <<END>>
    BY <1>2, <1>7, ParsingBegins
  <2>2. symbol = "program"
    <3>1. Parse("program")[2] = "program"
      BY TwoFirst DEF Parse
    <3> QED
      BY ONLY <3>1, <1>3, <1>7, Zenon DEF Arg
  <2>3. PICK w : IsSeq(w) /\ work = w \o <<ACCEPT>> /\ Run(w, <<>>, ProgramKinds)
    BY <1>4, <2>2, ProgramRun
  <2>4. todo' = w \o <<ACCEPT, END>>
    <3>1. IsSeq(<<ACCEPT>>) /\ IsSeq(<<END>>)
      BY IsSeqShort
    <3>2. <<ACCEPT>> \o <<END>> = <<ACCEPT, END>>
      BY ONLY Pairs
    <3>3. (w \o <<ACCEPT>>) \o <<END>> = w \o (<<ACCEPT>> \o <<END>>)
      BY <3>1, <2>3, Concatenated
    <3>4. todo' = (w \o <<ACCEPT>>) \o <<END>>
      BY <1>4, <2>1, <2>3
    <3> QED
      BY ONLY <3>2, <3>3, <3>4, Zenon
  <2>5. <<>> \in Stack /\ Fields(vals, <<>>)
    BY <2>1 DEF Stack, Fields
  <2>6. Cost(work) >= Least(symbol)
    BY <1>4, <2>2, RuleCosts
  <2>7. room' \in 0..MaxObjects
    BY <1>6, <2>6
  <2> QED
    BY ONLY <2>1, <2>3, <2>4, <2>5, <2>7, <1>1, <1>2, Sound, ExpandSound
<1>8. CASE Head(todo) # Parse("program")
  <2>1. Head(todo)[1] \notin {"accept", "end"}
    BY <1>1
  <2>2. /\ program = NULL /\ \A a \in Alive : heap[a].tag # "program"
        /\ \E w, s, t : Ahead(w, t) /\ Fields(vals, s) /\ Step(Head(todo), s, t)
    BY <1>2, <1>8, <2>1, ParsingNext
  <2>3. PICK w, s, t : Ahead(w, t) /\ Fields(vals, s) /\ Step(Head(todo), s, t)
    BY <2>2
  <2>4. s \in Stack /\ t \in Stack /\ StepsBy(Head(todo), s, t)
    BY <2>3, StepInverse
  <2>5. PICK kind : Yields(symbol, kind) /\ t = Append(s, kind)
    <3>1. \E kind : Yields(Arg, kind) /\ t = Append(s, kind)
      BY ONLY <2>4, <1>1, Zenon DEF StepsBy, Arg
    <3> QED
      BY ONLY <3>1, <1>3, Zenon
  <2>6. IsSeq(work) /\ Run(work, s, t)
    BY <2>4, <2>5, <1>4, RulesMake DEF Makes
  <2>7. PICK ends : ends = <<ACCEPT, END>>
    OBVIOUS
  <2>8. IsSeq(ends) /\ IsSeq(w) /\ Tail(todo) = w \o ends /\ Run(w, t, ProgramKinds)
    BY <2>3, <2>7, IsSeqShort DEF Ahead
  <2>9. IsSeq(work \o w) /\ Run(work \o w, s, ProgramKinds)
    BY <2>6, <2>8, RunAfter, SeqFacts
  <2>10. todo' = (work \o w) \o ends
    <3>1. IsSeq(work) /\ IsSeq(w) /\ IsSeq(ends)
      BY <2>6, <2>8
    <3>2. (work \o w) \o ends = work \o (w \o ends)
      BY ONLY <3>1, Concatenated
    <3> QED
      BY ONLY <3>2, <2>8, <1>4, Zenon
  <2>11. room' \in 0..MaxObjects
    <3>1. Cost(work) >= Least(symbol)
      <4>1. symbol \in {"program", "subprogram_declaration", "parameter", "lvalue"} \cup
              {"expression", "path", "identifier_list"} \cup {"compound_statement", "statement"} \cup
              {"optional_identifier_list", "type_declarations", "declarations",
               "subprogram_declarations", "expression_list", "standard_type", "type", "arguments"}
        BY <2>5 DEF Yields
      <4> QED
        BY <4>1, <1>4, RuleCosts
    <3> QED
      BY <3>1, <1>6
  <2>12. todo' = (work \o w) \o <<ACCEPT, END>>
    BY <2>7, <2>10
  <2> QED
    BY ONLY <2>2, <2>3, <2>4, <2>9, <2>11, <2>12, <1>1, <1>2, Sound, ExpandSound
<1> QED
  BY <1>7, <1>8

LEMMA RepeatSound ==
  ASSUME Sound, Repeat
  PROVE  Sound'
<1>1. /\ phase = "run" /\ todo # <<>> /\ Head(todo)[1] = "more"
      /\ UNCHANGED <<heap, fresh, vals, program, st, phase, causes>>
  BY DEF Repeat, At, Expand
<1>2. Memory /\ Parsing /\ IsSeq(todo)
  BY <1>1, Stages DEF ParseTasks
<1>3. PICK again : again = Arg
  OBVIOUS
<1>4. PICK work \in Rounds(again) :
        /\ Cost(work) - 0 <= room
        /\ room' = room - (Cost(work) - 0)
        /\ todo' = work \o Tail(todo)
  BY <1>3 DEF Repeat, Expand, Then
<1>5. room \in 0..MaxObjects /\ MaxObjects \in Nat /\ Cost(work) \in Nat /\ 0 \in Nat
      /\ Cost(work) >= 0
  BY <1>2, Costs, OwnershipAssumption DEF Memory, TypeOK
<1>6. room' \in 0..MaxObjects
  BY ONLY <1>4, <1>5, RoomLeft
<1>7. Head(todo)[1] \notin {"accept", "end"} /\ Head(todo) # Parse("program")
  BY <1>1, TwoFirst DEF Parse
<1>8. /\ program = NULL /\ \A a \in Alive : heap[a].tag # "program"
      /\ \E w, s, t : Ahead(w, t) /\ Fields(vals, s) /\ Step(Head(todo), s, t)
  BY <1>2, <1>7, ParsingNext
<1>9. PICK w, s, t : Ahead(w, t) /\ Fields(vals, s) /\ Step(Head(todo), s, t)
  BY <1>8
<1>10. s \in Stack /\ t \in Stack /\ StepsBy(Head(todo), s, t)
  BY <1>9, StepInverse
<1>11. PICK list : \E r \in Stack : Repeats(again, list) /\ s = Append(r, list) /\ t = s
  <2>1. \E list : \E r \in Stack : Repeats(Arg, list) /\ s = Append(r, list) /\ t = s
    BY ONLY <1>10, <1>1, Zenon DEF StepsBy, Arg
  <2> QED
    BY ONLY <2>1, <1>3, Zenon
<1>12. PICK r \in Stack : Repeats(again, list) /\ s = Append(r, list) /\ t = s
  BY <1>11
<1>13. IsSeq(work) /\ Run(work, s, t)
  BY <1>12, <1>4, RoundsMake
<1>14. PICK ends : ends = <<ACCEPT, END>>
  OBVIOUS
<1>15. IsSeq(ends) /\ IsSeq(w) /\ Tail(todo) = w \o ends /\ Run(w, t, ProgramKinds)
  BY <1>9, <1>14, IsSeqShort DEF Ahead
<1>16. IsSeq(work \o w) /\ Run(work \o w, s, ProgramKinds)
  BY <1>13, <1>15, RunAfter, SeqFacts
<1>17. todo' = (work \o w) \o ends
  <2>1. IsSeq(work) /\ IsSeq(w) /\ IsSeq(ends)
    BY <1>13, <1>15
  <2>2. (work \o w) \o ends = work \o (w \o ends)
    BY ONLY <2>1, Concatenated
  <2> QED
    BY ONLY <2>2, <1>15, <1>4, Zenon
<1>18. todo' = (work \o w) \o <<ACCEPT, END>>
  BY <1>14, <1>17
<1> QED
  BY ONLY <1>1, <1>2, <1>6, <1>8, <1>9, <1>10, <1>16, <1>18, Sound, ExpandSound

LEMMA AcceptHead ==
  ASSUME Parsing, Head(todo)[1] = "accept"
  PROVE  /\ program = NULL /\ \A a \in Alive : heap[a].tag # "program"
         /\ Tail(todo) = <<END>> /\ Fields(vals, ProgramKinds)
<1>1. ACCEPT[1] = "accept" /\ END[1] = "end" /\ Parse("program")[1] = "parse"
  BY TwoFirst DEF ACCEPT, END, Parse
<1>2. todo # <<END>>
  <2>1. Head(<<END>>) = END
    BY TwoFirst
  <2> QED
    BY <2>1, <1>1
<1>3. todo # <<Parse("program"), END>>
  <2>1. Head(<<Parse("program"), END>>) = Parse("program")
    BY TwoFirst
  <2> QED
    BY <2>1, <1>1
<1>4. PICK w, s : ParsingIs(w, s)
  BY <1>2, <1>3 DEF Parsing
<1>5. program = NULL /\ \A a \in Alive : heap[a].tag # "program"
  BY <1>2, <1>3 DEF Parsing
<1>6. PICK ends : ends = <<ACCEPT, END>>
  OBVIOUS
<1>7. IsSeq(ends) /\ Head(ends) = ACCEPT /\ Tail(ends) = <<END>>
  BY <1>6, IsSeqShort, TwoFirst
<1>8. IsSeq(w) /\ s \in Stack /\ todo = w \o ends /\ Run(w, s, ProgramKinds) /\ Fields(vals, s)
  BY <1>4, <1>6 DEF ParsingIs
<1>9. w = <<>>
  <2> SUFFICES ASSUME w # <<>>
               PROVE  FALSE
    OBVIOUS
  <2>1. Head(w)[1] = "accept"
    BY <1>7, <1>8, Concatenated
  <2>2. PICK u : Step(Head(w), s, u)
    BY <1>8, RunHead
  <2> QED
    BY <2>1, <2>2, StepInverse
<1>10. todo = ends /\ s = ProgramKinds
  <2>1. todo = ends
    BY <1>7, <1>8, <1>9, Concatenated
  <2>2. Run(<<>>, s, ProgramKinds)
    BY <1>8, <1>9
  <2> QED
    BY <2>1, <2>2, RunNone
<1> QED
  BY <1>5, <1>7, <1>8, <1>10

(* No pointer is on the stack twice. *)
LEMMA Distinct ==
  ASSUME Memory, causes = {}
  PROVE  \A i, j \in 1..Len(vals) : vals[i] = vals[j] /\ vals[i] > 0 => i = j
<1> SUFFICES ASSUME NEW i \in 1..Len(vals), NEW j \in 1..Len(vals), vals[i] = vals[j], vals[i] > 0
             PROVE  i = j
  OBVIOUS
<1>1. DOMAIN vals = 1..Len(vals)
  BY DEF Memory, TypeOK
<1>2. <<"value", i, 0>> \in Owners /\ <<"value", j, 0>> \in Owners
  BY <1>1, PlaceFacts DEF PlaceLaws
<1>3. Held(<<"value", i, 0>>) = Held(<<"value", j, 0>>)
  BY PlaceFacts DEF PlaceLaws
<1>4. <<"value", i, 0>> = <<"value", j, 0>>
  BY <1>2, <1>3 DEF Memory, Owned
<1> QED
  BY <1>4

(* One node takes the topmost values. *)
LEMMA MovesNode ==
  ASSUME TypeOK, program = NULL, NEW k, NEW kids, IsSeq(kids),
         NEW nodes, IsSeq(nodes), Len(nodes) = 1, nodes[1].kids = kids,
         \A j \in 1..Len(kids) : /\ kids[j] <= fresh
                                 /\ \E i \in (Len(vals) - k + 1)..Len(vals) : kids[j] = vals[i],
         \A i \in (Len(vals) - k + 1)..Len(vals) : vals[i] > 0 =>
           \E j \in 1..Len(kids) : kids[j] = vals[i],
         \A i, j \in 1..Len(kids) : kids[i] = kids[j] /\ kids[i] > 0 => i = j,
         NEW pushed, \/ pushed = <<fresh + 1>> /\ program' = NULL
                     \/ pushed = <<>> /\ program' = fresh + 1
  PROVE  \E o : Moves(nodes, k, pushed, o)
<1>1. fresh \in Nat /\ Len(vals) \in Nat /\ fresh + 1 > 0
  BY DEF TypeOK
<1>2. PICK v, n, m : v = fresh + 1 /\ n = Len(vals) - k /\ m = Len(kids)
  OBVIOUS
<1>3. PICK top : /\ pushed = <<v>> => top = <<"value", n + 1, 0>>
                 /\ pushed = <<>> => top = <<"program", 0, 0>>
  <2>1. <<v>> # <<>>
    BY TwoFirst
  <2> QED
    BY <2>1
<1>4. PICK low : low = {vals[i] : i \in (Len(vals) - k + 1)..Len(vals)}
  OBVIOUS
<1>5. Loose(1, k) = {v} \cup low
  <2>1. (fresh + 1)..(fresh + 1) = {v}
    BY <1>1, <1>2
  <2> QED
    BY <2>1, <1>4 DEF Loose
<1>6. PICK at : at = [x \in low |-> CHOOSE j \in 1..m : kids[j] = x]
  OBVIOUS
<1>7. \A j \in 1..m : kids[j] \in low /\ kids[j] # v /\ (kids[j] > 0 => at[kids[j]] = j)
  <2> TAKE j \in 1..m
  <2>1. kids[j] \in low /\ kids[j] <= fresh
    BY <1>2, <1>4
  <2>2. PICK i \in (Len(vals) - k + 1)..Len(vals) : kids[j] = vals[i]
    BY <1>2
  <2>3. kids[j] # v
    BY <2>1, <1>1, <1>2
  <2>4. at[kids[j]] \in 1..m /\ kids[at[kids[j]]] = kids[j]
    BY <2>1, <1>6
  <2> QED
    BY <2>1, <2>3, <2>4, <1>2
<1>8. PICK o : o = [x \in {v} \cup low |-> IF x = v THEN top ELSE <<"field", v, at[x]>>]
  OBVIOUS
<1>9. ASSUME NEW j \in 1..m
      PROVE  Placed(kids[j], <<"field", v, j>>, o, 1, k)
  BY <1>5, <1>7, <1>8 DEF Placed
<1>10. v \in Loose(1, k) /\ o[v] = top
  BY <1>5, <1>8
<1>11. \A i \in 1..Len(nodes) : \A j \in 1..Len(nodes[i].kids) :
         Placed(nodes[i].kids[j], <<"field", fresh + i, j>>, o, Len(nodes), k)
  <2>1. \A i \in 1..1 : i = 1
    OBVIOUS
  <2> QED
    BY <2>1, <1>2, <1>9
<1>12. \A x \in low : x > 0 => \E j \in 1..m : kids[j] = x
  BY <1>2, <1>4
<1>13. 1 \in 1..Len(nodes) /\ \A x \in low : x > 0 =>
         \E i \in 1..Len(nodes) : \E j \in 1..Len(nodes[i].kids) : nodes[i].kids[j] = x
  BY <1>2, <1>12
<1>14. CASE pushed = <<>> /\ program' = v
  <2>1. Len(pushed) = 0 /\ 1..0 = {}
    BY <1>14, SeqFacts
  <2>2. Placed(program', <<"program", 0, 0>>, o, Len(nodes), k)
    BY <1>3, <1>10, <1>14 DEF Placed
  <2>3. \A x \in Loose(Len(nodes), k) : x > 0 =>
          \/ \E i \in 1..Len(nodes) : \E j \in 1..Len(nodes[i].kids) : nodes[i].kids[j] = x
          \/ program' = x
    BY <1>5, <1>13, <1>14
  <2> QED
    BY ONLY <2>1, <2>2, <2>3, <1>11 DEF Moves
<1>15. CASE pushed = <<v>> /\ program' = NULL
  <2>1. Len(pushed) = 1 /\ pushed[1] = v /\ \A j \in 1..1 : j = 1
    BY <1>15, TwoFirst
  <2>2. Placed(program', <<"program", 0, 0>>, o, Len(nodes), k)
    BY <1>15 DEF Placed, NULL
  <2>3. 1 \in 1..Len(pushed)
    BY <2>1
  <2>4. \A x \in Loose(Len(nodes), k) : x > 0 =>
          \/ \E i \in 1..Len(nodes) : \E j \in 1..Len(nodes[i].kids) : nodes[i].kids[j] = x
          \/ \E j \in 1..Len(pushed) : pushed[j] = x
    BY <1>5, <1>13, <2>1, <2>3
  <2>5. \A j \in 1..Len(pushed) :
          Placed(pushed[j], <<"value", Len(vals) - k + j, 0>>, o, Len(nodes), k)
    <3>1. Placed(v, <<"value", n + 1, 0>>, o, 1, k)
      BY <1>3, <1>10, <1>15 DEF Placed
    <3> QED
      BY <3>1, <2>1, <1>2
  <2> QED
    BY ONLY <2>2, <2>4, <2>5, <1>11 DEF Moves
<1> QED
  BY <1>2, <1>14, <1>15

LEMMA NoOperator ==
  ASSUME TypeOK, NEW v, NEW kind, Is(v, kind), kind # "operator"
  PROVE  v \in 0..fresh
<1>1. fresh \in Nat /\ \A a \in Alive : a \in 1..fresh
  BY DEF TypeOK, Address
<1>2. v \in Alive \/ v \in References \/ v \in Address \/ v = NULL
  BY DEF Is, Tagged, IsType, ListOf
<1> QED
  BY <1>1, <1>2 DEF References, Address, NULL

LEMMA ProgramLayout ==
  /\ Len(ProgramKinds) = 6 /\ ProgramKinds \in Stack
  /\ \A i \in 1..6 : ProgramKinds[i] \in Kind \ {"operator"}
  /\ \A layout \in Layouts : layout[1] = "program" => layout[2] = ProgramKinds
<1>1. /\ Len(ProgramKinds) = 6
      /\ \A i \in 1..6 : ProgramKinds[i] \in Kind \ {"operator"}
  BY DEF ProgramKinds, Kind
<1>2. ProgramKinds \in Stack
  BY DEF ProgramKinds, Stack, Kind
<1>3. \A layout \in Layouts : layout[1] = "program" => layout[2] = ProgramKinds
  BY DEF Layouts, ProgramKinds
<1> QED
  BY <1>1, <1>2, <1>3

LEMMA AcceptSound ==
  ASSUME Sound, Accept
  PROVE  Sound'
<1>1. /\ phase = "run" /\ todo # <<>> /\ Head(todo)[1] = "accept"
      /\ Allocate(<<Node("program", vals)>>) /\ program' = fresh + 1 /\ vals' = <<>> /\ Then(<<>>)
      /\ UNCHANGED <<st, room, phase, causes>>
  BY DEF Accept, At
<1>2. Memory /\ Parsing /\ IsSeq(todo)
  BY <1>1, Stages DEF ParseTasks
<1>3. /\ TypeOK /\ Records /\ Stabbed /\ fresh \in Nat /\ IsSeq(vals) /\ Len(vals) \in Nat
      /\ Alive \subseteq Address /\ st = NULL /\ causes = {} /\ DOMAIN vals = 1..Len(vals)
  BY <1>2 DEF Memory, TypeOK, IsSeq, Parsing
<1>4. /\ program = NULL /\ \A a \in Alive : heap[a].tag # "program"
      /\ Tail(todo) = <<END>> /\ Fields(vals, ProgramKinds)
  BY <1>1, <1>2, AcceptHead
<1>5. todo' = <<END>> /\ IsSeq(todo') /\ \A i \in DOMAIN todo' : ~Releasing(todo'[i])
  <2>1. todo' = <<END>> /\ IsSeq(<<END>>)
    BY <1>1, <1>4, IsSeqShort, Concatenated DEF Then
  <2>2. END[1] = "end" /\ \A i \in DOMAIN <<END>> : <<END>>[i] = END
    BY TwoFirst DEF END
  <2>3. ~Releasing(END)
    BY <2>2 DEF Releasing
  <2> QED
    BY <2>1, <2>2, <2>3
<1>6. Len(vals) = 6 /\ \A i \in 1..6 : Is(vals[i], ProgramKinds[i]) /\ vals[i] \in 0..fresh
  <2>1. Len(vals) = 6 /\ \A i \in 1..6 : Is(vals[i], ProgramKinds[i])
    BY <1>4, ProgramLayout DEF Fields
  <2>2. \A i \in 1..6 : ProgramKinds[i] # "operator"
    BY ProgramLayout
  <2> QED
    BY <2>1, <2>2, <1>3, NoOperator
<1>7. PICK v, node, nodes : v = fresh + 1 /\ node = Node("program", vals) /\ nodes = <<node>>
  OBVIOUS
<1>8. /\ IsSeq(nodes) /\ Len(nodes) = 1 /\ nodes[1] = node
      /\ node.tag = "program" /\ node.kids = vals /\ node = Node(node.tag, node.kids)
      /\ \A i \in 1..1 : i = 1
  BY <1>7, IsSeqShort, TwoFirst DEF Node
<1>9. Grows(nodes, <<>>)
  <2>1. \A i \in 1..Len(nodes) : IsSeq(nodes[i].kids) /\ nodes[i] = Node(nodes[i].tag, nodes[i].kids)
    BY <1>3, <1>8
  <2>2. Allocate(nodes) /\ IsSeq(nodes)
    BY <1>1, <1>7, <1>8
  <2> QED
    BY <2>1, <2>2, <1>3, AllocateGrows
<1>10. Alive' = Alive \cup {v} /\ heap'[v] = node /\ fresh' = v /\ v \in Nat \ {0} /\ v \notin Alive
  <2>1. 1 \in 1..Len(nodes)
    BY <1>8
  <2>2. heap'[fresh + 1] = nodes[1] /\ fresh' = fresh + Len(nodes)
        /\ Alive' = Alive \cup (fresh + 1)..(fresh + Len(nodes))
    BY <1>9, <2>1 DEF Grows
  <2>3. (fresh + 1)..(fresh + 1) = {fresh + 1}
    BY <1>3
  <2> QED
    BY <2>2, <2>3, <1>7, <1>8, <1>3 DEF Address
<1>11. /\ \A a \in Alive : heap'[a].tag = heap[a].tag /\ (a # st => heap'[a].kids = KidsOf(a))
       /\ \A x, kind : Is(x, kind) => Is(x, kind)'
  BY <1>3, <1>9, GrowKeeps
<1>12. \A a \in Alive : heap'[a].kids = KidsOf(a) /\ KidsOf(a) \in Seq(References)
  <2>1. \A a \in Alive : a # st
    BY <1>3 DEF Address, NULL
  <2>2. \A a \in Alive : KidsOf(a) \in Seq(References)
    BY <1>3 DEF TypeOK
  <2> QED
    BY <2>1, <2>2, <1>11
<1>13. Shaped(v)'
  <2>1. heap'[v].tag = "program" /\ KidsOf(v)' = vals
    BY <1>8, <1>10 DEF KidsOf
  <2>2. ASSUME NEW i \in 1..6
        PROVE  Is(KidsOf(v)[i], ProgramKinds[i])'
    <3>1. PICK x : x = vals[i]
      OBVIOUS
    <3>2. KidsOf(v)'[i] = x /\ Is(x, ProgramKinds[i])'
      BY <3>1, <2>1, <1>6, <1>11
    <3> QED
      BY <3>2
  <2>3. Fields(KidsOf(v), ProgramKinds)'
    BY <2>1, <2>2, <1>6, ProgramLayout DEF Fields
  <2> QED
    BY <2>1, <2>3, ProgramLayout DEF Shaped
<1>14. Rooted'
  <2>1. Tagged(program, "program")'
    BY <1>1, <1>7, <1>8, <1>10 DEF Tagged
  <2>2. ASSUME NEW a \in Alive', NEW i \in DOMAIN heap'[a].kids
        PROVE  heap'[a].kids[i] <= v
    <3>1. CASE a \in Alive
      <4>1. heap'[a].kids \in Seq(References)
        BY <3>1, <1>12
      <4>2. heap'[a].kids[i] \in References
        BY <4>1
      <4> QED
        BY <4>2, <1>3, <1>7 DEF References, Address, NULL
    <3>2. CASE a = v
      <4>1. heap'[a].kids = vals
        BY <3>2, <1>8, <1>10
      <4>2. vals[i] \in 0..fresh
        BY <4>1, <1>3, <1>6
      <4> QED
        BY <4>1, <4>2, <1>3, <1>7
    <3> QED
      BY <3>1, <3>2, <1>10
  <2>3. \A a \in Alive' : heap'[a].tag = "program" => a >= v
    BY <1>4, <1>10, <1>11
  <2> QED
    BY <2>1, <2>2, <2>3, <1>1, <1>3, <1>7 DEF Rooted, KidsOf
<1>15. Parses(nodes, 6, <<>>)
  <2>1. Len(<<>>) = 0 /\ 1..0 = {} /\ IsSeq(<<>>)
    BY SeqFacts
  <2>2. vals' = Below(6) \o <<>>
    BY <1>1, <1>3, <1>6 DEF Below, TypeOK
  <2>3. \A i \in 1..Len(nodes) : \A j \in 1..Len(nodes[i].kids) :
          nodes[i].kids[j] \in 0..(fresh + i - 1)
    <3>1. fresh + 1 - 1 = fresh
      BY <1>3
    <3> QED
      BY <3>1, <1>6, <1>8
  <2>4. \A a \in Alive' : a \notin Alive => Shaped(a)'
    BY <1>10, <1>13
  <2>5. program' \in 0..(fresh + Len(nodes)) /\ room' \in 0..MaxObjects
    BY <1>1, <1>3, <1>8 DEF TypeOK
  <2> QED
    BY <2>1, <2>2, <2>3, <2>4, <2>5, <1>1, <1>5, <1>6, <1>8, <1>9, <1>14 DEF Parses
<1>16. PICK o : Moves(nodes, 6, <<>>, o)
  <2>1. Len(vals) - 6 + 1 = 1 /\ nodes[1].kids = vals
    BY <1>6, <1>8
  <2>2. \A j \in 1..Len(vals) : vals[j] <= fresh /\ \E i \in 1..Len(vals) : vals[j] = vals[i]
    BY <1>6, <1>3
  <2>3. \A i \in 1..Len(vals) : vals[i] > 0 => \E j \in 1..Len(vals) : vals[j] = vals[i]
    OBVIOUS
  <2>4. \A i, j \in 1..Len(vals) : vals[i] = vals[j] /\ vals[i] > 0 => i = j
    BY <1>2, <1>3, Distinct
  <2>5. \A i \in (Len(vals) - 6 + 1)..Len(vals) : vals[i] > 0 => \E j \in 1..Len(vals) : vals[j] = vals[i]
    BY <2>1, <2>3
  <2>6. \A j \in 1..Len(vals) : vals[j] <= fresh
                                /\ \E i \in (Len(vals) - 6 + 1)..Len(vals) : vals[j] = vals[i]
    BY <2>1, <2>2
  <2> QED
    BY ONLY <2>1, <2>4, <2>5, <2>6, <1>1, <1>3, <1>4, <1>8, MovesNode
<1>17. Memory'
  BY <1>2, <1>4, <1>15, <1>16, ParseMemory
<1>18. Parsing'
  BY <1>1, <1>3, <1>5, <1>7, <1>10 DEF Parsing, NULL
<1> QED
  BY <1>1, <1>17, <1>18 DEF Sound, Memory, NoMisuse

(* One node is allocated. *)
LEMMA NodeGrows ==
  ASSUME TypeOK, Records, Stabbed, NEW tag, NEW kids, IsSeq(kids), NEW v, v = fresh + 1,
         NEW nodes, nodes = <<Node(tag, kids)>>, Allocate(nodes)
  PROVE  /\ Grows(nodes, <<>>) /\ Alive' = Alive \cup {v}
         /\ IsSeq(nodes) /\ Len(nodes) = 1 /\ nodes[1].tag = tag /\ nodes[1].kids = kids
         /\ heap'[v].tag = tag /\ KidsOf(v)' = kids
         /\ fresh' = v /\ v \in Nat \ {0} /\ v \notin Alive /\ v \in Address'
         /\ \A x, kd : Is(x, kd) => Is(x, kd)'
<1>1. fresh \in Nat /\ Alive \subseteq Address
  BY DEF TypeOK
<1>2. PICK node : node = Node(tag, kids) /\ nodes = <<node>>
  OBVIOUS
<1>3. /\ IsSeq(nodes) /\ Len(nodes) = 1 /\ nodes[1] = node
      /\ node.tag = tag /\ node.kids = kids /\ node = Node(node.tag, node.kids)
      /\ \A i \in 1..1 : i = 1
  BY <1>2, IsSeqShort, TwoFirst DEF Node
<1>4. Grows(nodes, <<>>)
  <2>1. \A i \in 1..Len(nodes) : IsSeq(nodes[i].kids) /\ nodes[i] = Node(nodes[i].tag, nodes[i].kids)
    BY <1>3
  <2>2. Allocate(nodes) /\ IsSeq(nodes)
    BY <1>2, <1>3
  <2> QED
    BY <2>1, <2>2, AllocateGrows
<1>5. Alive' = Alive \cup {v} /\ heap'[v] = node /\ fresh' = v /\ v \in Nat \ {0} /\ v \notin Alive
  <2>1. 1 \in 1..Len(nodes)
    BY <1>3
  <2>2. heap'[fresh + 1] = nodes[1] /\ fresh' = fresh + Len(nodes)
        /\ Alive' = Alive \cup (fresh + 1)..(fresh + Len(nodes))
    BY <1>4, <2>1 DEF Grows
  <2>3. (fresh + 1)..(fresh + 1) = {fresh + 1}
    BY <1>1
  <2> QED
    BY <2>2, <2>3, <1>2, <1>3, <1>1 DEF Address
<1>6. \A x, kd : Is(x, kd) => Is(x, kd)'
  BY <1>4, GrowKeeps
<1>7. KidsOf(v)' = kids /\ v \in Address'
  BY <1>3, <1>5 DEF KidsOf, Address
<1> QED
  BY <1>2, <1>3, <1>4, <1>5, <1>6, <1>7

(* The parser takes values, puts pointers among them into a node, and      *)
(* leaves the node. *)
Constructs(w, r, kinds, kind, tag, kids, v) ==
  /\ phase = "run" /\ Parsing /\ program = NULL /\ \A a \in Alive : heap[a].tag # "program"
  /\ IsSeq(todo) /\ todo # <<>> /\ Then(<<>>)
  /\ UNCHANGED <<program, st, room, phase, causes>>
  /\ r \in Stack /\ kinds \in Stack /\ kind \in Kind
  /\ Ahead(w, Append(r, kind)) /\ Fields(vals, r \o kinds)
  /\ tag # "program" /\ IsSeq(kids) /\ v = fresh + 1
  /\ Allocate(<<Node(tag, kids)>>) /\ vals' = Append(Below(Len(kinds)), v)
  /\ Is(v, kind)' /\ Shaped(v)'
  /\ \A j \in 1..Len(kids) : /\ kids[j] \in 0..fresh
                             /\ \E i \in 1..Len(kinds) : kids[j] = vals[Len(r) + i]
  /\ \A i \in 1..Len(kinds) : vals[Len(r) + i] > 0 =>
       \E j \in 1..Len(kids) : kids[j] = vals[Len(r) + i]
  /\ \A i, j \in 1..Len(kids) : kids[i] = kids[j] /\ kids[i] > 0 => i = j
LEMMA NodeSound ==
  ASSUME Sound, NEW w, NEW r, NEW kinds, NEW kind, NEW tag, NEW kids, NEW v,
         Constructs(w, r, kinds, kind, tag, kids, v)
  PROVE  Sound'
<1> USE DEF Constructs
<1>1. Memory /\ TypeOK /\ Records /\ Stabbed /\ fresh \in Nat /\ IsSeq(vals)
  BY DEF Sound, Memory, TypeOK, IsSeq
<1>2. PICK nodes : nodes = <<Node(tag, kids)>>
  OBVIOUS
<1>3. /\ Grows(nodes, <<>>) /\ Alive' = Alive \cup {v}
      /\ IsSeq(nodes) /\ Len(nodes) = 1 /\ nodes[1].tag = tag /\ nodes[1].kids = kids
      /\ fresh' = v /\ v \in Nat \ {0}
  <2>1. Allocate(nodes)
    BY <1>2
  <2> QED
    BY ONLY <2>1, <1>1, <1>2, IsSeq(kids), v = fresh + 1, NodeGrows
<1>4. todo' = Tail(todo)
  BY SeqFacts, Concatenated DEF Then
<1>5. Taken(nodes)
  <2>1. \A i \in 1..1 : i = 1 /\ fresh + i - 1 = fresh
    BY <1>1
  <2>2. \A i \in 1..Len(nodes) : nodes[i].tag # "program"
    BY <1>3, <2>1
  <2>3. \A i \in 1..Len(nodes) : \A j \in 1..Len(nodes[i].kids) :
          nodes[i].kids[j] \in 0..(fresh + i - 1)
    BY <1>3, <2>1
  <2>4. \A a \in Alive' : a \notin Alive => Shaped(a)'
    BY <1>3
  <2> QED
    BY <2>2, <2>3, <2>4, <1>3, <1>4 DEF Taken
<1>6. vals' = Below(Len(kinds)) \o <<v>>
  <2>1. Len(kinds) \in 0..Len(vals)
    BY <1>1, FieldsSplit
  <2>2. Below(Len(kinds)) \in Seq(References \cup {OPERATOR})
    BY <2>1, <1>1 DEF Below, TypeOK
  <2>3. \A f : f \in Seq(References \cup {OPERATOR}) => Append(f, v) = f \o <<v>>
    OBVIOUS
  <2> QED
    BY <2>2, <2>3
<1>7. /\ Len(r) \in Nat /\ Len(kinds) \in 0..Len(vals) /\ Len(vals) - Len(kinds) = Len(r)
      /\ Len(vals) \in Nat
  BY <1>1, FieldsSplit
<1>8. PICK o : Moves(nodes, Len(kinds), <<v>>, o)
  <2>1. PICK k, n, m : k = Len(kinds) /\ n = Len(r) /\ m = Len(vals)
    OBVIOUS
  <2>2. n \in Nat /\ m = n + k /\ k \in Nat /\ m - k + 1 = n + 1
    <3>1. n \in Nat /\ k \in 0..m /\ m - k = n /\ m \in Nat
      BY ONLY <1>7, <2>1
    <3> QED
      BY ONLY <3>1
  <2>3. \A j \in 1..Len(kids) : /\ kids[j] <= fresh
                                /\ \E i \in (Len(vals) - k + 1)..Len(vals) : kids[j] = vals[i]
    <3> TAKE j \in 1..Len(kids)
    <3>1. PICK i \in 1..k : kids[j] = vals[n + i]
      BY <2>1
    <3>2. n + i \in (n + 1)..m
      BY <2>2
    <3>3. kids[j] \in 0..fresh
      OBVIOUS
    <3>4. kids[j] <= fresh
      BY ONLY <3>3, <1>1
    <3>5. n + i \in (Len(vals) - k + 1)..Len(vals)
      BY ONLY <3>2, <2>1, <2>2
    <3> QED
      BY ONLY <3>1, <3>4, <3>5
  <2>4. \A i \in (Len(vals) - k + 1)..Len(vals) : vals[i] > 0 =>
          \E j \in 1..Len(kids) : kids[j] = vals[i]
    <3> TAKE i \in (Len(vals) - k + 1)..Len(vals)
    <3>1. i - n \in 1..k /\ n + (i - n) = i
      BY <2>1, <2>2
    <3> QED
      BY <3>1, <2>1
  <2>5. \E o : Moves(nodes, k, <<v>>, o)
    <3>1. <<v>> = <<fresh + 1>> /\ program' = NULL
      OBVIOUS
    <3>2. \A i, j \in 1..Len(kids) : kids[i] = kids[j] /\ kids[i] > 0 => i = j
      OBVIOUS
    <3> QED
      BY ONLY <3>1, <3>2, <2>3, <2>4, <1>1, <1>3, program = NULL, IsSeq(kids), MovesNode, ZenonT(60)
  <2> QED
    BY <2>1, <2>5
<1>9. v \in 0..(fresh + Len(nodes)) \cup {OPERATOR}
  BY <1>1, <1>3
<1> QED
  BY <1>5, <1>6, <1>8, <1>9, PushedSound

(* What a constructor makes, by tag and by kind *)
LEMMA BuildsTags ==
  ASSUME NEW tag, NEW kinds, NEW kind, Builds(tag, kinds, kind)
  PROVE  /\ kind \in {"names", "list", "fields", "formals", "path", "decls", "ref", "field", "type",
                      "result"}
         /\ tag \notin {"program", "string", "subdecl", "TYPE_FUNCTION"}
         /\ kind = "names" => tag = "free"
         /\ kind \in {"list", "fields", "formals"} => tag = "free_*"
         /\ kind = "fields" => kinds = <<>>
         /\ kind = "formals" => kinds \in {<<>>, <<"decls">>}
         /\ kind = "path" => tag = "path"
         /\ kind = "decls" => tag = "decls"
         /\ kind = "field" => tag = "record_field"
         /\ kind \in {"type", "result"} => tag \in Types
         /\ tag = "free" => kinds \in {<<>>, <<"string">>}
         /\ tag = "decls" => kinds = <<"names", "type">>
         /\ tag = "EXPR_APP" => kinds = <<"path", "list">>
         /\ tag = "type_decl" => kinds = <<"string", "type">>
         /\ tag = "TYPE_POINTER" => kinds = <<"type">>
         /\ tag = "TYPE_ARRAY" => kinds = <<"string", "string", "type">>
         /\ tag = "TYPE_RECORD" => kinds = <<"fields">>
         /\ tag = "record_field" => kinds = <<"string", "type">>
         /\ tag = "STMT_FOR" => kinds = <<"string", "ref", "ref", "ref">>
         /\ tag = "EXPR_UN" => kinds \in {<<"ref">>, <<"operator", "ref">>} /\ kind = "ref"
         /\ tag = "EXPR_BIN" => kinds = <<"ref", "operator", "ref">> /\ kind = "ref"
         /\ tag \notin {"EXPR_UN", "EXPR_BIN"} =>
              kinds \in {<<>>, <<"string">>, <<"decls">>, <<"ref">>, <<"names", "type">>,
                         <<"string", "type">>, <<"string", "string", "type">>, <<"type">>,
                         <<"fields">>, <<"list">>, <<"ref", "ref">>, <<"path", "names">>,
                         <<"path", "list">>, <<"ref", "ref", "ref">>,
                         <<"string", "ref", "ref", "ref">>, <<"path">>, <<"path", "ref">>}
BY DEF Builds, Types

PlainKinds ==
  {<<>>, <<"string">>, <<"decls">>, <<"ref">>, <<"names", "type">>,
   <<"string", "type">>, <<"string", "string", "type">>, <<"type">>,
   <<"fields">>, <<"list">>, <<"ref", "ref">>, <<"path", "names">>,
   <<"path", "list">>, <<"ref", "ref", "ref">>,
   <<"string", "ref", "ref", "ref">>, <<"path">>, <<"path", "ref">>}
LEMMA PlainStacks ==
  \A kinds \in PlainKinds : kinds \in Stack /\ \A i \in 1..Len(kinds) : kinds[i] # "operator"
<1>1. PICK K : K = Kind \ {"operator"}
  OBVIOUS
<1>2. {"string", "decls", "ref", "names", "type", "fields", "list", "path"} \subseteq K
  BY <1>1 DEF Kind
<1>3. \A kinds \in PlainKinds : kinds \in Seq(K)
  <2>1. /\ <<>> \in Seq(K)
        /\ \A a \in K : <<a>> \in Seq(K)
        /\ \A a, b \in K : <<a, b>> \in Seq(K)
        /\ \A a, b, c \in K : <<a, b, c>> \in Seq(K)
        /\ \A a, b, c, d \in K : <<a, b, c, d>> \in Seq(K)
    OBVIOUS
  <2>2. /\ "string" \in K /\ "decls" \in K /\ "ref" \in K /\ "names" \in K
        /\ "type" \in K /\ "fields" \in K /\ "list" \in K /\ "path" \in K
    BY <1>2
  <2> QED
    <3>1. PICK s, d, r, n, t, f, l, p :
            /\ s = "string" /\ d = "decls" /\ r = "ref" /\ n = "names"
            /\ t = "type" /\ f = "fields" /\ l = "list" /\ p = "path"
      OBVIOUS
    <3>2. s \in K /\ d \in K /\ r \in K /\ n \in K /\ t \in K /\ f \in K /\ l \in K /\ p \in K
      BY ONLY <2>2, <3>1
    <3>3. {<<>>, <<s>>, <<d>>, <<r>>, <<n, t>>, <<s, t>>, <<s, s, t>>, <<t>>, <<f>>, <<l>>,
           <<r, r>>, <<p, n>>, <<p, l>>, <<r, r, r>>, <<s, r, r, r>>, <<p>>, <<p, r>>} \subseteq Seq(K)
      BY ONLY <2>1, <3>2
    <3>4. PlainKinds
          = {<<>>, <<s>>, <<d>>, <<r>>, <<n, t>>, <<s, t>>, <<s, s, t>>, <<t>>, <<f>>, <<l>>,
             <<r, r>>, <<p, n>>, <<p, l>>, <<r, r, r>>, <<s, r, r, r>>, <<p>>, <<p, r>>}
      BY ONLY <3>1, Zenon DEF PlainKinds
    <3>5. PlainKinds \subseteq Seq(K)
      BY ONLY <3>3, <3>4, Zenon
    <3> QED
      BY ONLY <3>5
<1>4. ASSUME NEW kinds \in Seq(K)
      PROVE  kinds \in Stack /\ \A i \in 1..Len(kinds) : kinds[i] # "operator"
  <2>1. PICK S : S = Kind
    OBVIOUS
  <2>2. K \subseteq S
    BY <1>1, <2>1
  <2>3. kinds \in Seq(S)
    BY ONLY <2>2, <1>4
  <2>4. \A i \in 1..Len(kinds) : kinds[i] \in K
    BY ONLY <1>4
  <2> QED
    BY <2>1, <2>3, <2>4, <1>1 DEF Stack
<1> QED
  BY <1>3, <1>4

(* A node of the fields its constructor takes *)
BuiltLaw ==
  \A v, tag, kinds, kind :
    v \in Alive /\ v \in Address /\ heap[v].tag = tag /\ IsSeq(KidsOf(v))
      /\ Builds(tag, kinds, kind) =>
      /\ Fields(KidsOf(v), kinds) => Is(v, kind) /\ Shaped(v)
      /\ tag \in {"EXPR_UN", "EXPR_BIN"} => Is(v, kind) /\ Shaped(v)
LEMMA Built == BuiltLaw
<1> SUFFICES ASSUME NEW v, NEW tag, NEW kinds, NEW kind,
                    v \in Alive, v \in Address, heap[v].tag = tag, IsSeq(KidsOf(v)),
                    Builds(tag, kinds, kind)
             PROVE  /\ Fields(KidsOf(v), kinds) => Is(v, kind) /\ Shaped(v)
                    /\ tag \in {"EXPR_UN", "EXPR_BIN"} => Is(v, kind) /\ Shaped(v)
  BY DEF BuiltLaw
<1>1. CASE tag \in {"EXPR_UN", "EXPR_BIN"}
  <2>1. kind = "ref"
    BY <1>1, BuildsTags
  <2>2. Is(v, kind)
    BY <2>1 DEF Is, References
  <2>3. Shaped(v)
    <3>1. \A layout \in Layouts : layout[1] \notin {"EXPR_UN", "EXPR_BIN"}
      BY DEF Layouts
    <3> QED
      BY <1>1, <3>1 DEF Shaped
  <2> QED
    BY <2>2, <2>3
<1>2. CASE tag \notin {"EXPR_UN", "EXPR_BIN"} /\ Fields(KidsOf(v), kinds)
  <2>1. Shaped(v)
    <3>1. tag # "string"
      BY BuildsTags
    <3>2. ASSUME tag = "free", NEW i \in DOMAIN KidsOf(v)
          PROVE  Is(KidsOf(v)[i], "string")
      <4>1. kinds \in {<<>>, <<"string">>}
        BY <3>2, BuildsTags
      <4>2. /\ DOMAIN KidsOf(v) = 1..Len(kinds)
            /\ \A j \in 1..Len(kinds) : Is(KidsOf(v)[j], kinds[j])
        BY <1>2, SeqFacts DEF Fields
      <4>3. kinds[i] = "string"
        BY <4>1, <4>2, <3>2
      <4> QED
        BY <4>2, <4>3, <3>2
    <3>3. ASSUME NEW layout \in Layouts, tag = layout[1]
          PROVE  kinds = layout[2]
      BY <3>3, BuildsTags DEF Layouts
    <3> QED
      BY <3>1, <3>2, <3>3, <1>2 DEF Shaped
  <2>2. Is(v, kind)
    <3>1. CASE kind \in {"names", "path", "decls", "field", "list"}
      BY <3>1, BuildsTags DEF Is, Tagged
    <3>2. CASE kind \in {"type", "result"}
      BY <3>2, BuildsTags DEF Is, IsType
    <3>3. CASE kind = "ref"
      BY <3>3 DEF Is, References
    <3>4. CASE kind = "fields"
      <4>1. kinds = <<>> /\ Tagged(v, "free_*")
        BY <3>4, BuildsTags DEF Tagged
      <4>2. DOMAIN KidsOf(v) = 1..0
        BY <4>1, <1>2, SeqFacts DEF Fields
      <4>3. DOMAIN KidsOf(v) = {}
        BY <4>2
      <4> QED
        BY <4>1, <4>3, <3>4 DEF Is, ListOf
    <3>5. CASE kind = "formals"
      <4>1. kinds \in {<<>>, <<"decls">>} /\ Tagged(v, "free_*")
        BY <3>5, BuildsTags DEF Tagged
      <4>2. /\ DOMAIN KidsOf(v) = 1..Len(kinds)
            /\ \A j \in 1..Len(kinds) : Is(KidsOf(v)[j], kinds[j])
        BY <1>2, SeqFacts DEF Fields
      <4>3. \A j \in DOMAIN KidsOf(v) : Tagged(KidsOf(v)[j], "decls")
        <5> TAKE j \in DOMAIN KidsOf(v)
        <5>1. kinds[j] = "decls" /\ Is(KidsOf(v)[j], kinds[j])
          BY <4>1, <4>2
        <5> QED
          BY <5>1 DEF Is
      <4> QED
        BY <4>1, <4>3, <3>5 DEF Is, ListOf
    <3> QED
      BY <3>1, <3>2, <3>3, <3>4, <3>5, BuildsTags
  <2> QED
    BY <2>1, <2>2, <1>2
<1> QED
  BY <1>1, <1>2

LEMMA TopOf ==
  ASSUME TypeOK, NEW n \in 0..Len(vals)
  PROVE  /\ IsSeq(Top(n)) /\ Len(Top(n)) = n /\ DOMAIN Top(n) = 1..n
         /\ \A i \in 1..n : Top(n)[i] = vals[Len(vals) - n + i]
<1>1. PICK first, last : first = Len(vals) - n + 1 /\ last = Len(vals)
  OBVIOUS
<1>2. Len(vals) \in Nat /\ first \in Int /\ last \in Int /\ first > 0 /\ first + n = last + 1
  BY <1>1 DEF TypeOK
<1>3. PICK S : vals \in Seq(S)
  BY DEF TypeOK
<1>4. \A i \in first..last : vals[i] \in S
  BY <1>1, <1>2, <1>3
<1>5. /\ SubSeq(vals, first, last) \in Seq(S)
      /\ Len(SubSeq(vals, first, last)) = (IF first <= last THEN last - first + 1 ELSE 0)
      /\ \A i \in 1..(last - first + 1) : SubSeq(vals, first, last)[i] = vals[first + i - 1]
  BY ONLY <1>2, <1>4, PartOf
<1>6. PICK t : t = Top(n)
  OBVIOUS
<1>7. t = SubSeq(vals, first, last)
  BY <1>1, <1>6 DEF Top
<1>8. last - first + 1 = n /\ (IF first <= last THEN last - first + 1 ELSE 0) = n
  BY <1>2
<1>9. IsSeq(t) /\ Len(t) = n
  BY <1>5, <1>7, <1>8 DEF IsSeq
<1>10. \A i \in 1..n : t[i] = vals[Len(vals) - n + i]
  <2> TAKE i \in 1..n
  <2>1. t[i] = vals[first + i - 1]
    BY <1>5, <1>7, <1>8
  <2>2. first + i - 1 = Len(vals) - n + i
    BY <1>1, <1>2
  <2> QED
    BY <2>1, <2>2
<1> QED
  BY <1>6, <1>9, <1>10, SeqFacts

LEMMA ShortParts ==
  ASSUME NEW s, IsSeq(s)
  PROVE  SubSeq(s, 1, 0) = <<>> /\ \A i \in 1..Len(s) : SubSeq(s, i, i) = <<s[i]>>
<1>1. PICK S : s \in Seq(S)
  BY DEF IsSeq
<1>2. \A i \in 1..Len(s) : s[i] \in S /\ i \in Int
  BY <1>1
<1>3. SubSeq(s, 1, 0) = <<>>
  <2>1. 1 \in Int /\ 0 \in Int /\ \A i \in 1..0 : s[i] \in S
    OBVIOUS
  <2>2. SubSeq(s, 1, 0) \in Seq(S) /\ Len(SubSeq(s, 1, 0)) = 0
    BY ONLY <2>1, PartOf
  <2> QED
    BY <2>2, SeqFacts DEF IsSeq
<1>4. ASSUME NEW i \in 1..Len(s)
      PROVE  SubSeq(s, i, i) = <<s[i]>>
  <2>1. i \in Int /\ i <= i /\ i - i + 1 = 1 /\ i + 1 - 1 = i /\ \A j \in i..i : s[j] \in S
    BY <1>2
  <2>2. /\ SubSeq(s, i, i) \in Seq(S)
        /\ Len(SubSeq(s, i, i)) = (IF i <= i THEN i - i + 1 ELSE 0)
        /\ \A j \in 1..(i - i + 1) : SubSeq(s, i, i)[j] = s[i + j - 1]
    BY ONLY <2>1, PartOf
  <2>3. PICK t, a : t = SubSeq(s, i, i) /\ a = s[i]
    OBVIOUS
  <2>4. IsSeq(t) /\ Len(t) = 1 /\ t[1] = a
    <3>1. t \in Seq(S) /\ Len(t) = 1
      BY ONLY <2>1, <2>2, <2>3
    <3>2. 1 \in 1..(i - i + 1)
      BY <2>1
    <3>3. t[1] = s[i + 1 - 1]
      BY ONLY <3>2, <2>2, <2>3
    <3> QED
      BY <3>1, <3>3, <2>1, <2>3 DEF IsSeq
  <2>5. \A j \in 1..1 : j = 1
    OBVIOUS
  <2>6. IsSeq(<<a>>) /\ Len(<<a>>) = 1 /\ \A j \in 1..Len(t) : t[j] = <<a>>[j]
    BY <2>4, <2>5, IsSeqShort, TwoFirst
  <2>7. t = <<a>>
    BY ONLY <2>4, <2>6, SeqExtensional
  <2> QED
    BY ONLY <2>3, <2>7
<1> QED
  BY <1>3, <1>4

LEMMA PointersFirst ==
  ASSUME NEW values, IsSeq(values), Len(values) = 2, values[1] = OPERATOR, values[2] # OPERATOR
  PROVE  Pointers(values) = <<values[2]>>
<1>1. PICK S : values \in Seq(S)
  BY DEF IsSeq
<1>2. DOMAIN values = 1..2 /\ \A i \in 1..2 : i = 1 \/ i = 2
  BY <1>1
<1>3. {i \in DOMAIN values : values[i] = OPERATOR} = {1}
  BY <1>2
<1>4. (CHOOSE i \in {1} : TRUE) = 1
  OBVIOUS
<1>5. Pointers(values) = RemoveAt(values, 1)
  BY <1>3, <1>4 DEF Pointers
<1>6. PICK b : b = values[2]
  OBVIOUS
<1>7. SubSeq(values, 1, 0) = <<>> /\ SubSeq(values, 2, 2) = <<b>>
  <2>1. 2 \in 1..Len(values)
    OBVIOUS
  <2> QED
    BY ONLY <2>1, <1>6, IsSeq(values), ShortParts
<1>8. <<>> \o <<b>> = <<b>>
  BY IsSeqShort, Concatenated
<1>9. RemoveAt(values, 1) = <<b>>
  <2>1. RemoveAt(values, 1) = SubSeq(values, 1, 1 - 1) \o SubSeq(values, 1 + 1, Len(values))
    BY Zenon DEF RemoveAt
  <2>2. 1 - 1 = 0 /\ 1 + 1 = 2
    OBVIOUS
  <2>3. RemoveAt(values, 1) = <<>> \o <<b>>
    BY ONLY <2>1, <2>2, <1>7, Len(values) = 2
  <2> QED
    BY ONLY <2>3, <1>8
<1> QED
  BY <1>5, <1>6, <1>9

LEMMA PointersMiddle ==
  ASSUME NEW values, IsSeq(values), Len(values) = 3, values[2] = OPERATOR,
         values[1] # OPERATOR, values[3] # OPERATOR
  PROVE  Pointers(values) = <<values[1], values[3]>>
<1>1. PICK S : values \in Seq(S)
  BY DEF IsSeq
<1>2. DOMAIN values = 1..3 /\ \A i \in 1..3 : i = 1 \/ i = 2 \/ i = 3
  BY <1>1
<1>3. {i \in DOMAIN values : values[i] = OPERATOR} = {2}
  BY <1>2
<1>4. (CHOOSE i \in {2} : TRUE) = 2
  OBVIOUS
<1>5. Pointers(values) = RemoveAt(values, 2)
  BY <1>3, <1>4 DEF Pointers
<1>6. PICK a, b : a = values[1] /\ b = values[3]
  OBVIOUS
<1>7. SubSeq(values, 1, 1) = <<a>> /\ SubSeq(values, 3, 3) = <<b>>
  <2>1. 1 \in 1..Len(values) /\ 3 \in 1..Len(values)
    OBVIOUS
  <2> QED
    BY ONLY <2>1, <1>6, IsSeq(values), ShortParts
<1>8. <<a>> \o <<b>> = <<a, b>>
  BY ONLY Pairs
<1>9. RemoveAt(values, 2) = <<a, b>>
  <2>1. RemoveAt(values, 2) = SubSeq(values, 1, 2 - 1) \o SubSeq(values, 2 + 1, Len(values))
    BY Zenon DEF RemoveAt
  <2>2. 2 - 1 = 1 /\ 2 + 1 = 3
    OBVIOUS
  <2>3. RemoveAt(values, 2) = <<a>> \o <<b>>
    BY ONLY <2>1, <2>2, <1>7, Len(values) = 3
  <2> QED
    BY ONLY <2>3, <1>8
<1> QED
  BY <1>5, <1>6, <1>9

LEMMA BuildNodeSound ==
  ASSUME Sound, BuildNode
  PROVE  Sound'
<1>1. /\ phase = "run" /\ todo # <<>> /\ Head(todo)[1] = "build" /\ Then(<<>>)
      /\ UNCHANGED <<program, st, room, phase, causes>>
  BY DEF BuildNode, At
<1>2. Memory /\ Parsing /\ IsSeq(todo)
  BY <1>1, Stages DEF ParseTasks
<1>3. /\ TypeOK /\ Records /\ Stabbed /\ fresh \in Nat /\ IsSeq(vals) /\ Len(vals) \in Nat
      /\ causes = {} /\ DOMAIN vals = 1..Len(vals)
  BY <1>2 DEF Memory, TypeOK, IsSeq, Parsing
<1>4. Head(todo)[1] \notin {"accept", "end"} /\ Head(todo) # Parse("program")
  BY <1>1, TwoFirst DEF Parse
<1>5. /\ program = NULL /\ \A a \in Alive : heap[a].tag # "program"
      /\ \E w, s, t : Ahead(w, t) /\ Fields(vals, s) /\ Step(Head(todo), s, t)
  BY <1>2, <1>4, ParsingNext
<1>6. PICK w, s, t : Ahead(w, t) /\ Fields(vals, s) /\ Step(Head(todo), s, t)
  BY <1>5
<1>7. StepsBy(Head(todo), s, t)
  BY <1>6, StepInverse
<1>8. PICK kinds, kind :
        \E r \in Stack :
          /\ Head(todo) = Build(Arg, Len(kinds)) /\ Builds(Arg, kinds, kind)
          /\ s = r \o kinds /\ t = Append(r, kind)
  BY ONLY <1>1, <1>7, Zenon DEF StepsBy, Arg
<1>9. PICK r \in Stack :
        /\ Head(todo) = Build(Arg, Len(kinds)) /\ Builds(Arg, kinds, kind)
        /\ s = r \o kinds /\ t = Append(r, kind)
  BY <1>8
<1>10. PICK tag, n, v : tag = Arg /\ n = Len(kinds) /\ v = fresh + 1
  OBVIOUS
<1>11. Head(todo)[3] = n
  <2>1. \A a, b : Build(a, b)[3] = b
    BY TwoFirst DEF Build
  <2> QED
    BY <2>1, <1>9, <1>10
<1>12. Builds(tag, kinds, kind)
  BY <1>9, <1>10
<1>13. kinds \in Stack /\ kind \in Kind /\ tag # "program"
  <2>1. kind \in Kind /\ tag # "program"
    BY <1>12, BuildsTags DEF Kind
  <2>2. CASE tag \notin {"EXPR_UN", "EXPR_BIN"}
    <3>1. kinds \in PlainKinds
      BY <2>2, <1>12, BuildsTags DEF PlainKinds
    <3> QED
      BY <3>1, <2>1, PlainStacks
  <2>3. CASE tag \in {"EXPR_UN", "EXPR_BIN"}
    <3>1. kinds \in {<<"ref">>, <<"operator", "ref">>, <<"ref", "operator", "ref">>}
      BY <2>3, <1>12, BuildsTags
    <3>2. "ref" \in Kind /\ "operator" \in Kind
      BY DEF Kind
    <3>3. \A a, b \in Kind : <<a>> \in Seq(Kind) /\ <<a, b>> \in Seq(Kind) /\ <<b, a, b>> \in Seq(Kind)
      OBVIOUS
    <3> QED
      BY ONLY <2>1, <3>1, <3>2, <3>3 DEF Stack
  <2> QED
    BY <2>2, <2>3
<1>14. /\ Len(r) \in Nat /\ n \in 0..Len(vals) /\ Len(vals) - n = Len(r) /\ n \in Nat
       /\ \A i \in 1..n : Is(vals[Len(r) + i], kinds[i])
  <2>1. Fields(vals, r \o kinds)
    BY <1>6, <1>9
  <2> QED
    BY ONLY <2>1, <1>3, <1>10, <1>13, r \in Stack, FieldsSplit, ZenonT(60)
<1>15. PICK values, kids : values = Top(n) /\ kids = Pointers(values)
  OBVIOUS
<1>16. /\ IsSeq(values) /\ Len(values) = n /\ DOMAIN values = 1..n
       /\ \A i \in 1..n : values[i] = vals[Len(r) + i] /\ Is(values[i], kinds[i])
  <2>1. /\ IsSeq(Top(n)) /\ Len(Top(n)) = n /\ DOMAIN Top(n) = 1..n
        /\ \A i \in 1..n : Top(n)[i] = vals[Len(vals) - n + i]
    BY <1>3, <1>14, TopOf
  <2>2. \A i \in 1..n : values[i] = vals[Len(r) + i]
    BY ONLY <2>1, <1>14, <1>15
  <2> QED
    BY <2>1, <2>2, <1>14, <1>15
<1>17. Allocate(<<Node(tag, kids)>>) /\ vals' = Append(Below(n), v)
  BY <1>10, <1>11, <1>15 DEF BuildNode
<1>18. \A i \in 1..n : kinds[i] # "operator" => values[i] \in 0..fresh /\ values[i] # OPERATOR
  <2> SUFFICES ASSUME NEW i \in 1..n, kinds[i] # "operator"
               PROVE  values[i] \in 0..fresh /\ values[i] # OPERATOR
    OBVIOUS
  <2>1. values[i] \in 0..fresh
    BY <1>3, <1>16, NoOperator
  <2> QED
    BY <2>1, <1>3 DEF OPERATOR
<1>19. \A i, j \in 1..n : values[i] = values[j] /\ values[i] > 0 => i = j
  <2> SUFFICES ASSUME NEW i \in 1..n, NEW j \in 1..n, values[i] = values[j], values[i] > 0
               PROVE  i = j
    OBVIOUS
  <2>1. Len(r) + i \in 1..Len(vals) /\ Len(r) + j \in 1..Len(vals)
    BY ONLY <1>3, <1>14, i \in 1..n, j \in 1..n
  <2>2. Len(r) + i = Len(r) + j
    BY <2>1, <1>2, <1>3, <1>16, Distinct
  <2> QED
    BY ONLY <2>2, <1>14, i \in 1..n, j \in 1..n
<1>20. ASSUME IsSeq(kids), tag \notin {"EXPR_UN", "EXPR_BIN"} => Fields(kids, kinds) /\ kids = values,
              \A j \in 1..Len(kids) : kids[j] \in 0..fresh /\ \E i \in 1..n : kids[j] = values[i],
              \A i \in 1..n : values[i] > 0 => \E j \in 1..Len(kids) : kids[j] = values[i],
              \A i, j \in 1..Len(kids) : kids[i] = kids[j] /\ kids[i] > 0 => i = j
       PROVE  Sound'
  <2>1. PICK nodes : nodes = <<Node(tag, kids)>>
    OBVIOUS
  <2>2. /\ Alive' = Alive \cup {v} /\ heap'[v].tag = tag /\ KidsOf(v)' = kids /\ v \in Address'
        /\ \A x, kd : Is(x, kd) => Is(x, kd)'
    <3>1. Allocate(nodes)
      BY <2>1, <1>17
    <3> QED
      BY ONLY <3>1, <2>1, <1>3, <1>10, <1>20, NodeGrows
  <2>3. Is(v, kind)' /\ Shaped(v)'
    <3>1. BuiltLaw'
      BY Built, PTL
    <3>2. v \in Alive' /\ IsSeq(KidsOf(v)')
      BY <2>2, <1>20
    <3>3. ASSUME tag \notin {"EXPR_UN", "EXPR_BIN"}
          PROVE  Fields(KidsOf(v), kinds)'
      <4>1. Fields(kids, kinds) /\ KidsOf(v)' = kids
        BY <3>3, <2>2, <1>20
      <4>2. ASSUME NEW i \in 1..Len(kinds)
            PROVE  Is(KidsOf(v)[i], kinds[i])'
        <5>1. PICK x : x = kids[i]
          OBVIOUS
        <5>2. KidsOf(v)'[i] = x /\ Is(x, kinds[i])'
          BY <5>1, <4>1, <2>2 DEF Fields
        <5> QED
          BY <5>2
      <4> QED
        BY <4>1, <4>2 DEF Fields
    <3> QED
      BY <3>1, <3>2, <3>3, <2>2, <1>12 DEF BuiltLaw
  <2>4. \A j \in 1..Len(kids) : /\ kids[j] \in 0..fresh
                                /\ \E i \in 1..Len(kinds) : kids[j] = vals[Len(r) + i]
    <3> TAKE j \in 1..Len(kids)
    <3>1. kids[j] \in 0..fresh
      BY <1>20
    <3>2. PICK i \in 1..n : kids[j] = values[i]
      BY <1>20
    <3>3. i \in 1..Len(kinds) /\ kids[j] = vals[Len(r) + i]
      BY <3>2, <1>10, <1>16
    <3> QED
      BY <3>1, <3>3
  <2>5. \A i \in 1..Len(kinds) : vals[Len(r) + i] > 0 =>
          \E j \in 1..Len(kids) : kids[j] = vals[Len(r) + i]
    <3> SUFFICES ASSUME NEW i \in 1..n, vals[Len(r) + i] > 0
                 PROVE  \E j \in 1..Len(kids) : kids[j] = vals[Len(r) + i]
      BY <1>10
    <3>1. values[i] = vals[Len(r) + i]
      BY <1>16
    <3> QED
      BY <3>1, <1>20
  <2>6. Ahead(w, Append(r, kind)) /\ Fields(vals, r \o kinds) /\ vals' = Append(Below(Len(kinds)), v)
    BY <1>6, <1>9, <1>10, <1>17
  <2> QED
    <3>1. Then(<<>>) /\ UNCHANGED <<program, st, room, phase, causes>> /\ program = NULL
      BY <1>1, <1>5
    <3>2. v = fresh + 1
      BY <1>10
    <3>3. IsSeq(kids) /\ \A i, j \in 1..Len(kids) : kids[i] = kids[j] /\ kids[i] > 0 => i = j
      BY <1>20
    <3>4. r \in Stack
      OBVIOUS
    <3>5. Constructs(w, r, kinds, kind, tag, kids, v)
      BY ONLY <3>1, <3>2, <3>3, <3>4, <2>3, <2>4, <2>5, <2>6, <1>1, <1>2, <1>5, <1>13, <1>17,
              Zenon DEF Constructs
    <3> QED
      BY ONLY <3>5, Sound, NodeSound
<1>21. CASE \A i \in 1..n : kinds[i] # "operator"
  <2>1. kids = values
    BY <1>15, <1>16, <1>18, <1>21 DEF Pointers
  <2>2. Fields(kids, kinds)
    BY <2>1, <1>10, <1>16 DEF Fields
  <2>3. \A j \in 1..Len(kids) : kids[j] \in 0..fresh /\ \E i \in 1..n : kids[j] = values[i]
    BY <2>1, <1>16, <1>18, <1>21
  <2> QED
    BY <2>1, <2>2, <2>3, <1>16, <1>19, <1>20
<1>22. CASE tag = "EXPR_UN" /\ kinds = <<"operator", "ref">>
  <2>1. n = 2 /\ 1 \in 1..2 /\ 2 \in 1..2 /\ kinds[1] = "operator" /\ kinds[2] = "ref"
    BY <1>10, <1>22
  <2>2. values[1] = OPERATOR /\ values[2] # OPERATOR /\ values[2] \in 0..fresh
    <3>1. Is(values[1], "operator")
      BY <2>1, <1>16
    <3> QED
      BY <3>1, <2>1, <1>18 DEF Is
  <2>3. PICK b : b = values[2]
    OBVIOUS
  <2>4. kids = <<b>>
    BY <2>1, <2>2, <2>3, <1>15, <1>16, PointersFirst
  <2>5. IsSeq(kids) /\ Len(kids) = 1 /\ kids[1] = b /\ \A i \in 1..1 : i = 1
    BY <2>4, IsSeqShort, TwoFirst
  <2>6. \A i \in 1..n : values[i] > 0 => \E j \in 1..Len(kids) : kids[j] = values[i]
    <3> SUFFICES ASSUME NEW i \in 1..n, values[i] > 0
                 PROVE  \E j \in 1..Len(kids) : kids[j] = values[i]
      OBVIOUS
    <3>1. i = 2
      BY <2>1, <2>2 DEF OPERATOR
    <3>2. 1 \in 1..Len(kids)
      BY <2>5
    <3> QED
      BY <3>1, <3>2, <2>3, <2>5
  <2> QED
    BY <2>1, <2>2, <2>3, <2>5, <2>6, <1>20, <1>22
<1>23. CASE tag = "EXPR_BIN" /\ kinds = <<"ref", "operator", "ref">>
  <2>1. /\ n = 3 /\ 1 \in 1..3 /\ 2 \in 1..3 /\ 3 \in 1..3
        /\ kinds[1] = "ref" /\ kinds[2] = "operator" /\ kinds[3] = "ref"
    BY <1>10, <1>23
  <2>2. /\ values[2] = OPERATOR /\ values[1] # OPERATOR /\ values[1] \in 0..fresh
        /\ values[3] # OPERATOR /\ values[3] \in 0..fresh
    <3>1. Is(values[2], "operator")
      BY <2>1, <1>16
    <3> QED
      BY <3>1, <2>1, <1>18 DEF Is
  <2>3. PICK a, b : a = values[1] /\ b = values[3]
    OBVIOUS
  <2>4. kids = <<a, b>>
    BY <2>1, <2>2, <2>3, <1>15, <1>16, PointersMiddle
  <2>5. /\ IsSeq(kids) /\ Len(kids) = 2 /\ kids[1] = a /\ kids[2] = b
        /\ \A i \in 1..2 : i = 1 \/ i = 2
    BY <2>4, IsSeqShort, TwoFirst
  <2>6. \A i \in 1..n : values[i] > 0 => \E j \in 1..Len(kids) : kids[j] = values[i]
    <3> SUFFICES ASSUME NEW i \in 1..n, values[i] > 0
                 PROVE  \E j \in 1..Len(kids) : kids[j] = values[i]
      OBVIOUS
    <3>1. i = 1 \/ i = 3
      BY <2>1, <2>2 DEF OPERATOR
    <3>2. 1 \in 1..Len(kids) /\ 2 \in 1..Len(kids)
      BY <2>5
    <3> QED
      BY <3>1, <3>2, <2>3, <2>5
  <2>7. \A j \in 1..Len(kids) : kids[j] \in 0..fresh /\ \E i \in 1..n : kids[j] = values[i]
    BY <2>1, <2>2, <2>3, <2>5
  <2>8. \A i, j \in 1..Len(kids) : kids[i] = kids[j] /\ kids[i] > 0 => i = j
    <3>1. a = b /\ a > 0 => FALSE
      <4>1. a = b /\ a > 0 => 1 = 3
        BY <2>1, <2>3, <1>19
      <4> QED
        BY <4>1
    <3> QED
      BY <3>1, <2>5
  <2> QED
    BY <2>5, <2>6, <2>7, <2>8, <1>20, <1>23
<1>24. \/ \A i \in 1..n : kinds[i] # "operator"
       \/ tag = "EXPR_UN" /\ kinds = <<"operator", "ref">>
       \/ tag = "EXPR_BIN" /\ kinds = <<"ref", "operator", "ref">>
  <2>1. CASE tag \notin {"EXPR_UN", "EXPR_BIN"}
    <3>1. kinds \in PlainKinds
      BY <2>1, <1>12, BuildsTags DEF PlainKinds
    <3> QED
      BY <3>1, <1>10, PlainStacks
  <2>2. CASE kinds = <<"ref">>
    BY <2>2, <1>10
  <2> QED
    BY <2>1, <2>2, <1>12, BuildsTags
<1> QED
  BY <1>21, <1>22, <1>23, <1>24

LEMMA Six ==
  ASSUME NEW a, NEW b, NEW c, NEW d, NEW e, NEW f, NEW s, s = <<a, b, c, d, e, f>>
  PROVE  /\ IsSeq(s) /\ Len(s) = 6
         /\ s[1] = a /\ s[2] = b /\ s[3] = c /\ s[4] = d /\ s[5] = e /\ s[6] = f
<1>1. PICK S : S = {a, b, c, d, e, f}
  OBVIOUS
<1>2. s \in Seq(S)
  BY <1>1
<1> QED
  BY <1>2 DEF IsSeq

(* Two nodes are allocated. *)
LEMMA NodesGrow ==
  ASSUME TypeOK, Records, Stabbed, NEW tag, NEW kids, IsSeq(kids), NEW a, a = fresh + 1,
         NEW tag2, NEW kids2, IsSeq(kids2), NEW b, b = fresh + 2,
         NEW nodes, nodes = <<Node(tag, kids), Node(tag2, kids2)>>, Allocate(nodes)
  PROVE  /\ Grows(nodes, <<>>) /\ Alive' = Alive \cup {a, b}
         /\ IsSeq(nodes) /\ Len(nodes) = 2 /\ nodes[1].tag = tag /\ nodes[1].kids = kids
         /\ nodes[2].tag = tag2 /\ nodes[2].kids = kids2
         /\ heap'[a].tag = tag /\ KidsOf(a)' = kids
         /\ heap'[b].tag = tag2 /\ KidsOf(b)' = kids2
         /\ fresh' = b /\ a \in Nat \ {0} /\ b = a + 1 /\ a \in Address' /\ b \in Address'
         /\ a \notin Alive /\ b \notin Alive
         /\ \A x, kd : Is(x, kd) => Is(x, kd)'
<1>1. fresh \in Nat /\ Alive \subseteq Address
  BY DEF TypeOK
<1>2. PICK node, node2 :
        node = Node(tag, kids) /\ node2 = Node(tag2, kids2) /\ nodes = <<node, node2>>
  OBVIOUS
<1>3. /\ IsSeq(nodes) /\ Len(nodes) = 2 /\ nodes[1] = node /\ nodes[2] = node2
      /\ node.tag = tag /\ node.kids = kids /\ node = Node(node.tag, node.kids)
      /\ node2.tag = tag2 /\ node2.kids = kids2 /\ node2 = Node(node2.tag, node2.kids)
      /\ \A i \in 1..2 : i = 1 \/ i = 2
  BY <1>2, IsSeqShort, TwoFirst DEF Node
<1>4. Grows(nodes, <<>>)
  <2>1. \A i \in 1..Len(nodes) : IsSeq(nodes[i].kids) /\ nodes[i] = Node(nodes[i].tag, nodes[i].kids)
    BY <1>3
  <2> QED
    BY <1>3, <2>1, AllocateGrows
<1>5. /\ Alive' = Alive \cup {a, b} /\ heap'[a] = node /\ heap'[b] = node2
      /\ fresh' = b /\ a \in Nat \ {0} /\ b = a + 1 /\ a \notin Alive /\ b \notin Alive
  <2>1. 1 \in 1..Len(nodes) /\ 2 \in 1..Len(nodes)
    BY <1>3
  <2>2. /\ heap'[fresh + 1] = nodes[1] /\ heap'[fresh + 2] = nodes[2]
        /\ fresh' = fresh + Len(nodes)
        /\ Alive' = Alive \cup (fresh + 1)..(fresh + Len(nodes))
    BY <1>4, <2>1 DEF Grows
  <2>3. (fresh + 1)..(fresh + 2) = {fresh + 1, fresh + 2}
    BY <1>1
  <2> QED
    BY <2>2, <2>3, <1>3, <1>1 DEF Address
<1>6. \A x, kd : Is(x, kd) => Is(x, kd)'
  BY <1>4, GrowKeeps
<1>7. KidsOf(a)' = kids /\ a \in Address' /\ KidsOf(b)' = kids2 /\ b \in Address'
  BY <1>3, <1>5 DEF KidsOf, Address
<1> QED
  BY <1>2, <1>3, <1>4, <1>5, <1>6, <1>7

LEMMA SubprogramFields ==
  /\ Len(SubprogramKinds) = 7
  /\ SubprogramKinds[1] = "string" /\ SubprogramKinds[2] = "formals"
  /\ SubprogramKinds[3] = "result" /\ SubprogramKinds[4] = "list" /\ SubprogramKinds[5] = "list"
  /\ SubprogramKinds[6] = "list" /\ SubprogramKinds[7] = "ref"
  /\ \A i \in 1..7 : SubprogramKinds[i] # "operator"
BY DEF SubprogramKinds

(* The layouts of the two nodes of a subprogram *)
SubprogramLaw ==
  \A a : /\ heap[a].tag = "TYPE_FUNCTION" /\ Len(KidsOf(a)) = 2
            /\ Is(KidsOf(a)[1], "formals") /\ Is(KidsOf(a)[2], "result") => Shaped(a)
         /\ heap[a].tag = "subdecl" /\ Len(KidsOf(a)) = 6
            /\ Is(KidsOf(a)[1], "string") /\ Is(KidsOf(a)[2], "function")
            /\ Is(KidsOf(a)[3], "list") /\ Is(KidsOf(a)[4], "list") /\ Is(KidsOf(a)[5], "list")
            /\ Is(KidsOf(a)[6], "ref") => Shaped(a)
LEMMA SubprogramShape == SubprogramLaw
<1>1. /\ \A layout \in Layouts : layout[1] = "TYPE_FUNCTION" => layout[2] = <<"formals", "result">>
      /\ \A layout \in Layouts : layout[1] = "subdecl" =>
           layout[2] = <<"string", "function", "list", "list", "list", "ref">>
  BY DEF Layouts
<1>2. ASSUME NEW a, heap[a].tag = "TYPE_FUNCTION", Len(KidsOf(a)) = 2,
             Is(KidsOf(a)[1], "formals"), Is(KidsOf(a)[2], "result")
      PROVE  Shaped(a)
  <2>1. PICK kinds : kinds = <<"formals", "result">>
    OBVIOUS
  <2>2. Len(kinds) = 2 /\ kinds[1] = "formals" /\ kinds[2] = "result"
    BY <2>1
  <2>3. \A i \in 1..2 : i = 1 \/ i = 2
    OBVIOUS
  <2>4. Fields(KidsOf(a), kinds)
    BY <2>2, <2>3, <1>2 DEF Fields
  <2> QED
    BY <2>1, <2>4, <1>1, <1>2 DEF Shaped
<1>3. ASSUME NEW a, heap[a].tag = "subdecl", Len(KidsOf(a)) = 6,
             Is(KidsOf(a)[1], "string"), Is(KidsOf(a)[2], "function"),
             Is(KidsOf(a)[3], "list"), Is(KidsOf(a)[4], "list"), Is(KidsOf(a)[5], "list"),
             Is(KidsOf(a)[6], "ref")
      PROVE  Shaped(a)
  <2>1. PICK kinds : kinds = <<"string", "function", "list", "list", "list", "ref">>
    OBVIOUS
  <2>2. /\ Len(kinds) = 6 /\ kinds[1] = "string" /\ kinds[2] = "function" /\ kinds[3] = "list"
        /\ kinds[4] = "list" /\ kinds[5] = "list" /\ kinds[6] = "ref"
    BY <2>1
  <2>3. \A i \in 1..6 : i = 1 \/ i = 2 \/ i = 3 \/ i = 4 \/ i = 5 \/ i = 6
    OBVIOUS
  <2>4. Fields(KidsOf(a), kinds)
    BY <2>2, <2>3, <1>3 DEF Fields
  <2> QED
    BY <2>1, <2>4, <1>1, <1>3 DEF Shaped
<1> QED
  BY <1>2, <1>3 DEF SubprogramLaw

LEMMA MovesSubprogram ==
  ASSUME Memory, causes = {}, program = NULL, program' = NULL, NEW n \in Nat, Len(vals) = n + 7,
         NEW a, a = fresh + 1, NEW b, b = fresh + 2,
         \A i \in 1..7 : vals[n + i] \in 0..fresh,
         NEW nodes, IsSeq(nodes), Len(nodes) = 2,
         NEW kids, nodes[1].kids = kids, Len(kids) = 2,
         kids[1] = vals[n + 2], kids[2] = vals[n + 3],
         NEW kids2, nodes[2].kids = kids2, Len(kids2) = 6,
         kids2[1] = vals[n + 1], kids2[2] = a, kids2[3] = vals[n + 4],
         kids2[4] = vals[n + 5], kids2[5] = vals[n + 6], kids2[6] = vals[n + 7]
  PROVE  \E o : Moves(nodes, 7, <<b>>, o)
<1>1. TypeOK /\ fresh \in Nat /\ Len(vals) \in Nat
  BY ONLY Memory DEF Memory, TypeOK
<1>2. PICK low : low = {vals[i] : i \in (Len(vals) - 7 + 1)..Len(vals)}
  OBVIOUS
<1>3. low = {vals[n + i] : i \in 1..7}
  <2>1. \A i \in (Len(vals) - 7 + 1)..Len(vals) : i - n \in 1..7 /\ n + (i - n) = i
    OBVIOUS
  <2>2. \A i \in 1..7 : n + i \in (Len(vals) - 7 + 1)..Len(vals)
    BY SMTT(40)
  <2>3. ASSUME NEW x \in low
        PROVE  \E i \in 1..7 : x = vals[n + i]
    BY <2>1, <1>2
  <2>4. ASSUME NEW i \in 1..7
        PROVE  vals[n + i] \in low
    BY <2>2, <1>2
  <2> QED
    BY <2>3, <2>4
<1>4. Loose(2, 7) = {a, b} \cup low
  <2>1. (fresh + 1)..(fresh + 2) = {a, b}
    BY ONLY <1>1, a = fresh + 1, b = fresh + 2
  <2> QED
    BY <2>1, <1>2 DEF Loose
<1>5. a # b /\ a \notin low /\ b \notin low
  <2>1. \A x \in low : x \in 0..fresh
    BY <1>3
  <2> QED
    BY ONLY <2>1, <1>1, a = fresh + 1, b = fresh + 2
<1>6. \A i, j \in 1..7 : vals[n + i] = vals[n + j] /\ vals[n + i] > 0 => i = j
  <2> SUFFICES ASSUME NEW i \in 1..7, NEW j \in 1..7, vals[n + i] = vals[n + j], vals[n + i] > 0
               PROVE  i = j
    OBVIOUS
  <2>1. n + i \in 1..Len(vals) /\ n + j \in 1..Len(vals)
    BY ONLY n \in Nat, Len(vals) = n + 7, i \in 1..7, j \in 1..7
  <2>2. n + i = n + j
    BY ONLY <2>1, Memory, causes = {}, vals[n + i] = vals[n + j], vals[n + i] > 0, Distinct
  <2> QED
    BY ONLY <2>2, n \in Nat, i \in 1..7, j \in 1..7
<1>7. PICK place :
        place = <<<<"field", b, 1>>, <<"field", a, 1>>, <<"field", a, 2>>, <<"field", b, 3>>,
                  <<"field", b, 4>>, <<"field", b, 5>>, <<"field", b, 6>>>>
  OBVIOUS
<1>8. /\ place[1] = <<"field", b, 1>> /\ place[2] = <<"field", a, 1>>
      /\ place[3] = <<"field", a, 2>> /\ place[4] = <<"field", b, 3>>
      /\ place[5] = <<"field", b, 4>> /\ place[6] = <<"field", b, 5>>
      /\ place[7] = <<"field", b, 6>>
  BY <1>7
<1>9. PICK at : at = [x \in low |-> CHOOSE i \in 1..7 : vals[n + i] = x]
  OBVIOUS
<1>10. \A i \in 1..7 : vals[n + i] \in low /\ (vals[n + i] > 0 => at[vals[n + i]] = i)
  <2> TAKE i \in 1..7
  <2>1. vals[n + i] \in low
    BY <1>3
  <2>2. at[vals[n + i]] \in 1..7 /\ vals[n + at[vals[n + i]]] = vals[n + i]
    BY <2>1, <1>9
  <2> QED
    BY <2>1, <2>2, <1>6
<1>11. PICK top : top = <<"value", n + 1, 0>>
  OBVIOUS
<1>12. PICK o : o = [x \in {a, b} \cup low |-> IF x = a THEN <<"field", b, 2>>
                                            ELSE IF x = b THEN top ELSE place[at[x]]]
  OBVIOUS
<1>13. ASSUME NEW i \in 1..7
       PROVE  Placed(vals[n + i], place[i], o, 2, 7)
  <2>1. vals[n + i] \in {a, b} \cup low /\ vals[n + i] # a /\ vals[n + i] # b
    BY <1>5, <1>10
  <2>2. o[vals[n + i]] = place[at[vals[n + i]]]
    BY <2>1, <1>12
  <2> QED
    BY <2>1, <2>2, <1>4, <1>10 DEF Placed
<1>14. Placed(a, <<"field", b, 2>>, o, 2, 7) /\ Placed(b, top, o, 2, 7)
  <2>1. o[a] = <<"field", b, 2>> /\ o[b] = top
    BY <1>5, <1>12
  <2> QED
    BY <2>1, <1>4 DEF Placed
<1>16. Len(kids) = 2 /\ kids[1] = vals[n + 2] /\ kids[2] = vals[n + 3]
  OBVIOUS
<1>17. /\ Len(kids2) = 6 /\ kids2[1] = vals[n + 1] /\ kids2[2] = a /\ kids2[3] = vals[n + 4]
       /\ kids2[4] = vals[n + 5] /\ kids2[5] = vals[n + 6] /\ kids2[6] = vals[n + 7]
  OBVIOUS
<1>18. \A j \in 1..Len(kids) : Placed(kids[j], <<"field", a, j>>, o, 2, 7)
  <2>1. \A j \in 1..2 : j = 1 \/ j = 2
    OBVIOUS
  <2>2. Placed(kids[1], <<"field", a, 1>>, o, 2, 7) /\ Placed(kids[2], <<"field", a, 2>>, o, 2, 7)
    <3>1. 2 \in 1..7 /\ 3 \in 1..7
      OBVIOUS
    <3> QED
      BY ONLY <3>1, <1>8, <1>13, <1>16
  <2> QED
    BY ONLY <2>1, <2>2, <1>16
<1>19. \A j \in 1..Len(kids2) : Placed(kids2[j], <<"field", b, j>>, o, 2, 7)
  <2>1. \A j \in 1..6 : j = 1 \/ j = 2 \/ j = 3 \/ j = 4 \/ j = 5 \/ j = 6
    OBVIOUS
  <2>2. /\ Placed(kids2[1], <<"field", b, 1>>, o, 2, 7) /\ Placed(kids2[2], <<"field", b, 2>>, o, 2, 7)
        /\ Placed(kids2[3], <<"field", b, 3>>, o, 2, 7) /\ Placed(kids2[4], <<"field", b, 4>>, o, 2, 7)
        /\ Placed(kids2[5], <<"field", b, 5>>, o, 2, 7) /\ Placed(kids2[6], <<"field", b, 6>>, o, 2, 7)
    <3>1. 1 \in 1..7 /\ 4 \in 1..7 /\ 5 \in 1..7 /\ 6 \in 1..7 /\ 7 \in 1..7
      OBVIOUS
    <3> QED
      BY ONLY <3>1, <1>8, <1>13, <1>14, <1>17
  <2> QED
    BY ONLY <2>1, <2>2, <1>17
<1>20. \A i \in 1..Len(nodes) : \A j \in 1..Len(nodes[i].kids) :
         Placed(nodes[i].kids[j], <<"field", fresh + i, j>>, o, Len(nodes), 7)
  <2>1. \A i \in 1..2 : i = 1 \/ i = 2
    OBVIOUS
  <2> QED
    BY <2>1, <1>18, <1>19
<1>21. PICK pushed : pushed = <<b>>
  OBVIOUS
<1>22. Len(pushed) = 1 /\ pushed[1] = b /\ \A j \in 1..1 : j = 1
  BY <1>21, TwoFirst
<1>23. \A j \in 1..Len(pushed) :
         Placed(pushed[j], <<"value", Len(vals) - 7 + j, 0>>, o, Len(nodes), 7)
  <2>1. Len(vals) - 7 + 1 = n + 1
    OBVIOUS
  <2> QED
    BY <2>1, <1>11, <1>14, <1>22
<1>24. Placed(program', <<"program", 0, 0>>, o, Len(nodes), 7)
  BY DEF Placed, NULL
<1>25. ASSUME NEW x \in Loose(Len(nodes), 7)
       PROVE  \/ \E i \in 1..Len(nodes) : \E j \in 1..Len(nodes[i].kids) : nodes[i].kids[j] = x
              \/ \E j \in 1..Len(pushed) : pushed[j] = x
  <2>1. 1 \in 1..Len(nodes) /\ 2 \in 1..Len(nodes)
    OBVIOUS
  <2>2. CASE x = b
    <3>1. 1 \in 1..Len(pushed)
      BY <1>22
    <3> QED
      BY <2>2, <3>1, <1>22
  <2>3. CASE x = a
    <3>1. 2 \in 1..Len(kids2)
      BY <1>17
    <3> QED
      BY <2>1, <2>3, <3>1, <1>17
  <2>4. CASE x \in low
    <3>1. PICK i \in 1..7 : x = vals[n + i]
      BY <2>4, <1>3
    <3>2. 1 \in 1..Len(kids) /\ 2 \in 1..Len(kids)
      BY <1>16
    <3>3. 1 \in 1..Len(kids2) /\ 3 \in 1..Len(kids2) /\ 4 \in 1..Len(kids2) /\ 5 \in 1..Len(kids2)
          /\ 6 \in 1..Len(kids2)
      BY <1>17
    <3>4. i = 1 \/ i = 2 \/ i = 3 \/ i = 4 \/ i = 5 \/ i = 6 \/ i = 7
      OBVIOUS
    <3>5. (\E j \in 1..Len(kids) : kids[j] = x) \/ \E j \in 1..Len(kids2) : kids2[j] = x
      BY ONLY <3>1, <3>2, <3>3, <3>4, <1>16, <1>17
    <3> QED
      BY <2>1, <3>5
  <2> QED
    BY <2>2, <2>3, <2>4, <1>4
<1>26. Moves(nodes, 7, pushed, o)
  BY ONLY <1>20, <1>23, <1>24, <1>25 DEF Moves
<1> QED
  BY <1>21, <1>26

BuildsSubprogram == BuildSubprogram /\ Head(todo)[1] = SUBPROGRAM[1]
LEMMA SubprogramTask ==
  /\ BuildSubprogram => BuildsSubprogram
  /\ SUBPROGRAM[1] \in ParseTasks /\ SUBPROGRAM[1] \notin {"accept", "end", "parse"}
<1>1. SUBPROGRAM[1] = "build subprogram"
  BY TwoFirst, Zenon DEF SUBPROGRAM
<1>2. SUBPROGRAM[1] \notin {"accept", "end", "parse"}
  BY ONLY <1>1, Zenon
<1>3. SUBPROGRAM[1] \in ParseTasks
  BY ONLY <1>1, Zenon DEF ParseTasks
<1>4. ASSUME BuildSubprogram
      PROVE  Head(todo)[1] = SUBPROGRAM[1]
  BY <1>1, <1>4, Zenon DEF BuildSubprogram, At
<1> QED
  BY <1>2, <1>3, <1>4 DEF BuildsSubprogram

LEMMA BuildSubprogramSound ==
  ASSUME Sound, BuildSubprogram
  PROVE  Sound'
<1>1. /\ phase = "run" /\ todo # <<>> /\ Then(<<>>)
      /\ UNCHANGED <<program, st, room, phase, causes>>
      /\ Allocate(<<Node("TYPE_FUNCTION", <<Top(7)[2], Top(7)[3]>>),
                    Node("subdecl", <<Top(7)[1], fresh + 1, Top(7)[4], Top(7)[5], Top(7)[6],
                                      Top(7)[7]>>)>>)
      /\ vals' = Append(Below(7), fresh + 2)
  BY Zenon DEF BuildSubprogram, At
<1>2. /\ Head(todo)[1] = SUBPROGRAM[1] /\ SUBPROGRAM[1] \in ParseTasks
      /\ SUBPROGRAM[1] \notin {"accept", "end", "parse"}
  BY ONLY BuildSubprogram, SubprogramTask DEF BuildsSubprogram
<1>3. Memory /\ Parsing /\ IsSeq(todo)
  BY <1>1, <1>2, Stages
<1>4. /\ TypeOK /\ Records /\ Stabbed /\ fresh \in Nat /\ IsSeq(vals) /\ Len(vals) \in Nat
      /\ causes = {} /\ DOMAIN vals = 1..Len(vals)
  BY ONLY <1>3 DEF Memory, TypeOK, IsSeq, Parsing
<1>5. Head(todo)[1] \notin {"accept", "end"} /\ Head(todo) # Parse("program")
  <2>1. Parse("program")[1] = "parse"
    BY TwoFirst DEF Parse
  <2> QED
    BY <2>1, <1>2
<1>6. /\ program = NULL /\ \A a \in Alive : heap[a].tag # "program"
      /\ \E w, s, t : Ahead(w, t) /\ Fields(vals, s) /\ Step(Head(todo), s, t)
  BY <1>3, <1>5, ParsingNext
<1>7. PICK w, s, t : Ahead(w, t) /\ Fields(vals, s) /\ Step(Head(todo), s, t)
  BY <1>6
<1>8. PICK r \in Stack : s = r \o SubprogramKinds /\ t = Append(r, "ref")
  <2>1. StepsBy(Head(todo), s, t)
    BY <1>7, StepInverse
  <2> QED
    BY ONLY <2>1, <1>2, Zenon DEF StepsBy
<1>9. PICK n, a, b, k : n = Len(r) /\ a = fresh + 1 /\ b = fresh + 2 /\ k = SubprogramKinds
  BY Zenon
<1>10. /\ k \in Stack /\ Len(k) = 7 /\ k[1] = "string" /\ k[2] = "formals"
       /\ k[3] = "result" /\ k[4] = "list" /\ k[5] = "list" /\ k[6] = "list" /\ k[7] = "ref"
       /\ \A i \in 1..7 : k[i] # "operator"
  BY ONLY <1>9, SubprogramFields, ListsOfKinds
<1>11. /\ n \in Nat /\ Len(vals) = n + 7 /\ Fields(vals, r \o k)
       /\ \A i \in 1..7 : Is(vals[n + i], k[i])
  <2>1. Fields(vals, r \o k)
    BY <1>7, <1>8, <1>9
  <2> QED
    BY ONLY <2>1, <1>4, <1>9, <1>10, r \in Stack, FieldsSplit, ZenonT(60)
<1>12. \A i \in 1..7 : vals[n + i] \in 0..fresh
  BY <1>4, <1>10, <1>11, NoOperator
<1>13. \A i \in 1..7 : Top(7)[i] = vals[n + i]
  <2>1. 7 \in 0..Len(vals) /\ Len(vals) - 7 = n
    BY ONLY <1>11
  <2>2. \A i \in 1..7 : Top(7)[i] = vals[Len(vals) - 7 + i]
    BY ONLY <2>1, <1>4, TopOf
  <2> QED
    BY ONLY <2>1, <2>2
<1>14. PICK v1, v2, v3, v4, v5, v6, v7 :
         /\ v1 = vals[n + 1] /\ v2 = vals[n + 2] /\ v3 = vals[n + 3] /\ v4 = vals[n + 4]
         /\ v5 = vals[n + 5] /\ v6 = vals[n + 6] /\ v7 = vals[n + 7]
  OBVIOUS
<1>15. /\ Top(7)[1] = v1 /\ Top(7)[2] = v2 /\ Top(7)[3] = v3 /\ Top(7)[4] = v4
       /\ Top(7)[5] = v5 /\ Top(7)[6] = v6 /\ Top(7)[7] = v7
  BY ONLY <1>13, <1>14
<1>16. PICK kids, kids2 : kids = <<v2, v3>> /\ kids2 = <<v1, a, v4, v5, v6, v7>>
  OBVIOUS
<1>17. PICK nodes : nodes = <<Node("TYPE_FUNCTION", kids), Node("subdecl", kids2)>>
  OBVIOUS
<1>18. Allocate(nodes) /\ vals' = Append(Below(7), b)
  BY ONLY <1>1, <1>9, <1>15, <1>16, <1>17, Zenon
<1>19. IsSeq(kids) /\ Len(kids) = 2 /\ kids[1] = v2 /\ kids[2] = v3
  BY ONLY <1>16, IsSeqShort, TwoFirst
<1>20. /\ IsSeq(kids2) /\ Len(kids2) = 6 /\ kids2[1] = v1 /\ kids2[2] = a /\ kids2[3] = v4
       /\ kids2[4] = v5 /\ kids2[5] = v6 /\ kids2[6] = v7
  <2>1. kids2 = <<v1, a, v4, v5, v6, v7>>
    BY <1>16
  <2> QED
    BY ONLY <2>1, Six
<1>21. /\ Grows(nodes, <<>>) /\ Alive' = Alive \cup {a, b}
       /\ IsSeq(nodes) /\ Len(nodes) = 2 /\ nodes[1].tag = "TYPE_FUNCTION" /\ nodes[1].kids = kids
       /\ nodes[2].tag = "subdecl" /\ nodes[2].kids = kids2
       /\ heap'[a].tag = "TYPE_FUNCTION" /\ KidsOf(a)' = kids
       /\ heap'[b].tag = "subdecl" /\ KidsOf(b)' = kids2
       /\ fresh' = b /\ a \in Nat \ {0} /\ b = a + 1 /\ a \in Address' /\ b \in Address'
       /\ a \notin Alive /\ b \notin Alive
       /\ \A x, kd : Is(x, kd) => Is(x, kd)'
  BY ONLY <1>4, <1>9, <1>17, <1>18, <1>19, <1>20, NodesGrow
<1>22. /\ Is(v1, "string")' /\ Is(v2, "formals")' /\ Is(v3, "result")' /\ Is(v4, "list")'
       /\ Is(v5, "list")' /\ Is(v6, "list")' /\ Is(v7, "ref")'
  <2>1. /\ Is(v1, "string") /\ Is(v2, "formals") /\ Is(v3, "result") /\ Is(v4, "list")
        /\ Is(v5, "list") /\ Is(v6, "list") /\ Is(v7, "ref")
    <3>1. 1 \in 1..7 /\ 2 \in 1..7 /\ 3 \in 1..7 /\ 4 \in 1..7 /\ 5 \in 1..7 /\ 6 \in 1..7 /\ 7 \in 1..7
      OBVIOUS
    <3> QED
      BY ONLY <3>1, <1>10, <1>11, <1>14
  <2> QED
    BY ONLY <2>1, <1>21
<1>23. Shaped(a)' /\ Shaped(b)'
  <2>1. SubprogramLaw'
    BY SubprogramShape, PTL
  <2>2. Is(a, "function")'
    BY <1>21 DEF Is, Tagged
  <2>3. Is(KidsOf(a)[1], "formals")' /\ Is(KidsOf(a)[2], "result")'
    <3>1. KidsOf(a)'[1] = v2 /\ KidsOf(a)'[2] = v3
      BY <1>19, <1>21
    <3> QED
      BY <3>1, <1>22
  <2>4. /\ Is(KidsOf(b)[1], "string")' /\ Is(KidsOf(b)[2], "function")'
        /\ Is(KidsOf(b)[3], "list")' /\ Is(KidsOf(b)[4], "list")' /\ Is(KidsOf(b)[5], "list")'
        /\ Is(KidsOf(b)[6], "ref")'
    <3>1. /\ KidsOf(b)'[1] = v1 /\ KidsOf(b)'[2] = a /\ KidsOf(b)'[3] = v4 /\ KidsOf(b)'[4] = v5
          /\ KidsOf(b)'[5] = v6 /\ KidsOf(b)'[6] = v7
      BY <1>20, <1>21
    <3> QED
      BY <3>1, <2>2, <1>22
  <2>5. Len(KidsOf(a)') = 2 /\ Len(KidsOf(b)') = 6
    BY <1>19, <1>20, <1>21
  <2> QED
    BY ONLY <2>1, <2>3, <2>4, <2>5, <1>21 DEF SubprogramLaw
<1>24. todo' = Tail(todo)
  BY <1>1, <1>3, SeqFacts, Concatenated DEF Then
<1>25. /\ v1 \in 0..fresh /\ v2 \in 0..fresh /\ v3 \in 0..fresh /\ v4 \in 0..fresh
       /\ v5 \in 0..fresh /\ v6 \in 0..fresh /\ v7 \in 0..fresh
  BY <1>12, <1>14
<1>26. Taken(nodes)
  <2>1. \A i \in 1..2 : i = 1 \/ i = 2
    OBVIOUS
  <2>2. \A i \in 1..Len(nodes) : nodes[i].tag # "program"
    BY <2>1, <1>21
  <2>3. \A j \in 1..Len(kids) : kids[j] \in 0..fresh
    BY <2>1, <1>19, <1>25
  <2>4. \A j \in 1..Len(kids2) : kids2[j] \in 0..(fresh + 1)
    <3>1. \A j \in 1..6 : j = 1 \/ j = 2 \/ j = 3 \/ j = 4 \/ j = 5 \/ j = 6
      OBVIOUS
    <3>2. a \in 0..(fresh + 1) /\ \A x \in 0..fresh : x \in 0..(fresh + 1)
      BY <1>4, <1>9
    <3> QED
      BY ONLY <3>1, <3>2, <1>20, <1>25
  <2>5. \A i \in 1..Len(nodes) : \A j \in 1..Len(nodes[i].kids) :
          nodes[i].kids[j] \in 0..(fresh + i - 1)
    <3>1. fresh + 1 - 1 = fresh /\ fresh + 2 - 1 = fresh + 1
      BY <1>4
    <3> QED
      BY ONLY <3>1, <2>1, <2>3, <2>4, <1>21
  <2>6. \A x \in Alive' : x \notin Alive => Shaped(x)'
    BY ONLY <1>21, <1>23
  <2>7. Len(nodes) \in 0..2
    BY <1>21
  <2> QED
    BY ONLY <2>2, <2>5, <2>6, <2>7, <1>1, <1>21, <1>24 DEF Taken
<1>27. vals' = Below(Len(k)) \o <<b>>
  <2>1. Below(7) \in Seq(References \cup {OPERATOR})
    <3>1. vals \in Seq(References \cup {OPERATOR}) /\ 7 <= Len(vals)
      BY ONLY <1>4, <1>11 DEF TypeOK
    <3> QED
      BY ONLY <3>1 DEF Below
  <2>2. \A f : f \in Seq(References \cup {OPERATOR}) => Append(f, b) = f \o <<b>>
    OBVIOUS
  <2> QED
    BY ONLY <2>1, <2>2, <1>10, <1>18
<1>28. PICK o : Moves(nodes, 7, <<b>>, o)
  <2>1. program' = NULL
    BY ONLY <1>1, <1>6
  <2>2. /\ kids[1] = vals[n + 2] /\ kids[2] = vals[n + 3]
        /\ kids2[1] = vals[n + 1] /\ kids2[2] = a /\ kids2[3] = vals[n + 4]
        /\ kids2[4] = vals[n + 5] /\ kids2[5] = vals[n + 6] /\ kids2[6] = vals[n + 7]
    BY ONLY <1>14, <1>19, <1>20
  <2> QED
    BY ONLY <2>1, <2>2, <1>3, <1>4, <1>6, <1>9, <1>11, <1>12, <1>19, <1>20, <1>21, MovesSubprogram
<1>29. Is(b, "ref")' /\ "ref" \in Kind
  BY <1>21 DEF Is, References, Kind
<1>30. b \in 0..(fresh + Len(nodes)) \cup {OPERATOR}
  BY ONLY <1>4, <1>9, <1>21
<1>31. Ahead(w, Append(r, "ref"))
  BY <1>7, <1>8
<1>32. Moves(nodes, Len(k), <<b>>, o)
  BY ONLY <1>28, <1>10
<1> QED
  BY ONLY <1>1, <1>3, <1>6, <1>10, <1>11, <1>26, <1>27, <1>29, <1>30, <1>31, <1>32, r \in Stack,
          Sound, PushedSound

(* The topmost value becomes the last field of the list below it. *)
Extends(v, x, m) ==
  /\ m \in Nat /\ m >= 2 /\ Len(vals) = m /\ vals[m - 1] = v /\ vals[m] = x
  /\ v \in Alive /\ x \in 0..fresh
  /\ heap' = [heap EXCEPT ![v].kids = Append(@, x)]
  /\ IsSeq(vals') /\ Len(vals') = m - 1 /\ \A i \in 1..(m - 1) : vals'[i] = vals[i]
  /\ fresh' = fresh /\ program' = program /\ st' = st /\ room' = room
  /\ phase' = phase /\ causes' = causes
  /\ IsSeq(todo') /\ \A i \in DOMAIN todo' : ~Releasing(todo'[i])

Longer(v, x) ==
  \E n \in Nat :
    /\ DOMAIN KidsOf(v) = 1..n /\ DOMAIN heap'[v].kids = 1..(n + 1)
    /\ heap'[v].kids[n + 1] = x
    /\ \A i \in 1..n : heap'[v].kids[i] = KidsOf(v)[i]
LEMMA Extended ==
  ASSUME Memory, Parsing, NEW v, NEW x, NEW m, Extends(v, x, m)
  PROVE  /\ TypeOK' /\ Records' /\ Alive' = Alive
         /\ \A a \in Alive : heap'[a].tag = heap[a].tag
         /\ \A a \in Alive : a # v => heap'[a].kids = KidsOf(a)
         /\ Longer(v, x)
         /\ v > 0 /\ x # v
         /\ \A a \in Alive : \A i \in DOMAIN KidsOf(a) : KidsOf(a)[i] # v
<1>1. /\ TypeOK /\ Records /\ Owned /\ causes = {} /\ fresh \in Nat /\ Alive \subseteq Address
      /\ v \in Alive /\ x \in 0..fresh /\ v > 0
  BY DEF Memory, Parsing, TypeOK, Extends, Address
<1>2. KidsOf(v) \in Seq(References) /\ x \in References
  BY <1>1 DEF TypeOK, References, Address, NULL
<1>3. PICK kids : kids = KidsOf(v)
  OBVIOUS
<1>4. heap[v] = [tag |-> heap[v].tag, kids |-> kids]
  BY <1>1, <1>3 DEF Records, Node, KidsOf
<1>5. /\ Alive' = Alive
      /\ \A a \in Alive : heap'[a] = IF a = v THEN [heap[v] EXCEPT !.kids = Append(kids, x)] ELSE heap[a]
      /\ heap' = [a \in Alive |-> heap'[a]]
  <2>1. heap' = [heap EXCEPT ![v].kids = Append(@, x)] /\ heap = [a \in Alive |-> heap[a]]
    BY <1>1 DEF Extends, Records
  <2>2. heap' = [heap EXCEPT ![v] = [heap[v] EXCEPT !.kids = Append(kids, x)]]
    BY ONLY <2>1, <1>3, <1>1 DEF KidsOf
  <2> QED
    BY ONLY <2>1, <2>2, <1>1 DEF Alive
<1>6. heap'[v] = [tag |-> heap[v].tag, kids |-> Append(kids, x)]
  BY <1>1, <1>4, <1>5
<1>7. /\ \A a \in Alive : heap'[a].tag = heap[a].tag
      /\ \A a \in Alive : a # v => heap'[a].kids = KidsOf(a)
  BY <1>5, <1>6 DEF KidsOf
<1>8. PICK n \in Nat : n = Len(kids)
  BY <1>2, <1>3
<1>9. /\ DOMAIN KidsOf(v) = 1..n /\ DOMAIN heap'[v].kids = 1..(n + 1)
      /\ heap'[v].kids[n + 1] = x /\ heap'[v].kids \in Seq(References)
      /\ \A i \in 1..n : heap'[v].kids[i] = KidsOf(v)[i]
  <2>1. heap'[v].kids = Append(kids, x) /\ kids \in Seq(References)
    BY <1>2, <1>3, <1>6
  <2>2. PICK u : u = Append(kids, x)
    OBVIOUS
  <2>3. u \in Seq(References) /\ DOMAIN u = 1..(n + 1) /\ u[n + 1] = x /\ \A i \in 1..n : u[i] = kids[i]
    BY ONLY <2>1, <2>2, <1>2, <1>8
  <2> QED
    BY ONLY <2>1, <2>2, <2>3, <1>3, <1>8
<1>10. Records'
  <2>1. \A a \in Alive : heap'[a] = [tag |-> heap'[a].tag, kids |-> heap'[a].kids]
    <3> TAKE a \in Alive
    <3>1. CASE a = v
      BY <3>1, <1>6
    <3>2. CASE a # v
      <4>1. heap'[a] = heap[a] /\ heap[a] = [tag |-> heap[a].tag, kids |-> heap[a].kids]
        BY <3>2, <1>1, <1>5 DEF Records, Node
      <4> QED
        BY <4>1
    <3> QED
      BY <3>1, <3>2
  <2> QED
    BY ONLY <2>1, <1>5 DEF Records, Node
<1>11. \A a \in Alive : heap'[a].kids \in Seq(References)
  BY <1>1, <1>7, <1>9 DEF TypeOK
<1>12. TypeOK'
  <2>1. /\ fresh' = fresh /\ program' = program /\ st' = st /\ room' = room
        /\ phase' = phase /\ causes' = causes /\ Address' = Address /\ References' = References
    BY DEF Extends, Address, References
  <2>2. vals' \in Seq(References \cup {OPERATOR})
    <3>1. /\ \A i \in 1..m : vals[i] \in References \cup {OPERATOR}
      BY <1>1 DEF TypeOK, Extends
    <3>2. \A i \in 1..(m - 1) : vals'[i] \in References \cup {OPERATOR}
      BY <3>1 DEF Extends
    <3> QED
      BY <3>2, SeqOver DEF Extends
  <2> QED
    BY <2>1, <2>2, <1>1, <1>5, <1>11 DEF TypeOK, KidsOf
<1>13. x # v
  <2>1. m - 1 \in 1..Len(vals) /\ m \in 1..Len(vals) /\ m - 1 # m
    BY DEF Extends
  <2> QED
    BY ONLY <2>1, <1>1, Memory, Extends(v, x, m), Distinct DEF Extends
<1>14. ASSUME NEW a \in Alive, NEW i \in DOMAIN KidsOf(a), KidsOf(a)[i] = v
       PROVE  FALSE
  <2>1. m - 1 \in DOMAIN vals /\ vals[m - 1] = v
    BY <1>1 DEF Extends, TypeOK
  <2>2. <<"field", a, i>> \in Owners /\ Held(<<"field", a, i>>) = v
    BY <1>1, <1>14, PlaceFacts DEF PlaceLaws
  <2>3. <<"value", m - 1, 0>> \in Owners /\ Held(<<"value", m - 1, 0>>) = v
    BY <1>1, <2>1, PlaceFacts DEF PlaceLaws
  <2>4. <<"field", a, i>> # <<"value", m - 1, 0>>
    OBVIOUS
  <2> QED
    BY <2>2, <2>3, <2>4, <1>1 DEF Owned
<1>15. Longer(v, x)
  BY <1>8, <1>9 DEF Longer
<1> QED
  BY <1>1, <1>5, <1>7, <1>10, <1>12, <1>13, <1>14, <1>15

(* What a kind says of other values than the list still holds. *)
ExtendsKeeps(v) == \A y, kind : y # v /\ Is(y, kind) => Is(y, kind)'
LEMMA ExtendedKeeps ==
  ASSUME Memory, Parsing, NEW v, NEW x, NEW m, Extends(v, x, m)
  PROVE  ExtendsKeeps(v)
<1>1. /\ Alive' = Alive /\ \A a \in Alive : heap'[a].tag = heap[a].tag
      /\ \A a \in Alive : a # v => heap'[a].kids = KidsOf(a)
  BY Extended
<1>2. fresh \in Nat /\ fresh' = fresh /\ Alive \subseteq Address
  BY DEF Memory, TypeOK, Extends
<1> SUFFICES ASSUME NEW y, NEW kind, y # v, Is(y, kind)
             PROVE  Is(y, kind)'
  BY DEF ExtendsKeeps
<1>3. Tagged(y, "free_*") =>
        \A i \in DOMAIN heap'[y].kids :
          \E j \in DOMAIN KidsOf(y) :
            /\ heap'[y].kids[i] = KidsOf(y)[j]
            /\ KidsOf(y)[j] \in Alive /\ heap[KidsOf(y)[j]].tag # "string"
                  => KidsOf(y)[j] \in Alive'
  BY <1>1 DEF Tagged
<1>4. fresh' \in Nat /\ fresh <= fresh'
  BY <1>2
<1> QED
  BY ONLY <1>1, <1>2, <1>3, <1>4, Is(y, kind), IsKept

LEMMA ExtendOwned ==
  ASSUME Memory, Parsing, NEW v, NEW x, NEW m, Extends(v, x, m)
  PROVE  Owned'
<1>1. /\ Alive' = Alive /\ \A a \in Alive : heap'[a].tag = heap[a].tag
      /\ \A a \in Alive : a # v => heap'[a].kids = KidsOf(a)
  BY Extended
<1>2. PICK n \in Nat : /\ DOMAIN KidsOf(v) = 1..n /\ DOMAIN heap'[v].kids = 1..(n + 1)
                       /\ heap'[v].kids[n + 1] = x
                       /\ \A i \in 1..n : heap'[v].kids[i] = KidsOf(v)[i]
  BY Extended DEF Longer
<1>3. /\ TypeOK /\ Owned /\ fresh \in Nat /\ Alive \subseteq Address /\ causes = {}
      /\ (\A d : <<"call", d, 0>> \notin Places) /\ TypeOK'
  BY ParsingTasks, Extended DEF Memory, TypeOK, Parsing
<1>4. /\ m \in Nat /\ DOMAIN vals = 1..m /\ DOMAIN vals' = 1..(m - 1) /\ m - 1 \in Nat
      /\ vals[m] = x /\ v \in Alive
      /\ \A i \in 1..(m - 1) : vals'[i] = vals[i]
  <2>1. DOMAIN vals' = 1..Len(vals')
    BY SeqFacts DEF Extends
  <2> QED
    BY <2>1, <1>3 DEF Extends, TypeOK
<1>5. /\ fresh' = fresh /\ program' = program /\ st' = st /\ causes' = causes /\ Address' = Address
      /\ \A i \in DOMAIN todo' : ~Releasing(todo'[i])
  BY DEF Extends, Address
<1> DEFINE R == {<<"value", m, 0>>}
           G == {<<"field", v, n + 1>>}
<1>6. ASSUME NEW p \in Owners' \ G
      PROVE  p \in Owners \ R /\ Held(p)' = Held(p)
  <2>1. p \in Places' /\ Held(p)' > 0
    BY PlaceFactsPrime
  <2>2. p \in Places \ R /\ Held(p)' = Held(p)
    <3>1. ASSUME NEW i \in DOMAIN vals', p = <<"value", i, 0>>
          PROVE  p \in Places \ R /\ Held(p)' = Held(p)
      <4>1. i \in DOMAIN vals /\ i # m /\ vals'[i] = vals[i]
        BY <1>4
      <4>2. Held(<<"value", i, 0>>)' = vals'[i]
        BY PlaceFactsPrime
      <4>3. Held(<<"value", i, 0>>) = vals[i] /\ <<"value", i, 0>> \in Places
        BY <4>1, PlaceFacts DEF PlaceLaws
      <4> QED
        BY ONLY <4>1, <4>2, <4>3, <3>1
    <3>2. ASSUME NEW a \in Alive', NEW i \in DOMAIN heap'[a].kids, p = <<"field", a, i>>
          PROVE  p \in Places \ R /\ Held(p)' = Held(p)
      <4>1. a \in Alive /\ i \in DOMAIN KidsOf(a) /\ heap'[a].kids[i] = KidsOf(a)[i]
        <5>1. CASE a = v
          <6>1. i # n + 1
            BY <5>1, <3>2
          <6>2. i \in 1..n
            BY ONLY <5>1, <6>1, <3>2, <1>2
          <6> QED
            BY <5>1, <6>2, <1>1, <1>2
        <5>2. CASE a # v
          BY <5>2, <1>1
        <5> QED
          BY <5>1, <5>2
      <4>2. Held(<<"field", a, i>>)' = heap'[a].kids[i]
        BY PlaceFactsPrime
      <4>3. Held(<<"field", a, i>>) = KidsOf(a)[i] /\ <<"field", a, i>> \in Places
        BY <4>1, PlaceFacts DEF PlaceLaws
      <4> QED
        BY ONLY <4>1, <4>2, <4>3, <3>2
    <3>3. \/ \E i \in DOMAIN vals' : p = <<"value", i, 0>>
          \/ \E a \in Alive' : \E i \in DOMAIN heap'[a].kids : p = <<"field", a, i>>
          \/ p = <<"program", 0, 0>> \/ p = <<"st", 0, 0>>
      BY <2>1, <1>5, PlaceFactsPrime
    <3>4. \A q : q = <<"program", 0, 0>> \/ q = <<"st", 0, 0>>
            => q \in Places \ R /\ Held(q)' = Held(q)
      BY <1>5, PlaceFactsPrime, PlaceFacts DEF PlaceLaws
    <3> QED
      BY <3>1, <3>2, <3>3, <3>4
  <2> QED
    BY <2>1, <2>2, PlaceFacts DEF PlaceLaws
<1>7. ASSUME NEW p \in Owners \ R
      PROVE  p \in Owners' /\ Held(p)' = Held(p)
  <2>1. p \in Places /\ Held(p) > 0
    BY PlaceFacts DEF PlaceLaws
  <2>2. p \in Places' /\ Held(p)' = Held(p)
    <3>1. ASSUME NEW i \in DOMAIN vals, p = <<"value", i, 0>>
          PROVE  p \in Places' /\ Held(p)' = Held(p)
      <4>1. i \in DOMAIN vals' /\ vals'[i] = vals[i]
        <5>1. i # m
          BY <3>1
        <5> QED
          BY <5>1, <1>4
      <4>2. Held(<<"value", i, 0>>)' = vals'[i] /\ (<<"value", i, 0>> \in Places)'
        BY <4>1, PlaceFactsPrime
      <4>3. Held(<<"value", i, 0>>) = vals[i]
        BY PlaceFacts DEF PlaceLaws
      <4> QED
        BY ONLY <4>1, <4>2, <4>3, <3>1
    <3>2. ASSUME NEW a \in Alive, NEW i \in DOMAIN KidsOf(a), p = <<"field", a, i>>
          PROVE  p \in Places' /\ Held(p)' = Held(p)
      <4>1. a \in Alive' /\ i \in DOMAIN heap'[a].kids /\ heap'[a].kids[i] = KidsOf(a)[i]
        <5>1. CASE a = v
          <6>1. i \in 1..n /\ i \in 1..(n + 1)
            BY <5>1, <3>2, <1>2
          <6> QED
            BY <5>1, <6>1, <1>1, <1>2
        <5>2. CASE a # v
          BY <5>2, <1>1
        <5> QED
          BY <5>1, <5>2
      <4>2. Held(<<"field", a, i>>)' = heap'[a].kids[i] /\ (<<"field", a, i>> \in Places)'
        BY <4>1, PlaceFactsPrime
      <4>3. Held(<<"field", a, i>>) = KidsOf(a)[i]
        BY PlaceFacts DEF PlaceLaws
      <4> QED
        BY ONLY <4>1, <4>2, <4>3, <3>2
    <3>3. \A j \in DOMAIN todo : Releasing(todo[j]) => FALSE
      BY <1>3, PlaceFacts DEF PlaceLaws
    <3>4. \/ \E i \in DOMAIN vals : p = <<"value", i, 0>>
          \/ \E a \in Alive : \E i \in DOMAIN KidsOf(a) : p = <<"field", a, i>>
          \/ p = <<"program", 0, 0>> \/ p = <<"st", 0, 0>>
      BY <2>1, <3>3, PlaceFacts DEF PlaceLaws
    <3>5. \A q : q = <<"program", 0, 0>> \/ q = <<"st", 0, 0>>
            => q \in Places' /\ Held(q)' = Held(q)
      BY <1>5, PlaceFactsPrime, PlaceFacts DEF PlaceLaws
    <3> QED
      BY <3>1, <3>2, <3>4, <3>5
  <2> QED
    BY <2>1, <2>2, PlaceFactsPrime
<1>8. /\ \A p \in G : Held(p)' = x
      /\ x > 0 => <<"field", v, n + 1>> \in Owners'
  <2>1. n + 1 \in 1..(n + 1)
    OBVIOUS
  <2>2. Held(<<"field", v, n + 1>>)' = x /\ (<<"field", v, n + 1>> \in Places)'
    BY <2>1, <1>1, <1>2, <1>4, PlaceFactsPrime
  <2> QED
    BY <2>2, PlaceFactsPrime
<1>9. /\ \A r \in R : Held(r) = x
      /\ x > 0 => <<"value", m, 0>> \in Owners
  <2>1. m \in DOMAIN vals
    BY <1>4
  <2>2. Held(<<"value", m, 0>>) = x /\ <<"value", m, 0>> \in Places
    BY <2>1, <1>4, PlaceFacts DEF PlaceLaws
  <2> QED
    BY <2>2, PlaceFacts DEF PlaceLaws
<1>10. \A p \in Owners' : Held(p)' > 0
  BY PlaceFactsPrime
<1>11. ASSUME NEW p \in G \cap Owners'
       PROVE  \E r \in R \cap Owners : Held(r) = Held(p)'
  BY <1>8, <1>9, <1>10
<1>12. ASSUME NEW a \in Alive'
       PROVE  \/ \E p \in G \cap Owners' : Held(p)' = a
              \/ a \in Alive /\ \A r \in R \cap Owners : Held(r) # a
  <2>1. a \in Alive /\ a > 0
    BY <1>1, <1>3 DEF Address
  <2>2. CASE a = x
    BY <2>1, <2>2, <1>8
  <2>3. CASE a # x
    BY <2>1, <2>3, <1>9
  <2> QED
    BY <2>2, <2>3
<1>13. \A p, q \in G \cap Owners' : p = q
  OBVIOUS
<1>14. /\ fresh' \in Nat /\ fresh <= fresh' /\ Alive' \subseteq Address' /\ causes \subseteq causes'
       /\ Alive \ Alive' = {} /\ \A a \in Alive' : a <= fresh => a \in Alive /\ heap'[a].tag = heap[a].tag
  BY <1>1, <1>3, <1>5
<1> HIDE DEF R, G
<1> QED
  BY ONLY <1>3, <1>6, <1>7, <1>11, <1>12, <1>13, <1>14, Transfer, SMTT(40)

LEMMA ExtendGrounded ==
  ASSUME Memory, Parsing, NEW v, NEW x, NEW m, Extends(v, x, m)
  PROVE  Grounded'
<1>1. Alive' = Alive /\ \A a \in Alive : a # v => heap'[a].kids = KidsOf(a)
  BY Extended
<1>2. PICK n \in Nat : /\ DOMAIN KidsOf(v) = 1..n /\ DOMAIN heap'[v].kids = 1..(n + 1)
                       /\ heap'[v].kids[n + 1] = x
                       /\ \A i \in 1..n : heap'[v].kids[i] = KidsOf(v)[i]
  BY Extended DEF Longer
<1>3. /\ x # v /\ v \in Alive /\ GroundedOn(Alive)
      /\ \A a \in Alive : \A i \in DOMAIN KidsOf(a) : KidsOf(a)[i] # v
  BY Extended DEF Memory, Grounded, Extends
<1>4. \A a \in Alive : \A i \in DOMAIN heap'[a].kids : heap'[a].kids[i] # v
  <2> SUFFICES ASSUME NEW a \in Alive, NEW i \in DOMAIN heap'[a].kids
               PROVE  heap'[a].kids[i] # v
    OBVIOUS
  <2>1. CASE a # v
    BY <2>1, <1>1, <1>3
  <2>2. CASE a = v /\ i = n + 1
    BY <2>2, <1>2, <1>3
  <2>3. CASE a = v /\ i # n + 1
    <3>1. i \in 1..n
      BY ONLY <2>3, <1>2, i \in DOMAIN heap'[a].kids
    <3> QED
      BY <3>1, <2>3, <1>2, <1>3
  <2> QED
    BY <2>1, <2>2, <2>3
<1>5. ASSUME NEW S \in SUBSET Alive, S # {}
      PROVE  \E a \in S : \A b \in S : \A i \in DOMAIN heap'[b].kids : heap'[b].kids[i] # a
  <2>1. CASE v \in S
    BY <2>1, <1>4
  <2>2. CASE v \notin S
    <3>1. PICK a \in S : ~Into(a, S)
      BY <1>3, <1>5 DEF GroundedOn
    <3>2. \A b \in S : heap'[b].kids = KidsOf(b)
      BY <1>1, <2>2
    <3> QED
      BY <3>1, <3>2 DEF Into
  <2> QED
    BY <2>1, <2>2
<1>6. \A S \in SUBSET Alive' : S # {} => \E a \in S : ~Into(a, S)'
  <2> SUFFICES ASSUME NEW S \in SUBSET Alive, S # {}
               PROVE  \E a \in S : ~Into(a, S)'
    BY <1>1
  <2>1. PICK a \in S : \A b \in S : \A i \in DOMAIN heap'[b].kids : heap'[b].kids[i] # a
    BY <1>5
  <2>2. ~Into(a, S)'
    BY <2>1 DEF Into, KidsOf
  <2> QED
    BY <2>2
<1> QED
  BY ONLY <1>6 DEF Grounded, GroundedOn

(* The lists an element is added to *)
ListTags == {"free", "free_*", "path"}
LEMMA ListKinds ==
  ASSUME NEW v, NEW x, NEW list, NEW element, Adds(list, element), Is(v, list), Is(x, element)
  PROVE  /\ v \in Alive /\ heap[v].tag \in ListTags
         /\ list # "operator" /\ element # "operator" /\ list \in Kind /\ element \in Kind
         /\ heap[v].tag = "free" => list = "names" /\ element = "string"
         /\ list = "names" => Tagged(v, "free")
         /\ list = "path" => Tagged(v, "path")
         /\ list = "list" => Tagged(v, "free_*")
         /\ list = "fields" => ListOf(v, "record_field") /\ Tagged(x, "record_field")
         /\ list = "formals" => ListOf(v, "decls") /\ Tagged(x, "decls")
         /\ list \in {"names", "path", "list", "fields", "formals"}
<1>1. list \in {"names", "path", "list", "fields", "formals"}
  BY DEF Adds
<1>2. list # "operator" /\ element # "operator" /\ list \in Kind /\ element \in Kind
  BY DEF Adds, Kind
<1>3. /\ list = "names" => Tagged(v, "free") /\ element = "string"
      /\ list = "path" => Tagged(v, "path")
      /\ list = "list" => Tagged(v, "free_*")
      /\ list = "fields" => ListOf(v, "record_field") /\ element = "field"
      /\ list = "formals" => ListOf(v, "decls") /\ element = "decls"
  BY DEF Adds, Is
<1>4. /\ element = "field" => Tagged(x, "record_field")
      /\ element = "decls" => Tagged(x, "decls")
  BY DEF Is
<1>5. ListOf(v, "record_field") \/ ListOf(v, "decls") => Tagged(v, "free_*")
  BY DEF ListOf
<1> QED
  BY <1>1, <1>2, <1>3, <1>4, <1>5 DEF Tagged, ListTags

LEMMA ExtendShape ==
  ASSUME Memory, Parsing, NEW v, NEW x, NEW m, Extends(v, x, m),
         NEW list, NEW element, Adds(list, element), Is(v, list), Is(x, element)
  PROVE  Shape' /\ Is(v, list)'
<1>1. /\ Alive' = Alive /\ \A a \in Alive : heap'[a].tag = heap[a].tag
      /\ \A a \in Alive : a # v => heap'[a].kids = KidsOf(a)
  BY Extended
<1>2. PICK n \in Nat : /\ DOMAIN KidsOf(v) = 1..n /\ DOMAIN heap'[v].kids = 1..(n + 1)
                       /\ heap'[v].kids[n + 1] = x
                       /\ \A i \in 1..n : heap'[v].kids[i] = KidsOf(v)[i]
  BY Extended DEF Longer
<1>3. /\ x # v /\ v \in Alive /\ TypeOK /\ Shape /\ IsSeq(todo)
      /\ (\A a \in Alive : \A i \in DOMAIN KidsOf(a) : KidsOf(a)[i] # v)
  BY Extended, ParsingTasks DEF Memory, Extends
<1>4. \A y, kind : y # v /\ Is(y, kind) => Is(y, kind)'
  BY ExtendedKeeps DEF ExtendsKeeps
<1>5. /\ heap[v].tag \in ListTags /\ (heap[v].tag = "free" => element = "string")
      /\ list = "names" => Tagged(v, "free")
      /\ list = "path" => Tagged(v, "path")
      /\ list = "list" => Tagged(v, "free_*")
      /\ list = "fields" => ListOf(v, "record_field") /\ Tagged(x, "record_field")
      /\ list = "formals" => ListOf(v, "decls") /\ Tagged(x, "decls")
      /\ list \in {"names", "path", "list", "fields", "formals"}
  BY ListKinds
<1>6. \A i \in 1..(n + 1) : i = n + 1 \/ i \in 1..n
  OBVIOUS
<1>7. \A a \in Alive : Shaped(a)
  BY ParsingTasks, <1>3 DEF Shape, Emptied
<1>8. ASSUME NEW a \in Alive', a # v
      PROVE  Shaped(a)'
  <2>1. a \in Alive /\ Shaped(a) /\ heap'[a].tag = heap[a].tag /\ heap'[a].kids = KidsOf(a)
    BY <1>1, <1>7, <1>8
  <2>2. KidsOf(a) \in Seq(References)
    BY <2>1, <1>3 DEF TypeOK
  <2>3. \A i \in DOMAIN KidsOf(a), kind \in Kind : Is(KidsOf(a)[i], kind) => Is(KidsOf(a)[i], kind)'
    <3> TAKE i \in DOMAIN KidsOf(a), kind \in Kind
    <3>1. PICK y : y = KidsOf(a)[i]
      OBVIOUS
    <3>2. y # v
      BY <3>1, <2>1, <1>3
    <3>3. Is(y, kind) => Is(y, kind)'
      BY <3>2, <1>4
    <3>4. y = KidsOf(a)'[i]
      BY <3>1, <2>1 DEF KidsOf
    <3> QED
      BY <3>1, <3>3, <3>4
  <2> QED
    BY ONLY <2>1, <2>2, <2>3, <1>8, ShapedKept
<1>9. Shaped(v)'
  <2>1. heap'[v].tag = heap[v].tag /\ \A layout \in Layouts : layout[1] \notin ListTags
    BY <1>1, <1>3 DEF Layouts, ListTags
  <2>2. ASSUME heap[v].tag = "free", NEW i \in 1..(n + 1)
        PROVE  Is(KidsOf(v)[i], "string")'
    <3>1. PICK y : y = heap'[v].kids[i]
      OBVIOUS
    <3>2. CASE i = n + 1
      BY <3>1, <3>2, <2>2, <1>2, <1>3, <1>4, <1>5 DEF KidsOf
    <3>3. CASE i \in 1..n
      <4>1. y = KidsOf(v)[i] /\ y # v /\ Is(y, "string")
        <5>1. Shaped(v) /\ i \in DOMAIN KidsOf(v) /\ y = KidsOf(v)[i]
          BY <3>1, <3>3, <1>2, <1>3, <1>7
        <5>2. Is(KidsOf(v)[i], "string")
          BY <5>1, <2>2 DEF Shaped
        <5> QED
          BY <5>1, <5>2, <1>3
      <4> QED
        BY <4>1, <3>1, <1>4 DEF KidsOf
    <3> QED
      BY <3>2, <3>3, <2>2, <1>6
  <2> QED
    BY <2>1, <2>2, <1>2, <1>5 DEF Shaped, ListTags, KidsOf
<1>10. Shape'
  BY <1>8, <1>9 DEF Shape
<1>11. \A y, tag : Tagged(y, tag) => Tagged(y, tag)'
  BY <1>1 DEF Tagged
<1>12. ASSUME NEW tag, ListOf(v, tag), Tagged(x, tag)
       PROVE  ListOf(v, tag)'
  <2>1. Tagged(v, "free_*")'
    BY <1>11, <1>12 DEF ListOf
  <2>2. ASSUME NEW i \in 1..(n + 1)
        PROVE  Tagged(heap'[v].kids[i], tag)
    <3>1. CASE i = n + 1
      BY <3>1, <1>2, <1>12
    <3>2. CASE i \in 1..n
      BY <3>2, <1>2, <1>12 DEF ListOf
    <3> QED
      BY <3>1, <3>2, <1>6
  <2>3. ASSUME NEW i \in 1..(n + 1)
        PROVE  Tagged(KidsOf(v)[i], tag)'
    <3>1. PICK y : y = heap'[v].kids[i]
      OBVIOUS
    <3>2. Tagged(y, tag)'
      BY <3>1, <2>2, <1>11
    <3> QED
      BY <3>1, <3>2 DEF KidsOf
  <2> QED
    BY <2>1, <2>3, <1>2 DEF ListOf, KidsOf
<1>13. Is(v, list)'
  <2>1. /\ list = "names" => Tagged(v, "free")'
        /\ list = "path" => Tagged(v, "path")'
        /\ list = "list" => Tagged(v, "free_*")'
        /\ list = "fields" => ListOf(v, "record_field")'
        /\ list = "formals" => ListOf(v, "decls")'
    BY <1>5, <1>11, <1>12
  <2> QED
    BY <2>1, <1>5 DEF Is
<1> QED
  BY <1>10, <1>13

LEMMA AddToListSound ==
  ASSUME Sound, AddToList
  PROVE  Sound'
<1>1. /\ phase = "run" /\ todo # <<>> /\ Head(todo)[1] = "add" /\ Then(<<>>)
      /\ heap' = [heap EXCEPT ![Top(2)[1]].kids = Append(@, Top(1)[1])]
      /\ vals' = Below(1)
      /\ UNCHANGED <<fresh, program, st, room, phase, causes>>
  BY DEF AddToList, At
<1>2. Memory /\ Parsing /\ IsSeq(todo)
  BY <1>1, Stages DEF ParseTasks
<1>3. /\ TypeOK /\ fresh \in Nat /\ IsSeq(vals) /\ Len(vals) \in Nat
      /\ causes = {} /\ st = NULL
  BY <1>2 DEF Memory, TypeOK, IsSeq, Parsing
<1>4. Head(todo)[1] \notin {"accept", "end"} /\ Head(todo) # Parse("program")
  BY <1>1, TwoFirst DEF Parse
<1>5. /\ program = NULL /\ \A a \in Alive : heap[a].tag # "program"
      /\ \E w, s, t : Ahead(w, t) /\ Fields(vals, s) /\ Step(Head(todo), s, t)
  BY <1>2, <1>4, ParsingNext
<1>6. PICK w, s, t : Ahead(w, t) /\ Fields(vals, s) /\ Step(Head(todo), s, t)
  BY <1>5
<1>7. StepsBy(Head(todo), s, t)
  BY <1>6, StepInverse
<1>8. PICK list, element :
        \E r \in Stack :
          Adds(list, element) /\ s = r \o <<list, element>> /\ t = Append(r, list)
  BY ONLY <1>1, <1>7, Zenon DEF StepsBy
<1>9. PICK r \in Stack :
        Adds(list, element) /\ s = r \o <<list, element>> /\ t = Append(r, list)
  BY <1>8
<1>10. PICK n, m, v, x : n = Len(r) /\ m = Len(vals) /\ v = vals[m - 1] /\ x = vals[m]
  OBVIOUS
<1>11. /\ list \in Kind /\ element \in Kind /\ element # "operator"
  BY <1>9 DEF Adds, Kind
<1>12. /\ n \in Nat /\ m = n + 2 /\ (\A i \in 1..n : Is(vals[i], r[i]))
       /\ Is(v, list) /\ Is(x, element)
  <2>1. PICK kinds : kinds = <<list, element>>
    OBVIOUS
  <2>2. kinds \in Stack /\ Len(kinds) = 2 /\ kinds[1] = list /\ kinds[2] = element
    BY <2>1, <1>11 DEF Stack
  <2>3. Fields(vals, r \o kinds)
    BY <1>6, <1>9, <2>1
  <2>4. /\ Len(r) \in Nat /\ Len(vals) = Len(r) + 2
        /\ \A i \in 1..Len(r) : Is(vals[i], r[i])
        /\ \A i \in 1..2 : Is(vals[Len(r) + i], kinds[i])
    BY ONLY <1>3, <2>2, <2>3, r \in Stack, FieldsSplit
  <2>5. 1 \in 1..2 /\ 2 \in 1..2 /\ m - 1 = Len(r) + 1 /\ m = Len(r) + 2
    BY ONLY <1>10, <2>4
  <2>6. Is(vals[Len(r) + 1], kinds[1]) /\ Is(vals[Len(r) + 2], kinds[2])
    BY ONLY <2>4, <2>5
  <2> QED
    BY ONLY <2>2, <2>4, <2>5, <2>6, <1>10
<1>13. v \in Alive /\ x \in 0..fresh
  <2>1. v \in Alive
    BY <1>9, <1>12, ListKinds
  <2> QED
    BY <2>1, <1>3, <1>11, <1>12, NoOperator
<1>14. Top(2)[1] = v /\ Top(1)[1] = x
  <2>1. 1 \in 0..Len(vals) /\ 2 \in 0..Len(vals) /\ 1 \in 1..1 /\ 1 \in 1..2
    BY <1>10, <1>12
  <2>2. Top(2)[1] = vals[Len(vals) - 2 + 1]
    BY ONLY <2>1, <1>3, TopOf
  <2>3. Top(1)[1] = vals[Len(vals) - 1 + 1]
    BY ONLY <2>1, <1>3, TopOf
  <2>4. m - 2 + 1 = m - 1 /\ m - 1 + 1 = m
    BY <1>12
  <2> QED
    BY <2>2, <2>3, <2>4, <1>10
<1>15. IsSeq(vals') /\ Len(vals') = m - 1 /\ \A i \in 1..(m - 1) : vals'[i] = vals[i]
  <2>1. PICK S : vals \in Seq(S)
    BY <1>3 DEF IsSeq
  <2>2. PICK last : last = m - 1
    OBVIOUS
  <2>3. 1 \in Int /\ last \in Nat /\ last >= 1
    BY <1>12, <2>2
  <2>4. \A i \in 1..last : vals[i] \in S
    <3>1. last <= Len(vals) /\ last \in Nat
      BY <2>2, <1>10, <1>12
    <3> QED
      BY ONLY <3>1, <2>1
  <2>5. vals' = SubSeq(vals, 1, last)
    BY <1>1, <1>10, <2>2 DEF Below
  <2>6. /\ vals' \in Seq(S) /\ Len(vals') = (IF 1 <= last THEN last - 1 + 1 ELSE 0)
        /\ \A i \in 1..(last - 1 + 1) : vals'[i] = vals[1 + i - 1]
    BY ONLY <2>3, <2>4, <2>5, PartOf
  <2>7. last - 1 + 1 = last /\ \A i \in 1..last : 1 + i - 1 = i
    BY <2>3
  <2> QED
    BY <2>2, <2>3, <2>6, <2>7 DEF IsSeq
<1>16. todo' = Tail(todo)
  BY <1>1, <1>2, SeqFacts, Concatenated DEF Then
<1>17. IsSeq(w) /\ t \in Stack /\ todo' = w \o <<ACCEPT, END>> /\ Run(w, t, ProgramKinds)
  BY <1>6, <1>16 DEF Ahead
<1>18. IsSeq(todo') /\ \A i \in DOMAIN todo' : ~Releasing(todo'[i])
  BY ONLY <1>17, Ready
<1>19. heap' = [heap EXCEPT ![v].kids = Append(@, x)]
  BY <1>1, <1>14
<1>20. Extends(v, x, m)
  <2>1. m \in Nat /\ m >= 2 /\ Len(vals) = m /\ vals[m - 1] = v /\ vals[m] = x
    BY <1>10, <1>12
  <2>2. /\ fresh' = fresh /\ program' = program /\ st' = st /\ room' = room
        /\ phase' = phase /\ causes' = causes
    BY <1>1
  <2> QED
    BY ONLY <2>1, <2>2, <1>13, <1>15, <1>18, <1>19 DEF Extends
<1>21. /\ TypeOK' /\ Records' /\ Alive' = Alive /\ v > 0
       /\ \A a \in Alive : heap'[a].tag = heap[a].tag
  BY ONLY <1>2, <1>20, Extended
<1>22. Owned' /\ Grounded'
  BY ONLY <1>2, <1>20, ExtendOwned, ExtendGrounded
<1>23. Shape' /\ Is(v, list)'
  BY ONLY <1>2, <1>9, <1>12, <1>20, ExtendShape
<1>24. Memory'
  <2>1. program' = NULL /\ st' = NULL /\ causes' = {}
    BY <1>1, <1>3, <1>5
  <2>2. Rooted' /\ Stabbed' /\ (causes \subseteq Shares)'
    BY <2>1 DEF Rooted, Stabbed
  <2> QED
    BY <2>2, <1>21, <1>22, <1>23 DEF Memory
<1>25. Fields(vals, t)'
  <2>1. t = Append(r, list) /\ Len(t) = n + 1 /\ t[n + 1] = list /\ \A i \in 1..n : t[i] = r[i]
    BY ONLY <1>9, <1>10, <1>11, r \in Stack DEF Stack
  <2>2. Len(vals') = n + 1 /\ vals'[n + 1] = v /\ \A i \in 1..n : vals'[i] = vals[i] /\ vals[i] # v
    <3>1. m - 1 = n + 1 /\ n + 1 \in 1..(m - 1)
      BY <1>12
    <3>2. ASSUME NEW i \in 1..n
          PROVE  vals[i] # v
      <4>1. i \in 1..Len(vals) /\ m - 1 \in 1..Len(vals) /\ i # m - 1
        BY <1>10, <1>12
      <4> QED
        BY ONLY <4>1, <1>2, <1>3, <1>10, <1>21, Distinct
    <3>3. \A i \in 1..n : i \in 1..(m - 1)
      BY <1>12
    <3> QED
      BY ONLY <3>1, <3>2, <3>3, <1>10, <1>15
  <2>3. \A y, kind : y # v /\ Is(y, kind) => Is(y, kind)'
    BY ONLY <1>2, <1>20, ExtendedKeeps DEF ExtendsKeeps
  <2>4. ASSUME NEW i \in 1..(n + 1)
        PROVE  Is(vals[i], t[i])'
    <3>1. CASE i = n + 1
      BY <3>1, <2>1, <2>2, <1>23
    <3>2. CASE i # n + 1
      <4>1. i \in 1..n
        BY <3>2, <1>12
      <4>2. PICK y : y = vals[i]
        OBVIOUS
      <4>3. vals'[i] = y /\ y # v /\ Is(y, t[i])
        BY <4>1, <4>2, <1>12, <2>1, <2>2
      <4>4. Is(y, t[i])'
        BY <4>3, <2>3
      <4> QED
        BY <4>3, <4>4
    <3> QED
      BY <3>1, <3>2
  <2> QED
    BY ONLY <2>1, <2>2, <2>4 DEF Fields
<1>26. Parsing'
  <2>1. ParsingIs(w, t)'
    BY <1>17, <1>25 DEF ParsingIs
  <2>2. program' = NULL /\ st' = NULL /\ causes' = {}
    BY <1>1, <1>3, <1>5
  <2>3. \A a \in Alive' : heap'[a].tag # "program"
    BY <1>5, <1>21
  <2> QED
    BY ONLY <2>1, <2>2, <2>3 DEF Parsing
<1>27. TypeOK' /\ NoMisuse' /\ phase' = "run"
  BY <1>1, <1>21 DEF NoMisuse
<1> QED
  BY <1>24, <1>26, <1>27 DEF Sound

-----------------------------------------------------------------------------
(* Every state of a compilation is sound. *)

LEMMA StutterSound ==
  ASSUME Sound, UNCHANGED own
  PROVE  Sound'
<1>1. /\ heap' = heap /\ fresh' = fresh /\ vals' = vals /\ program' = program /\ st' = st
      /\ todo' = todo /\ room' = room /\ phase' = phase /\ causes' = causes
  BY DEF own
<1>2. TypeOK' /\ NoMisuse'
  BY <1>1 DEF Sound, TypeOK, NoMisuse, Alive, Address, References, KidsOf
<1>3. /\ Alive' = Alive /\ Address' = Address /\ References' = References
      /\ \A a : KidsOf(a)' = KidsOf(a)
  BY <1>1 DEF Alive, Address, References, KidsOf
<1>4. \A v, kind : Is(v, kind)' <=> Is(v, kind)
  BY <1>1, <1>3 DEF Is, IsString, IsType, ListOf, Tagged
<1>5. \A values, kinds : Fields(values, kinds)' <=> Fields(values, kinds)
  BY <1>4 DEF Fields
<1>6. Owned => Owned'
  <2>1. Places' = Places /\ \A p : Held(p)' = Held(p)
    BY <1>1, <1>3 DEF Places, Held
  <2>2. Owners' = Owners
    BY <2>1 DEF Owners
  <2> QED
    BY <2>1, <2>2, <1>1, <1>3 DEF Owned, IsString
<1>7. Shape => Shape'
  BY <1>1, <1>3, <1>4, <1>5 DEF Shape, Emptied, Shaped
<1>8. Grounded => Grounded'
  BY <1>1, <1>3 DEF Grounded, GroundedOn, Into
<1>9. Records /\ Rooted /\ Stabbed => (Records /\ Rooted /\ Stabbed)'
  BY <1>1, <1>3 DEF Records, Rooted, Stabbed, Tagged
<1>10. Memory => Memory'
  BY <1>1, <1>2, <1>6, <1>7, <1>8, <1>9 DEF Memory
<1>11. Dumping => Dumping'
  BY <1>1, <1>3, Zenon DEF Dumping
<1>12. Parsing => Parsing'
  BY <1>1, <1>3, <1>5 DEF Parsing, ParsingIs
<1>13. Later => Later'
  <2>1. \A task : Good(task)' <=> Good(task)
    BY <1>1, <1>3, <1>4, ZenonT(60) DEF Good, Apart, IsString
  <2> QED
    BY <2>1, <1>1 DEF Later, Ending, Ordered
<1> QED
  BY <1>1, <1>2, <1>10, <1>11, <1>12, <1>13 DEF Sound

LEMMA NextSound ==
  ASSUME Sound, Next
  PROVE  Sound'
<1>1. \/ DumpToken \/ EndDump
      \/ Derive \/ Repeat \/ Shift \/ BuildNode \/ AddToList \/ BuildSubprogram \/ Accept
      \/ SyntaxError \/ Parsed \/ FreeProgram \/ StabFree \/ Return
      \/ FreeNode \/ Free \/ Skip \/ PrintNode \/ Use
      \/ AnalyzeProgram \/ Import \/ AnalyzeTypeDecl \/ AddVar \/ AnalyzeDecls
      \/ ResolveSimple \/ ResolveNested \/ ResolveRecord
      \/ AnalyzeSubprogram \/ Formals \/ AnalyzeFor \/ AnalyzeAddrof \/ AnalyzeParts
      \/ SemanticError \/ ReadUnknownType \/ CompareVoid \/ Misuse
  BY Zenon DEF Next
<1>2. DumpToken \/ EndDump => Sound'
  BY DumpTokenSound, EndDumpSound
<1>3. Derive \/ Repeat \/ Shift \/ BuildNode => Sound'
  BY DeriveSound, RepeatSound, ShiftSound, BuildNodeSound
<1>4. AddToList \/ BuildSubprogram \/ Accept => Sound'
  BY AddToListSound, BuildSubprogramSound, AcceptSound
<1>5. SyntaxError \/ Parsed \/ FreeProgram \/ StabFree \/ Return => Sound'
  BY SyntaxErrorSound, ParsedSound, FreeProgramSound, StabFreeSound, ReturnSound
<1>6. FreeNode \/ Free \/ Skip \/ PrintNode \/ Use => Sound'
  BY FreeNodeSound, FreeSound, SkipSound, PrintNodeSound, UseSound
<1>7. AnalyzeProgram \/ Import \/ AnalyzeTypeDecl \/ AddVar \/ AnalyzeDecls => Sound'
  BY AnalyzeProgramSound, ImportSound, AnalyzeTypeDeclSound, AddVarSound, AnalyzeDeclsSound
<1>8. ResolveSimple \/ ResolveNested \/ ResolveRecord => Sound'
  BY ResolveSimpleSound, ResolveNestedSound, ResolveRecordSound
<1>9. AnalyzeSubprogram \/ Formals \/ AnalyzeFor \/ AnalyzeAddrof \/ AnalyzeParts => Sound'
  BY AnalyzeSubprogramSound, FormalsSound, AnalyzeForSound, AnalyzeAddrofSound, AnalyzePartsSound
<1>10. SemanticError \/ ReadUnknownType \/ CompareVoid \/ Misuse => Sound'
  BY SemanticErrorSound, ReadUnknownTypeSound, CompareVoidSound, MisuseSound
<1> QED
  BY ONLY <1>1, <1>2, <1>3, <1>4, <1>5, <1>6, <1>7, <1>8, <1>9, <1>10

(* What the parser has on its stack fits the rule it is in, the walks over *)
(* the tree look into nodes of the kind they expect, every node has its    *)
(* owner and no circle of nodes exists: the state the functions of ast.c,  *)
(* parser.y, analysis.c and symbol.c leave to each other, as long as       *)
(* compile_input runs. *)
THEOREM SoundAlways == Spec => []Sound
<1>1. Init => Sound
  BY InitSound
<1>2. Sound /\ [Next]_own => Sound'
  BY NextSound, StutterSound
<1> QED
  BY <1>1, <1>2, PTL DEF Spec

(* No pointer to a node is an operator, and none leads to an address that  *)
(* was never handed out: an expression keeps its operator by value and its *)
(* operands as fields (ast_expr), and every field is a value the parser    *)
(* took off its stack. *)
THEOREM TypesAlways == Spec => []TypeOK
<1>1. Sound => TypeOK
  BY DEF Sound
<1> QED
  BY <1>1, SoundAlways, PTL

LEMMA SoundOneOwner == Sound => OneOwner
<1> SUFFICES ASSUME Sound, phase \in {"run", "done"}, causes = {}
             PROVE  /\ \A p, q \in Owners : Held(p) = Held(q) => p = q
                    /\ {Held(p) : p \in Owners} = Alive
  BY DEF OneOwner
<1>1. Owned
  BY DEF Sound, Memory
<1> QED
  BY <1>1 DEF Owned

(* Whatever program is compiled, and however large: unless it has a type   *)
(* declaration or a FOR (or an unknown type was kept), everything          *)
(* allocated has exactly one owner among                                   *)
(* the parser's stack, the driver, the calls that release something and    *)
(* the fields of nodes, and no owner dangles, between any two steps of     *)
(* parser, printers, destructors and analysis. *)
THEOREM OneOwnerAlways == Spec => []OneOwner
<1> QED
  BY SoundAlways, SoundOneOwner, PTL

(* Whatever program is compiled: nothing is read or freed that is not      *)
(* allocated, by analysis.c, symbol.c, ast.c or the parser's destructors,  *)
(* except after a type declaration or a FOR was analyzed, at an unknown    *)
(* type or at a comparison of two results of type void. *)
THEOREM NoMisuseAlways == Spec => []NoMisuse
<1>1. Sound => NoMisuse
  BY DEF Sound
<1> QED
  BY <1>1, SoundAlways, PTL

LEMMA SoundAllFreed == Sound => AllFreed
<1> SUFFICES ASSUME Sound, phase = "done"
             PROVE  heap = <<>>
  BY DEF AllFreed
<1>1. Memory /\ vals = <<>> /\ todo = <<>> /\ program = NULL /\ st = NULL
  BY DEF Sound
<1>2. TypeOK /\ Records /\ Owned /\ GroundedOn(Alive)
  BY <1>1 DEF Memory, Grounded
<1>3. ASSUME NEW a \in Alive
      PROVE  Into(a, Alive)
  <2>1. PICK p \in Owners : Held(p) = a
    BY <1>2 DEF Owned
  <2>2. p \in Places /\ Held(p) > 0
    BY PlaceFacts DEF PlaceLaws
  <2>3. Held(<<"program", 0, 0>>) = 0 /\ Held(<<"st", 0, 0>>) = 0
    BY <1>1, PlaceFacts DEF PlaceLaws, NULL
  <2>4. DOMAIN vals = {} /\ DOMAIN todo = {}
    BY <1>1
  <2>5. PICK b \in Alive : \E i \in DOMAIN KidsOf(b) : p = <<"field", b, i>>
    BY <2>2, <2>3, <2>4, PlaceFacts DEF PlaceLaws
  <2>6. PICK i \in DOMAIN KidsOf(b) : p = <<"field", b, i>>
    BY <2>5
  <2>7. KidsOf(b)[i] = a
    BY <2>1, <2>6, PlaceFacts DEF PlaceLaws
  <2> QED
    BY <2>7 DEF Into
<1>4. Alive = {}
  BY <1>2, <1>3 DEF GroundedOn
<1>5. heap = [a \in {} |-> Node(heap[a].tag, heap[a].kids)]
  BY <1>2, <1>4 DEF Records
<1> QED
  BY <1>5

(* Whatever program is compiled, with whichever options: when              *)
(* compile_input returns, after a syntax error too, everything that lexer, *)
(* parser and symbol table allocated has been freed. *)
THEOREM AllFreedAlways == Spec => []AllFreed
<1> QED
  BY SoundAlways, SoundAllFreed, PTL
=============================================================================
