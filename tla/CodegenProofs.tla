--------------------------- MODULE CodegenProofs ----------------------------
(***************************************************************************)
(* Proofs about Codegen, for any callee, any bounds and any program:       *)
(* what the registers and the words of the stack may hold, that the        *)
(* allocator and the operands agree on who owns which register, that       *)
(* instructions read the operands computed for them, and that a statement  *)
(* leaves the stack as it found it.                                        *)
(***************************************************************************)
EXTENDS Codegen, FiniteSetTheorems, SequenceTheorems, TLAPS

-----------------------------------------------------------------------------
(* What the operations on the machine return. *)

(* push *)
LEMMA PushType ==
  ASSUME NEW T, NEW s \in Machine(T), NEW tok \in T
  PROVE  /\ Push(s, tok) \in Machine(T)
         /\ Push(s, tok).used = s.used /\ Push(s, tok).overflow = s.overflow
         /\ Push(s, tok).regs = s.regs /\ Push(s, tok).stack = Append(s.stack, tok)
<1>1. s.stack \in Seq(T) /\ Append(s.stack, tok) \in Seq(T)
  BY DEF Machine
<1>2. Push(s, tok) = [used |-> s.used, overflow |-> s.overflow, regs |-> s.regs,
                      stack |-> Append(s.stack, tok)]
  BY DEF Push, Machine
<1> QED
  BY <1>1, <1>2 DEF Machine

(* mov *)
LEMMA SetType ==
  ASSUME NEW T, NEW s \in Machine(T), NEW r \in Reg, NEW tok \in T
  PROVE  /\ Set(s, r, tok) \in Machine(T)
         /\ Set(s, r, tok).used = s.used /\ Set(s, r, tok).overflow = s.overflow
         /\ Set(s, r, tok).regs = [s.regs EXCEPT ![r] = tok]
         /\ Set(s, r, tok).stack = s.stack
BY DEF Set, Machine

(* pop, from an empty stack too *)
LEMMA PopType ==
  ASSUME NEW T, NEW s \in Machine(T), NEW r \in Reg, 0 \in T
  PROVE  Pop(s, r) \in Machine(T) /\ Pop(s, r).used = s.used
         /\ Pop(s, r).overflow = s.overflow
<1>1. CASE s.stack = <<>>
  BY <1>1 DEF Pop, Machine
<1>2. CASE s.stack # <<>>
  <2>1. s.stack \in Seq(T) /\ Len(s.stack) \in Nat \ {0} /\ s.stack[Len(s.stack)] \in T
    BY <1>2 DEF Machine
  <2>2. SubSeq(s.stack, 1, Len(s.stack) - 1) \in Seq(T)
    BY <2>1
  <2> QED
    BY <1>2, <2>1, <2>2 DEF Pop, Machine
<1> QED
  BY <1>1, <1>2

LEMMA PopWord ==
  ASSUME NEW T, NEW s \in Machine(T), NEW r \in Reg, s.stack # <<>>
  PROVE  /\ Pop(s, r).regs = [s.regs EXCEPT ![r] = s.stack[Len(s.stack)]]
         /\ Pop(s, r).stack = SubSeq(s.stack, 1, Len(s.stack) - 1)
BY DEF Pop, Machine

(* Whatever is popped, only one register changes. *)
LEMMA PopOthers ==
  ASSUME NEW T, NEW s \in Machine(T), NEW r \in Reg, NEW q \in Reg, q # r
  PROVE  Pop(s, r).regs[q] = s.regs[q]
BY DEF Pop, Machine

(* The tokens of a set are erased, the others stay where they are. *)
LEMMA ForgetType ==
  ASSUME NEW T, NEW s \in Machine(T), NEW S, 0 \in T
  PROVE  /\ Forget(s, S) \in Machine((T \ S) \cup {0})
         /\ Forget(s, S).used = s.used /\ Forget(s, S).overflow = s.overflow
         /\ \A r \in Reg : Forget(s, S).regs[r] = IF s.regs[r] \in S THEN 0 ELSE s.regs[r]
         /\ Len(Forget(s, S).stack) = Len(s.stack)
         /\ \A i \in 1..Len(s.stack) :
              Forget(s, S).stack[i] = IF s.stack[i] \in S THEN 0 ELSE s.stack[i]
<1> DEFINE TT == (T \ S) \cup {0}
           rg == [r \in Reg |-> IF s.regs[r] \in S THEN 0 ELSE s.regs[r]]
           st == [i \in DOMAIN s.stack |-> IF s.stack[i] \in S THEN 0 ELSE s.stack[i]]
<1>1. s.regs \in [Reg -> T] /\ s.stack \in Seq(T) /\ s.used \in SUBSET Reg /\ s.overflow \in Nat
  BY DEF Machine
<1>2. rg \in [Reg -> TT]
  BY <1>1
<1>3. DOMAIN s.stack = 1..Len(s.stack) /\ Len(s.stack) \in Nat
  BY <1>1
<1>4. st \in Seq(TT) /\ Len(st) = Len(s.stack)
  <2>1. \A i \in 1..Len(s.stack) : st[i] \in TT
    BY <1>1, <1>3
  <2>2. st \in [1..Len(s.stack) -> TT]
    BY <2>1, <1>3
  <2> QED
    BY <2>2, <1>3
<1>5. Forget(s, S) = [s EXCEPT !.regs = rg, !.stack = st]
  BY DEF Forget
<1>6. Forget(s, S) = [used |-> s.used, overflow |-> s.overflow, regs |-> rg, stack |-> st]
  BY <1>5 DEF Machine
<1> QED
  BY <1>1, <1>2, <1>3, <1>4, <1>6 DEF Machine

LEMMA RcxIsReg == RCX \in Reg /\ RAX \in Reg /\ RDX \in Reg /\ R11 \in Reg
BY DEF Reg, RCX, RAX, RDX, R11

(* reg_gimme, by what it finds: a free register, or none. *)
LEMMA GimmeRegType ==
  ASSUME NEW T, NEW s \in Machine(T)
  PROVE  /\ GimmeReg(s) \in Handle
         /\ GimmeReg(s).spilled <=> s.used = Reg
         /\ ~GimmeReg(s).spilled => GimmeReg(s).which \notin s.used
<1>1. s.used \in SUBSET Reg /\ s.overflow \in Nat
  BY DEF Machine
<1>2. CASE s.used = Reg
  BY <1>1, <1>2 DEF GimmeReg, Handle, Reg
<1>3. CASE s.used # Reg
  <2> DEFINE P(r) == r \in Reg \ s.used /\ \A q \in Reg \ s.used : r <= q
  <2>1. \E r \in Reg \ s.used : \A q \in Reg \ s.used : r <= q
    <3>1. \E r \in Reg : r \notin s.used
      BY <1>1, <1>3
    <3> QED
      BY <3>1, SMTT(60) DEF Reg
  <2>2. PICK r : r \in Reg \ s.used /\ r = CHOOSE x \in Reg \ s.used : \A q \in Reg \ s.used : x <= q
    BY <2>1
  <2>3. GimmeReg(s) = [which |-> r, spilled |-> FALSE]
    BY <1>3, <2>2 DEF GimmeReg
  <2> QED
    BY <1>3, <2>2, <2>3 DEF Handle
<1> QED
  BY <1>2, <1>3

(* ... and the load that follows. *)
LEMMA GimmeType ==
  ASSUME NEW T, NEW s \in Machine(T), NEW tok \in T
  PROVE  /\ Gimme(s, tok) \in Machine(T)
         /\ GimmeReg(s).spilled =>
              /\ Gimme(s, tok).used = s.used /\ Gimme(s, tok).overflow = s.overflow + 1
              /\ Gimme(s, tok).regs = [s.regs EXCEPT ![RCX] = tok]
              /\ Gimme(s, tok).stack = Append(s.stack, s.regs[RCX])
         /\ ~GimmeReg(s).spilled =>
              /\ Gimme(s, tok).used = s.used \cup {GimmeReg(s).which}
              /\ Gimme(s, tok).overflow = s.overflow
              /\ Gimme(s, tok).regs = [s.regs EXCEPT ![GimmeReg(s).which] = tok]
              /\ Gimme(s, tok).stack = s.stack
<1> DEFINE h == GimmeReg(s)
<1>1. h \in Handle
  BY GimmeRegType
<1>2. CASE h.spilled
  <2> DEFINE a == [s EXCEPT !.overflow = @ + 1]
             b == Push(a, s.regs[RCX])
  <2>1. a \in Machine(T) /\ a.used = s.used /\ a.overflow = s.overflow + 1
        /\ a.regs = s.regs /\ a.stack = s.stack /\ RCX \in Reg /\ s.regs[RCX] \in T
    BY SMTT(30) DEF Machine, RCX, Reg
  <2>2. b \in Machine(T) /\ b.used = a.used /\ b.overflow = a.overflow
        /\ b.regs = a.regs /\ b.stack = Append(a.stack, s.regs[RCX])
    <3> HIDE DEF a
    <3> QED
      BY <2>1, PushType
  <2>3. Gimme(s, tok) = Set(b, RCX, tok)
    BY <1>2 DEF Gimme
  <2> HIDE DEF a, b
  <2> QED
    BY <1>2, <2>1, <2>2, <2>3, SetType
<1>3. CASE ~h.spilled
  <2> DEFINE a == [s EXCEPT !.used = @ \cup {h.which}]
  <2>1. a \in Machine(T) /\ a.used = s.used \cup {h.which} /\ a.overflow = s.overflow
        /\ a.regs = s.regs /\ a.stack = s.stack /\ h.which \in Reg
    BY <1>1 DEF Machine, Handle
  <2>2. Gimme(s, tok) = Set(a, h.which, tok)
    BY <1>3 DEF Gimme
  <2> HIDE DEF a
  <2> QED
    BY <1>3, <2>1, <2>2, SetType
<1> QED
  BY <1>2, <1>3

(* reg_takeitback *)
LEMMA TakebackType ==
  ASSUME NEW T, NEW s \in Machine(T), NEW h \in Handle, 0 \in T,
         h.spilled => s.overflow > 0
  PROVE  /\ Takeback(s, h) \in Machine(T)
         /\ h.spilled =>
              /\ Takeback(s, h).used = s.used /\ Takeback(s, h).overflow = s.overflow - 1
              /\ Takeback(s, h).regs = Pop(s, RCX).regs
              /\ Takeback(s, h).stack = Pop(s, RCX).stack
         /\ ~h.spilled =>
              /\ Takeback(s, h).used = s.used \ {h.which}
              /\ Takeback(s, h).overflow = s.overflow
              /\ Takeback(s, h).regs = s.regs
              /\ Takeback(s, h).stack = s.stack
<1>1. CASE h.spilled
  <2> DEFINE a == Pop(s, RCX)
  <2>1. a \in Machine(T) /\ a.used = s.used /\ a.overflow = s.overflow
    BY RcxIsReg, PopType
  <2>2. Takeback(s, h) = [a EXCEPT !.overflow = @ - 1] /\ a = Pop(s, RCX)
    BY <1>1 DEF Takeback
  <2> HIDE DEF a
  <2>3. a.overflow - 1 \in Nat
    BY <2>1, <1>1 DEF Machine
  <2>4. Takeback(s, h) = [used |-> a.used, overflow |-> a.overflow - 1,
                          regs |-> a.regs, stack |-> a.stack]
    BY <2>1, <2>2 DEF Machine
  <2> QED
    BY <1>1, <2>1, <2>2, <2>3, <2>4 DEF Machine
<1>2. CASE ~h.spilled
  BY <1>2 DEF Takeback, Machine
<1> QED
  BY <1>1, <1>2

-----------------------------------------------------------------------------
(* save_registers and restore_registers_except. *)

LEMMA SaveOneType ==
  ASSUME NEW T, NEW s \in Machine(T), NEW r \in Reg
  PROVE  /\ SaveOne(s, r) \in Machine(T)
         /\ SaveOne(s, r).used = s.used /\ SaveOne(s, r).overflow = s.overflow
         /\ SaveOne(s, r).regs = s.regs
<1>1. s.regs[r] \in T
  BY DEF Machine
<1> QED
  BY <1>1, PushType DEF SaveOne

(* Saving changes nothing but the stack. *)
LEMMA SaveType ==
  ASSUME NEW T, NEW s \in Machine(T)
  PROVE  /\ Save(s) \in Machine(T)
         /\ Save(s).used = s.used /\ Save(s).overflow = s.overflow
         /\ Save(s).regs = s.regs
<1> DEFINE s1 == SaveOne(s, 0)
           s2 == SaveOne(s1, 1)
           s3 == SaveOne(s2, 2)
           s4 == SaveOne(s3, 3)
           s5 == SaveOne(s4, 4)
           s6 == SaveOne(s5, 5)
           Same(t) == t \in Machine(T) /\ t.used = s.used /\ t.overflow = s.overflow
                      /\ t.regs = s.regs
<1>1. \A r \in 0..5 : r \in Reg
  BY DEF Reg
<1>2. ASSUME NEW t, NEW r \in 0..5, Same(t)  PROVE Same(SaveOne(t, r))
  BY <1>1, <1>2, SaveOneType
<1>3. Same(s) /\ Save(s) = s6
  BY DEF Save
<1> HIDE DEF Same
<1>4. Same(s1)
  BY <1>2, <1>3
<1>5. Same(s2)
  BY <1>2, <1>4
<1>6. Same(s3)
  BY <1>2, <1>5
<1>7. Same(s4)
  BY <1>2, <1>6
<1>8. Same(s5)
  BY <1>2, <1>7
<1>9. Same(s6)
  BY <1>2, <1>8
<1> QED
  BY <1>3, <1>9 DEF Same

LEMMA RestoreOneType ==
  ASSUME NEW T, NEW s \in Machine(T), NEW r \in Reg, NEW h, 0 \in T
  PROVE  /\ RestoreOne(s, r, h) \in Machine(T)
         /\ RestoreOne(s, r, h).used = s.used /\ RestoreOne(s, r, h).overflow = s.overflow
BY PopType DEF RestoreOne

(* Restoring changes neither the registers in use nor the counter. *)
LEMMA RestoreExceptType ==
  ASSUME NEW T, NEW s \in Machine(T), NEW h, 0 \in T
  PROVE  /\ RestoreExcept(s, h) \in Machine(T)
         /\ RestoreExcept(s, h).used = s.used
         /\ RestoreExcept(s, h).overflow = s.overflow
<1> DEFINE s1 == RestoreOne(s, 5, h)
           s2 == RestoreOne(s1, 4, h)
           s3 == RestoreOne(s2, 3, h)
           s4 == RestoreOne(s3, 2, h)
           s5 == RestoreOne(s4, 1, h)
           s6 == RestoreOne(s5, 0, h)
           Same(t) == t \in Machine(T) /\ t.used = s.used /\ t.overflow = s.overflow
<1>1. \A r \in 0..5 : r \in Reg
  BY DEF Reg
<1>2. ASSUME NEW t, NEW r \in 0..5, Same(t)  PROVE Same(RestoreOne(t, r, h))
  BY <1>1, <1>2, RestoreOneType
<1>3. Same(s) /\ RestoreExcept(s, h) = s6
  BY DEF RestoreExcept
<1> HIDE DEF Same
<1>4. Same(s1)
  BY <1>2, <1>3
<1>5. Same(s2)
  BY <1>2, <1>4
<1>6. Same(s3)
  BY <1>2, <1>5
<1>7. Same(s4)
  BY <1>2, <1>6
<1>8. Same(s5)
  BY <1>2, <1>7
<1>9. Same(s6)
  BY <1>2, <1>8
<1> QED
  BY <1>3, <1>9 DEF Same

(* A register saved is restored: the machine t that is given back, with    *)
(* the stack the save of s left and the result in a register of its own.   *)
LEMMA RestoreOneUndoes ==
  ASSUME NEW T, NEW s \in Machine(T), NEW t \in Machine(T), NEW r \in Reg,
         NEW h \in Handle, h.which \notin s.used, 0 \in T,
         t.used = s.used \cup {h.which}, t.stack = SaveOne(s, r).stack
  PROVE  /\ RestoreOne(t, r, h).stack = s.stack
         /\ \A q \in Reg : RestoreOne(t, r, h).regs[q] =
                             IF q = r /\ r \in s.used THEN s.regs[r] ELSE t.regs[q]
<1>1. CASE r \in s.used
  <2>1. t.stack = Append(s.stack, s.regs[r]) /\ s.regs[r] \in T /\ s.stack \in Seq(T)
    BY <1>1 DEF SaveOne, Push, Machine
  <2>2. t.stack # <<>> /\ Len(t.stack) = Len(s.stack) + 1
        /\ t.stack[Len(t.stack)] = s.regs[r]
        /\ SubSeq(t.stack, 1, Len(t.stack) - 1) = s.stack
    BY <2>1
  <2>3. RestoreOne(t, r, h) = Pop(t, r)
    BY <1>1 DEF RestoreOne
  <2>4. Pop(t, r).stack = s.stack /\ Pop(t, r).regs = [t.regs EXCEPT ![r] = s.regs[r]]
    BY <2>2 DEF Pop, Machine
  <2> QED
    BY <1>1, <2>3, <2>4 DEF Machine
<1>2. CASE r \notin s.used
  <2>1. RestoreOne(t, r, h) = t
    BY <1>2 DEF RestoreOne
  <2>2. t.stack = s.stack
    BY <1>2 DEF SaveOne
  <2> QED
    BY <1>2, <2>1, <2>2
<1> QED
  BY <1>1, <1>2

(* All of them: what Save pushed comes back, and the rest stays. *)
LEMMA RestoreUndoes ==
  ASSUME NEW T, NEW s \in Machine(T), NEW t \in Machine(T),
         NEW h \in Handle, h.which \notin s.used, 0 \in T,
         t.used = s.used \cup {h.which}, t.stack = Save(s).stack
  PROVE  /\ RestoreExcept(t, h).stack = s.stack
         /\ \A q \in Reg : RestoreExcept(t, h).regs[q] =
                             IF q \in 0..5 /\ q \in s.used THEN s.regs[q] ELSE t.regs[q]
<1> DEFINE s1 == SaveOne(s, 0)
           s2 == SaveOne(s1, 1)
           s3 == SaveOne(s2, 2)
           s4 == SaveOne(s3, 3)
           s5 == SaveOne(s4, 4)
           s6 == SaveOne(s5, 5)
           t1 == RestoreOne(t, 5, h)
           t2 == RestoreOne(t1, 4, h)
           t3 == RestoreOne(t2, 3, h)
           t4 == RestoreOne(t3, 2, h)
           t5 == RestoreOne(t4, 1, h)
           t6 == RestoreOne(t5, 0, h)
           Like(x) == x \in Machine(T) /\ x.used = s.used /\ x.regs = s.regs
           Back(x, y, k) ==   \* x has what was saved as y, from k on restored
             /\ x \in Machine(T) /\ x.used = s.used \cup {h.which} /\ x.stack = y.stack
             /\ \A q \in Reg : x.regs[q] =
                  IF q \in k..5 /\ q \in s.used THEN s.regs[q] ELSE t.regs[q]
<1>1. \A r \in 0..5 : r \in Reg
  BY DEF Reg
<1>2. ASSUME NEW x, NEW r \in 0..5, Like(x)  PROVE Like(SaveOne(x, r))
  BY <1>1, <1>2, SaveOneType
<1>3. ASSUME NEW x, NEW y, NEW r \in 0..5, Like(y), Back(x, SaveOne(y, r), r + 1)
      PROVE  Back(RestoreOne(x, r, h), y, r)
  <2>1. x \in Machine(T) /\ y \in Machine(T) /\ y.used = s.used /\ y.regs = s.regs /\ r \in Reg
        /\ x.used = y.used \cup {h.which} /\ x.stack = SaveOne(y, r).stack /\ h.which \notin y.used
    BY <1>1, <1>3
  <2>2. RestoreOne(x, r, h) \in Machine(T) /\ RestoreOne(x, r, h).used = x.used
    BY <2>1, RestoreOneType
  <2>3. /\ RestoreOne(x, r, h).stack = y.stack
        /\ \A q \in Reg : RestoreOne(x, r, h).regs[q] =
                            IF q = r /\ r \in y.used THEN y.regs[r] ELSE x.regs[q]
    BY <2>1, RestoreOneUndoes
  <2>4. \A q \in Reg : RestoreOne(x, r, h).regs[q] =
                  IF q \in r..5 /\ q \in s.used THEN s.regs[q] ELSE t.regs[q]
    <3>1. \A q \in Reg : x.regs[q] =
            IF q \in (r + 1)..5 /\ q \in s.used THEN s.regs[q] ELSE t.regs[q]
      BY <1>3
    <3>2. \A q \in Reg : q \in r..5 <=> q = r \/ q \in (r + 1)..5
      BY DEF Reg
    <3>3. r \notin (r + 1)..5
      OBVIOUS
    <3> QED
      BY <2>1, <2>3, <3>1, <3>2, <3>3
  <2> QED
    BY <2>1, <2>2, <2>3, <2>4
<1>4. Like(s) /\ Save(s) = s6 /\ RestoreExcept(t, h) = t6
  BY DEF Save, RestoreExcept
<1>5. Back(t, s6, 6)
  BY <1>4
<1> HIDE DEF Like, Back
<1>6. Like(s1)
  BY <1>2, <1>4
<1>7. Like(s2)
  BY <1>2, <1>6
<1>8. Like(s3)
  BY <1>2, <1>7
<1>9. Like(s4)
  BY <1>2, <1>8
<1>10. Like(s5)
  BY <1>2, <1>9
<1>11. Back(t1, s5, 5)
  BY <1>3, <1>5, <1>10
<1>12. Back(t2, s4, 4)
  BY <1>3, <1>11, <1>9
<1>13. Back(t3, s3, 3)
  BY <1>3, <1>12, <1>8
<1>14. Back(t4, s2, 2)
  BY <1>3, <1>13, <1>7
<1>15. Back(t5, s1, 1)
  BY <1>3, <1>14, <1>6
<1>16. Back(t6, s, 0)
  BY <1>3, <1>15, <1>4
<1> QED
  BY <1>4, <1>16 DEF Back

-----------------------------------------------------------------------------
(* The operands a piece of work needs, and by how many it changes their    *)
(* number once it is done.                                                 *)
Operand == Type \cup {"lvalue"}
Needs(w) ==
  IF w \in {"op", "rel", "assign", "test", "again"} THEN 2
  ELSE IF w \in {"cond", "arg", "write", "discard"} THEN 1 ELSE 0
Change(w) ==
  IF w \in Operand \cup {"call", "call_with_args"} THEN 1
  ELSE IF w \in {"assign", "again"} THEN -2
  ELSE IF w \in {"op", "rel", "cond", "arg", "write", "discard"} THEN -1 ELSE 0
Ends(w) == IF w = "again" THEN 1 ELSE 0

(* The pending work s can be done when n operands are alive and a FOR      *)
(* loops are still to end: every piece finds the operands it needs, and a  *)
(* statement finds the bounds of the enclosing loops and nothing else.     *)
(* The functions go by the number of pieces that are left.                 *)
Runs(s, n, a) ==
  \E D \in [0..Len(s) -> Nat], A \in [0..Len(s) -> Nat] :
    /\ D[0] = 0 /\ A[0] = 0 /\ D[Len(s)] = n /\ A[Len(s)] = a
    /\ \A p \in 1..Len(s) :
         LET w == s[Len(s) + 1 - p] IN
         /\ D[p] >= Needs(w) /\ D[p - 1] = D[p] + Change(w)
         /\ A[p] = A[p - 1] + Ends(w)
         /\ w = "stmts" => D[p] = 2 * A[p]

LEMMA RunsEmpty == Runs(<<>>, 0, 0)
<1> DEFINE D == [p \in 0..0 |-> 0]
<1>1. Len(<<>>) = 0 /\ D \in [0..0 -> Nat] /\ D[0] = 0 /\ 1..0 = {}
  OBVIOUS
<1> QED
  BY <1>1 DEF Runs

(* Work may be put before other work when what it leaves is what that      *)
(* finds.                                                                  *)
LEMMA RunsCons ==
  ASSUME NEW t \in Seq(Work), NEW w \in Work, NEW n \in Nat, NEW a \in Nat,
         n >= Needs(w), Runs(t, n + Change(w), a),
         w = "stmts" => n = 2 * a
  PROVE  Runs(<<w>> \o t, n, a + Ends(w))
<1> DEFINE s == <<w>> \o t
<1>1. PICK D \in [0..Len(t) -> Nat], A \in [0..Len(t) -> Nat] :
        /\ D[0] = 0 /\ A[0] = 0 /\ D[Len(t)] = n + Change(w) /\ A[Len(t)] = a
        /\ \A p \in 1..Len(t) :
             /\ D[p] >= Needs(t[Len(t) + 1 - p])
             /\ D[p - 1] = D[p] + Change(t[Len(t) + 1 - p])
             /\ A[p] = A[p - 1] + Ends(t[Len(t) + 1 - p])
             /\ t[Len(t) + 1 - p] = "stmts" => D[p] = 2 * A[p]
  BY DEF Runs
<1>2. Len(s) = Len(t) + 1 /\ Len(t) \in Nat /\ s[1] = w /\ s \in Seq(Work)
      /\ \A i \in 1..Len(t) : s[i + 1] = t[i]
  OBVIOUS
<1> DEFINE E == [p \in 0..Len(s) |-> IF p = Len(s) THEN n ELSE D[p]]
           B == [p \in 0..Len(s) |-> IF p = Len(s) THEN a + Ends(w) ELSE A[p]]
<1>3. Ends(w) \in {0, 1} /\ (w = "stmts" => Ends(w) = 0)
  BY DEF Ends
<1>4. E \in [0..Len(s) -> Nat] /\ B \in [0..Len(s) -> Nat]
  BY <1>2, <1>3
<1>5. E[0] = 0 /\ B[0] = 0 /\ E[Len(s)] = n /\ B[Len(s)] = a + Ends(w)
  BY <1>1, <1>2
<1>6. ASSUME NEW p \in 1..Len(s)
      PROVE  /\ E[p] >= Needs(s[Len(s) + 1 - p])
             /\ E[p - 1] = E[p] + Change(s[Len(s) + 1 - p])
             /\ B[p] = B[p - 1] + Ends(s[Len(s) + 1 - p])
             /\ s[Len(s) + 1 - p] = "stmts" => E[p] = 2 * B[p]
  <2>1. CASE p = Len(s)
    <3>1. s[Len(s) + 1 - p] = w
      BY <1>2, <2>1
    <3>2. E[p] = n /\ B[p] = a + Ends(w) /\ E[p - 1] = D[Len(t)] /\ B[p - 1] = A[Len(t)]
      BY <1>2, <2>1
    <3>3. D[Len(t)] = n + Change(w) /\ A[Len(t)] = a /\ n >= Needs(w)
      BY <1>1
    <3>4. E[p] >= Needs(w) /\ E[p - 1] = E[p] + Change(w)
      BY <3>2, <3>3, Zenon
    <3>5. B[p] = B[p - 1] + Ends(w)
      BY <3>2, <3>3, Zenon
    <3>6. w = "stmts" => E[p] = 2 * B[p]
      <4>1. w = "stmts" => a + Ends(w) = a /\ n = 2 * a
        BY <1>3
      <4> HIDE DEF E, B
      <4> QED
        BY <3>2, <4>1
    <3> HIDE DEF E, B, s
    <3> QED
      BY <3>1, <3>4, <3>5, <3>6, Zenon
  <2>2. CASE p # Len(s)
    <3>1. p \in 1..Len(t)
      BY <1>2, <2>2
    <3>2. s[Len(s) + 1 - p] = t[Len(t) + 1 - p]
      <4>1. Len(t) + 1 - p \in 1..Len(t) /\ Len(s) + 1 - p = (Len(t) + 1 - p) + 1
        BY <1>2, <3>1
      <4> QED
        BY <1>2, <4>1
    <3>3. E[p] = D[p] /\ B[p] = A[p] /\ E[p - 1] = D[p - 1] /\ B[p - 1] = A[p - 1]
      BY <1>2, <3>1
    <3> QED
      BY <1>1, <3>1, <3>2, <3>3
  <2> QED
    BY <2>1, <2>2
<1> HIDE DEF E, B, s
<1>7. Runs(s, n, a + Ends(w))
  BY <1>4, <1>5, <1>6 DEF Runs
<1> QED
  BY <1>7 DEF s

(* The next piece of work finds what it needs, and leaves what the one     *)
(* after it finds.                                                         *)
LEMMA RunsTail ==
  ASSUME NEW s \in Seq(Work), s # <<>>, NEW n, NEW a, Runs(s, n, a)
  PROVE  /\ n \in Nat /\ a \in Nat /\ n >= Needs(Head(s))
         /\ Head(s) = "stmts" => n = 2 * a
         /\ a >= Ends(Head(s))
         /\ n + Change(Head(s)) \in Nat
         /\ Runs(Tail(s), n + Change(Head(s)), a - Ends(Head(s)))
<1> DEFINE t == Tail(s)
           w == Head(s)
<1>1. PICK D \in [0..Len(s) -> Nat], A \in [0..Len(s) -> Nat] :
        /\ D[0] = 0 /\ A[0] = 0 /\ D[Len(s)] = n /\ A[Len(s)] = a
        /\ \A p \in 1..Len(s) :
             /\ D[p] >= Needs(s[Len(s) + 1 - p])
             /\ D[p - 1] = D[p] + Change(s[Len(s) + 1 - p])
             /\ A[p] = A[p - 1] + Ends(s[Len(s) + 1 - p])
             /\ s[Len(s) + 1 - p] = "stmts" => D[p] = 2 * A[p]
  BY DEF Runs
<1>2. Len(s) = Len(t) + 1 /\ Len(t) \in Nat /\ s[1] = w /\ t \in Seq(Work)
      /\ \A i \in 1..Len(t) : t[i] = s[i + 1]
  OBVIOUS
<1>3. s[Len(s) + 1 - Len(s)] = w /\ Len(s) \in 1..Len(s) /\ Len(s) - 1 = Len(t)
  BY <1>2
<1>4. /\ n >= Needs(w) /\ D[Len(t)] = n + Change(w) /\ a = A[Len(t)] + Ends(w)
      /\ w = "stmts" => n = 2 * a
  BY <1>1, <1>3
<1>5. n \in Nat /\ a \in Nat /\ D[Len(t)] \in Nat /\ A[Len(t)] \in Nat
  BY <1>1, <1>2
<1> DEFINE E == [p \in 0..Len(t) |-> D[p]]
           B == [p \in 0..Len(t) |-> A[p]]
<1>6. E \in [0..Len(t) -> Nat] /\ B \in [0..Len(t) -> Nat]
  BY <1>1, <1>2
<1>7. E[0] = 0 /\ B[0] = 0 /\ E[Len(t)] = n + Change(w) /\ B[Len(t)] = a - Ends(w)
  BY <1>1, <1>2, <1>4, <1>5 DEF Ends
<1>8. ASSUME NEW p \in 1..Len(t)
      PROVE  /\ E[p] >= Needs(t[Len(t) + 1 - p])
             /\ E[p - 1] = E[p] + Change(t[Len(t) + 1 - p])
             /\ B[p] = B[p - 1] + Ends(t[Len(t) + 1 - p])
             /\ t[Len(t) + 1 - p] = "stmts" => E[p] = 2 * B[p]
  <2>1. t[Len(t) + 1 - p] = s[Len(s) + 1 - p] /\ p \in 1..Len(s)
    <3>1. Len(t) + 1 - p \in 1..Len(t) /\ Len(s) + 1 - p = (Len(t) + 1 - p) + 1
      BY <1>2
    <3> QED
      BY <1>2, <3>1
  <2>2. E[p] = D[p] /\ B[p] = A[p] /\ E[p - 1] = D[p - 1] /\ B[p - 1] = A[p - 1]
    BY <1>2
  <2> QED
    BY <1>1, <2>1, <2>2
<1>9. a >= Ends(w)
  BY <1>4, <1>5 DEF Ends
<1> HIDE DEF E, B, t, w
<1>10. Runs(t, n + Change(w), a - Ends(w))
  BY <1>6, <1>7, <1>8 DEF Runs
<1> QED
  BY <1>4, <1>5, <1>9, <1>10 DEF t, w

(* Counting the loops still to end. *)
Agains(s) == Cardinality({i \in DOMAIN s : s[i] = "again"})

LEMMA AgainsCons ==
  ASSUME NEW t \in Seq(Work), NEW w \in Work
  PROVE  Agains(t) \in Nat /\ Agains(<<w>> \o t) = Agains(t) + Ends(w)
<1> DEFINE s == <<w>> \o t
           I == {i \in DOMAIN t : t[i] = "again"}
           J == {i \in DOMAIN s : s[i] = "again"}
           f == [i \in I |-> i + 1]
           K == {i + 1 : i \in I}
<1>1. Len(s) = Len(t) + 1 /\ Len(t) \in Nat /\ s[1] = w
      /\ (\A i \in 1..Len(t) : s[i + 1] = t[i]) /\ DOMAIN s = 1..Len(s) /\ DOMAIN t = 1..Len(t)
  OBVIOUS
<1>2. IsFiniteSet(I)
  <2>1. IsFiniteSet(1..Len(t))
    BY <1>1, FS_Interval
  <2> QED
    BY <1>1, <2>1, FS_Subset
<1>3. f \in Bijection(I, K)
  BY <1>1 DEF Bijection, Injection, Surjection, IsInjective
<1>4. IsFiniteSet(K) /\ Cardinality(K) = Cardinality(I)
  <2>1. ExistsBijection(I, K)
    BY <1>3 DEF ExistsBijection
  <2> QED
    BY <1>2, <2>1, FS_Bijection
<1>5. Cardinality(I) \in Nat
  BY <1>2, FS_CardinalityType
<1>6. CASE w = "again"
  <2>1. J = K \cup {1} /\ 1 \notin K
    <3>1. \A i \in 1..Len(s) : i # 1 => i - 1 \in 1..Len(t) /\ s[i] = t[i - 1]
      <4> TAKE i \in 1..Len(s)
      <4> HAVE i # 1
      <4>1. i - 1 \in 1..Len(t) /\ i = (i - 1) + 1
        BY <1>1
      <4> QED
        BY <1>1, <4>1
    <3>2. \A i \in J : i \in K \cup {1}
      <4> TAKE i \in J
      <4>1. CASE i # 1
        <5>1. i - 1 \in I /\ i = (i - 1) + 1
          BY <1>1, <3>1, <4>1
        <5> QED
          BY <5>1
      <4> QED
        BY <4>1
    <3>3. \A i \in K : i \in J
      BY <1>1
    <3>4. 1 \in J /\ 1 \notin K
      BY <1>1, <1>6
    <3> QED
      BY <3>2, <3>3, <3>4
  <2>2. Cardinality(J) = Cardinality(K) + 1
    BY <2>1, <1>4, FS_AddElement
  <2> QED
    BY <2>2, <1>4, <1>5, <1>6 DEF Agains, Ends
<1>7. CASE w # "again"
  <2>1. J = K
    <3>1. \A i \in 1..Len(s) : i # 1 => i - 1 \in 1..Len(t) /\ s[i] = t[i - 1]
      <4> TAKE i \in 1..Len(s)
      <4> HAVE i # 1
      <4>1. i - 1 \in 1..Len(t) /\ i = (i - 1) + 1
        BY <1>1
      <4> QED
        BY <1>1, <4>1
    <3>2. \A i \in J : i \in K
      <4> TAKE i \in J
      <4>1. i # 1
        BY <1>1, <1>7
      <4>2. i - 1 \in I /\ i = (i - 1) + 1
        BY <1>1, <3>1, <4>1
      <4> QED
        BY <4>2
    <3>3. \A i \in K : i \in J
      BY <1>1
    <3> QED
      BY <3>2, <3>3
  <2>2. Agains(t) = Cardinality(I) /\ Agains(s) = Cardinality(J) /\ Ends(w) = 0
    BY <1>7 DEF Agains, Ends
  <2> HIDE DEF I, J, K, f
  <2> QED
    BY <2>1, <2>2, <1>4, <1>5
<1> QED
  BY <1>6, <1>7

-----------------------------------------------------------------------------
(* The order of pending work: what may come after an operand, and what may *)
(* come before a call with arguments. *)
Consumer == {"op", "rel", "assign", "cond", "arg", "write"}
Follower == Type \cup Consumer \cup {"variable"}
Inside == Operand \cup {"op", "rel", "arg", "call", "call_with_args"}

Shape(s) ==
  \A i \in DOMAIN s :
    /\ s[i] \in Operand => i < Len(s) /\ s[i + 1] \in Follower
    /\ s[i] = "arg" => i < Len(s) /\ s[i + 1] = "call_with_args"
    /\ s[i] = "call" => i = 1
    /\ s[i] = "call_with_args" => \A j \in 1..(i - 1) : s[j] \in Inside

Fits(s, n) == s \in Seq(Work) /\ Shape(s) /\ Runs(s, n, Agains(s))

In(s) == {s[i] : i \in DOMAIN s}

LEMMA ShapeCons ==
  ASSUME NEW t \in Seq(Work), NEW w \in Work, Shape(t),
         w \in Operand => t # <<>> /\ Head(t) \in Follower,
         w = "arg" => t # <<>> /\ Head(t) = "call_with_args",
         "call" \notin In(t),
         "call_with_args" \in In(t) => w \in Inside
  PROVE  Shape(<<w>> \o t)
<1> DEFINE s == <<w>> \o t
<1>1. Len(s) = Len(t) + 1 /\ Len(t) \in Nat /\ s[1] = w
      /\ (\A i \in 1..Len(t) : s[i + 1] = t[i]) /\ DOMAIN s = 1..Len(s) /\ DOMAIN t = 1..Len(t)
  OBVIOUS
<1>2. t # <<>> => Len(t) > 0 /\ t[1] = Head(t)
  OBVIOUS
<1> HIDE DEF s
<1>3. \A i \in 1..Len(s) : i # 1 => i - 1 \in 1..Len(t) /\ s[i] = t[i - 1]
  <2> TAKE i \in 1..Len(s)
  <2> HAVE i # 1
  <2>1. i - 1 \in 1..Len(t) /\ i = (i - 1) + 1
    BY <1>1
  <2> QED
    BY <1>1, <2>1
<1>4. ASSUME NEW i \in 1..Len(s)
      PROVE  /\ s[i] \in Operand => i < Len(s) /\ s[i + 1] \in Follower
             /\ s[i] = "arg" => i < Len(s) /\ s[i + 1] = "call_with_args"
             /\ s[i] = "call" => i = 1
             /\ s[i] = "call_with_args" => \A j \in 1..(i - 1) : s[j] \in Inside
  <2>1. CASE i = 1
    <3>1. t # <<>> => 1 < Len(s) /\ s[1 + 1] = Head(t)
      BY <1>1, <1>2
    <3>2. 1..(i - 1) = {}
      BY <2>1
    <3> QED
      BY <1>1, <2>1, <3>1, <3>2
  <2>2. CASE i # 1
    <3>1. i - 1 \in DOMAIN t /\ s[i] = t[i - 1] /\ t[i - 1] \in In(t)
      BY <1>1, <1>3, <2>2 DEF In
    <3>2. i - 1 < Len(t) => i < Len(s) /\ s[i + 1] = t[(i - 1) + 1]
      <4> HAVE i - 1 < Len(t)
      <4>1. i \in 1..Len(t) /\ (i - 1) + 1 = i
        BY <1>1
      <4> QED
        BY <1>1, <4>1
    <3>3. s[i] \in Operand => i < Len(s) /\ s[i + 1] \in Follower
      BY <3>1, <3>2 DEF Shape
    <3>4. s[i] = "arg" => i < Len(s) /\ s[i + 1] = "call_with_args"
      BY <3>1, <3>2 DEF Shape
    <3>5. s[i] # "call"
      BY <3>1
    <3>6. ASSUME s[i] = "call_with_args", NEW j \in 1..(i - 1)  PROVE s[j] \in Inside
      <4>1. w \in Inside
        BY <3>1, <3>6
      <4>2. CASE j = 1
        BY <1>1, <4>1, <4>2
      <4>3. CASE j # 1
        <5>1. j - 1 \in 1..((i - 1) - 1) /\ j \in 1..Len(s)
          BY <4>3, <1>1
        <5>2. t[j - 1] \in Inside
          BY <3>1, <3>6, <5>1 DEF Shape
        <5> QED
          BY <1>3, <4>3, <5>1, <5>2
      <4> QED
        BY <4>2, <4>3
    <3> QED
      BY <3>3, <3>4, <3>5, <3>6
  <2> QED
    BY <2>1, <2>2
<1> QED
  BY <1>1, <1>4 DEF Shape, s

LEMMA ShapeTail ==
  ASSUME NEW s \in Seq(Work), s # <<>>, Shape(s)
  PROVE  /\ Shape(Tail(s)) /\ "call" \notin In(Tail(s))
         /\ "call_with_args" \in In(Tail(s)) => Head(s) \in Inside
         /\ Head(s) \in Operand => Tail(s) # <<>> /\ Head(Tail(s)) \in Follower
         /\ Head(s) = "arg" => Tail(s) # <<>> /\ Head(Tail(s)) = "call_with_args"
<1> DEFINE t == Tail(s)
<1>1. Len(s) = Len(t) + 1 /\ Len(t) \in Nat /\ s[1] = Head(s) /\ t \in Seq(Work)
      /\ (\A i \in 1..Len(t) : t[i] = s[i + 1]) /\ DOMAIN s = 1..Len(s) /\ DOMAIN t = 1..Len(t)
  OBVIOUS
<1> HIDE DEF t
<1>2. Len(t) > 0 => t # <<>> /\ Head(t) = t[1]
  BY <1>1
<1>3. ASSUME NEW i \in 1..Len(t)
      PROVE  /\ t[i] \in Operand => i < Len(t) /\ t[i + 1] \in Follower
             /\ t[i] = "arg" => i < Len(t) /\ t[i + 1] = "call_with_args"
             /\ t[i] # "call"
             /\ t[i] = "call_with_args" => s[1] \in Inside /\ \A j \in 1..(i - 1) : t[j] \in Inside
  <2>1. i + 1 \in DOMAIN s /\ t[i] = s[i + 1] /\ i + 1 # 1
    BY <1>1
  <2>2. i + 1 < Len(s) => i < Len(t) /\ t[i + 1] = s[(i + 1) + 1]
    BY <1>1
  <2>3. ASSUME NEW j \in 1..(i - 1)  PROVE j + 1 \in 1..((i + 1) - 1) /\ t[j] = s[j + 1]
    <3>1. j \in 1..Len(t) /\ j + 1 \in 1..((i + 1) - 1)
      BY <1>1
    <3> QED
      BY <1>1, <3>1
  <2>4. 1 \in 1..((i + 1) - 1)
    OBVIOUS
  <2>5. s[i + 1] = "call_with_args" => \A j \in 1..((i + 1) - 1) : s[j] \in Inside
    BY <2>1 DEF Shape
  <2>6. t[i] = "call_with_args" => s[1] \in Inside /\ \A j \in 1..(i - 1) : t[j] \in Inside
    BY <2>1, <2>3, <2>4, <2>5
  <2> QED
    BY <2>1, <2>2, <2>6 DEF Shape
<1>4. 1 \in DOMAIN s
  BY <1>1
<1>5. 1 < Len(s) => Len(t) > 0 /\ s[1 + 1] = t[1]
  BY <1>1
<1>6. Head(s) \in Operand => t # <<>> /\ Head(t) \in Follower
  BY <1>1, <1>2, <1>4, <1>5 DEF Shape
<1>7. Head(s) = "arg" => t # <<>> /\ Head(t) = "call_with_args"
  BY <1>1, <1>2, <1>4, <1>5 DEF Shape
<1>8. "call" \notin In(t) /\ ("call_with_args" \in In(t) => Head(s) \in Inside)
  BY <1>1, <1>3 DEF In
<1>9. Shape(t)
  BY <1>1, <1>3 DEF Shape
<1> QED
  BY <1>6, <1>7, <1>8, <1>9 DEF t

LEMMA InCons ==
  ASSUME NEW t \in Seq(Work), NEW w \in Work
  PROVE  In(<<w>> \o t) = {w} \cup In(t)
<1> DEFINE s == <<w>> \o t
<1>1. Len(s) = Len(t) + 1 /\ Len(t) \in Nat /\ s[1] = w
      /\ (\A i \in 1..Len(t) : s[i + 1] = t[i]) /\ DOMAIN s = 1..Len(s) /\ DOMAIN t = 1..Len(t)
  OBVIOUS
<1> HIDE DEF s
<1>2. ASSUME NEW i \in DOMAIN s  PROVE s[i] \in {w} \cup In(t)
  <2>1. CASE i = 1
    BY <1>1, <2>1
  <2>2. CASE i # 1
    <3>1. i - 1 \in DOMAIN t /\ i = (i - 1) + 1
      BY <1>1, <2>2
    <3>2. s[i] = t[i - 1]
      BY <1>1, <3>1
    <3> QED
      BY <3>1, <3>2 DEF In
  <2> QED
    BY <2>1, <2>2
<1>3. ASSUME NEW i \in DOMAIN t  PROVE t[i] \in In(s)
  <2>1. i + 1 \in DOMAIN s /\ s[i + 1] = t[i]
    BY <1>1
  <2> QED
    BY <2>1 DEF In
<1>4. w \in In(s)
  <2>1. 1 \in DOMAIN s
    BY <1>1
  <2> QED
    BY <1>1, <2>1 DEF In
<1>5. \A x \in In(s) : x \in {w} \cup In(t)
  BY <1>2 DEF In
<1>6. \A x \in {w} \cup In(t) : x \in In(s)
  BY <1>3, <1>4 DEF In
<1>7. In(s) = {w} \cup In(t)
  BY <1>5, <1>6
<1> QED
  BY <1>7 DEF s

(* Work put before other work that fits what it leaves. *)
LEMMA FitsCons ==
  ASSUME NEW t, NEW w \in Work, NEW n \in Nat,
         Fits(t, n + Change(w)), n >= Needs(w),
         w = "stmts" => n = 2 * Agains(t),
         w \in Operand => t # <<>> /\ Head(t) \in Follower,
         w = "arg" => t # <<>> /\ Head(t) = "call_with_args",
         "call" \notin In(t),
         "call_with_args" \in In(t) => w \in Inside
  PROVE  /\ Fits(<<w>> \o t, n)
         /\ <<w>> \o t # <<>> /\ Head(<<w>> \o t) = w
         /\ In(<<w>> \o t) = {w} \cup In(t)
         /\ Agains(<<w>> \o t) = Agains(t) + Ends(w)
<1> DEFINE s == <<w>> \o t
<1>1. t \in Seq(Work) /\ Shape(t) /\ Runs(t, n + Change(w), Agains(t))
  BY DEF Fits
<1>2. s \in Seq(Work) /\ s # <<>> /\ Head(s) = w
  BY <1>1
<1>4. In(s) = {w} \cup In(t)
  BY <1>1, InCons
<1>5. Agains(t) \in Nat /\ Agains(s) = Agains(t) + Ends(w)
  BY <1>1, AgainsCons
<1>6. Runs(s, n, Agains(s))
  BY <1>1, <1>5, RunsCons
<1>7. Shape(s)
  BY <1>1, ShapeCons
<1> QED
  BY <1>2, <1>4, <1>5, <1>6, <1>7 DEF Fits

(* What is left when the next piece of work is taken off. *)
LEMMA FitsTail ==
  ASSUME NEW s, NEW n, s # <<>>, Fits(s, n)
  PROVE  /\ n \in Nat /\ n >= Needs(Head(s)) /\ n + Change(Head(s)) \in Nat
         /\ Fits(Tail(s), n + Change(Head(s)))
         /\ Head(s) \in Work
         /\ Head(s) = "stmts" => n = 2 * Agains(Tail(s)) /\ n = 2 * Agains(s)
         /\ Head(s) \in Operand => Tail(s) # <<>> /\ Head(Tail(s)) \in Follower
         /\ Head(s) = "arg" => Tail(s) # <<>> /\ Head(Tail(s)) = "call_with_args"
         /\ "call" \notin In(Tail(s))
         /\ "call_with_args" \in In(Tail(s)) => Head(s) \in Inside
         /\ Agains(s) = Agains(Tail(s)) + Ends(Head(s))
         /\ In(s) = {Head(s)} \cup In(Tail(s))
<1> DEFINE t == Tail(s)
           w == Head(s)
<1>1. s \in Seq(Work) /\ Shape(s) /\ Runs(s, n, Agains(s))
  BY DEF Fits
<1>2. t \in Seq(Work) /\ w \in Work /\ s = <<w>> \o t
  BY <1>1
<1>3. Agains(t) \in Nat /\ Agains(s) = Agains(t) + Ends(w)
  BY <1>2, AgainsCons
<1>4. /\ n \in Nat /\ n >= Needs(w) /\ n + Change(w) \in Nat
      /\ w = "stmts" => n = 2 * Agains(s)
      /\ Runs(t, n + Change(w), Agains(s) - Ends(w))
  BY <1>1, RunsTail
<1>5. Agains(s) - Ends(w) = Agains(t) /\ (w = "stmts" => Agains(s) = Agains(t))
  BY <1>3 DEF Ends
<1>6. Fits(t, n + Change(w))
  BY <1>1, <1>2, <1>4, <1>5, ShapeTail DEF Fits
<1>7. In(s) = {w} \cup In(t)
  BY <1>2, InCons
<1>8. /\ "call" \notin In(t)
      /\ "call_with_args" \in In(t) => w \in Inside
      /\ w \in Operand => t # <<>> /\ Head(t) \in Follower
      /\ w = "arg" => t # <<>> /\ Head(t) = "call_with_args"
  BY <1>1, ShapeTail
<1> HIDE DEF t, w
<1>9. w = "stmts" => n = 2 * Agains(t) /\ n = 2 * Agains(s)
  BY <1>4, <1>5
<1> QED
  BY <1>2, <1>3, <1>4, <1>6, <1>7, <1>8, <1>9 DEF t, w

-----------------------------------------------------------------------------
(* The work each construct stands for fits where the construct did. *)

LEMMA ConsIs ==
  ASSUME NEW s \in Seq(Work), NEW t \in Seq(Work), NEW x \in Seq(Work),
         Len(s) = Len(t) + 1, \A i \in 1..Len(t) : s[i + 1] = t[i]
  PROVE  s \o x = <<s[1]>> \o (t \o x)
<1> DEFINE a == <<s[1]>>
           z == a \o t
<1>1. Len(t) \in Nat /\ s[1] \in Work
  OBVIOUS
<1>2. z \in Seq(Work) /\ Len(z) = Len(t) + 1 /\ z[1] = s[1]
      /\ (\A i \in 1..Len(t) : z[i + 1] = t[i]) /\ a \in Seq(Work)
  BY <1>1
<1> HIDE DEF z, a
<1>3. ASSUME NEW i \in 1..Len(s)  PROVE s[i] = z[i]
  <2>1. CASE i = 1
    BY <1>2, <2>1
  <2>2. CASE i # 1
    <3>1. i - 1 \in 1..Len(t) /\ (i - 1) + 1 = i
      BY <1>1, <2>2
    <3>2. s[(i - 1) + 1] = t[i - 1] /\ z[(i - 1) + 1] = t[i - 1]
      BY <1>2, <3>1
    <3> QED
      BY <3>1, <3>2
  <2> QED
    BY <2>1, <2>2
<1>4. s = z
  BY <1>2, <1>3, SeqEqual
<1>5. (a \o t) \o x = a \o (t \o x)
  <2>1. \A u, v \in Seq(Work) : (u \o v) \o x = u \o (v \o x)
    OBVIOUS
  <2> QED
    BY <1>2, <2>1
<1> QED
  BY <1>4, <1>5 DEF z, a

LEMMA Concat3 ==
  ASSUME NEW x \in Seq(Work), NEW a \in Work, NEW b \in Work, NEW c \in Work
  PROVE  /\ <<a, b>> \o x = <<a>> \o (<<b>> \o x)
         /\ <<a, b, c>> \o x = <<a>> \o (<<b>> \o (<<c>> \o x))
<1>1. <<a, b>> \o x = <<a>> \o (<<b>> \o x)
  <2> DEFINE s == <<a, b>>
             t == <<b>>
  <2>1. s \in Seq(Work) /\ t \in Seq(Work) /\ Len(s) = Len(t) + 1 /\ s[1] = a
        /\ \A i \in 1..Len(t) : s[i + 1] = t[i]
    OBVIOUS
  <2> HIDE DEF s, t
  <2>2. s \o x = <<a>> \o (t \o x)
    BY <2>1, ConsIs
  <2> QED
    BY <2>2 DEF s, t
<1>2. <<b, c>> \o x = <<b>> \o (<<c>> \o x)
  <2> DEFINE s == <<b, c>>
             t == <<c>>
  <2>1. s \in Seq(Work) /\ t \in Seq(Work) /\ Len(s) = Len(t) + 1 /\ s[1] = b
        /\ \A i \in 1..Len(t) : s[i + 1] = t[i]
    OBVIOUS
  <2> HIDE DEF s, t
  <2>2. s \o x = <<b>> \o (t \o x)
    BY <2>1, ConsIs
  <2> QED
    BY <2>2 DEF s, t
<1>3. <<a, b, c>> \o x = <<a>> \o (<<b, c>> \o x)
  <2> DEFINE s == <<a, b, c>>
             t == <<b, c>>
  <2>1. s \in Seq(Work) /\ t \in Seq(Work) /\ Len(s) = Len(t) + 1 /\ s[1] = a
        /\ \A i \in 1..Len(t) : s[i + 1] = t[i]
    OBVIOUS
  <2> HIDE DEF s, t
  <2>2. s \o x = <<a>> \o (t \o x)
    BY <2>1, ConsIs
  <2> QED
    BY <2>2 DEF s, t
<1> QED
  BY <1>1, <1>2, <1>3

LEMMA Concat7 ==
  ASSUME NEW x \in Seq(Work), NEW a \in Work, NEW b \in Work, NEW c \in Work,
         NEW d \in Work, NEW e \in Work, NEW f \in Work, NEW g \in Work
  PROVE  /\ <<a, b, c, d>> \o x = <<a>> \o (<<b>> \o (<<c>> \o (<<d>> \o x)))
         /\ <<a, b, c, d, e>> \o x =
              <<a>> \o (<<b>> \o (<<c>> \o (<<d>> \o (<<e>> \o x))))
         /\ <<a, b, c, d, e, f, g>> \o x =
              <<a>> \o (<<b>> \o (<<c>> \o (<<d>> \o (<<e>> \o (<<f>> \o (<<g>> \o x))))))
<1>1. <<a, b, c, d>> \o x = <<a>> \o (<<b, c, d>> \o x)
  <2> DEFINE s == <<a, b, c, d>>
             t == <<b, c, d>>
  <2>1. s \in Seq(Work) /\ t \in Seq(Work) /\ Len(s) = Len(t) + 1 /\ s[1] = a
        /\ \A i \in 1..Len(t) : s[i + 1] = t[i]
    OBVIOUS
  <2> HIDE DEF s, t
  <2>2. s \o x = <<a>> \o (t \o x)
    BY <2>1, ConsIs
  <2> QED
    BY <2>2 DEF s, t
<1>2. <<a, b, c, d, e>> \o x = <<a>> \o (<<b, c, d, e>> \o x)
  <2> DEFINE s == <<a, b, c, d, e>>
             t == <<b, c, d, e>>
  <2>1. s \in Seq(Work) /\ t \in Seq(Work) /\ Len(s) = Len(t) + 1 /\ s[1] = a
        /\ \A i \in 1..Len(t) : s[i + 1] = t[i]
    OBVIOUS
  <2> HIDE DEF s, t
  <2>2. s \o x = <<a>> \o (t \o x)
    BY <2>1, ConsIs
  <2> QED
    BY <2>2 DEF s, t
<1>3. <<b, c, d, e>> \o x = <<b>> \o (<<c, d, e>> \o x)
  <2> DEFINE s == <<b, c, d, e>>
             t == <<c, d, e>>
  <2>1. s \in Seq(Work) /\ t \in Seq(Work) /\ Len(s) = Len(t) + 1 /\ s[1] = b
        /\ \A i \in 1..Len(t) : s[i + 1] = t[i]
    OBVIOUS
  <2> HIDE DEF s, t
  <2>2. s \o x = <<b>> \o (t \o x)
    BY <2>1, ConsIs
  <2> QED
    BY <2>2 DEF s, t
<1>4. <<d, e, f, g>> \o x = <<d>> \o (<<e, f, g>> \o x)
  <2> DEFINE s == <<d, e, f, g>>
             t == <<e, f, g>>
  <2>1. s \in Seq(Work) /\ t \in Seq(Work) /\ Len(s) = Len(t) + 1 /\ s[1] = d
        /\ \A i \in 1..Len(t) : s[i + 1] = t[i]
    OBVIOUS
  <2> HIDE DEF s, t
  <2>2. s \o x = <<d>> \o (t \o x)
    BY <2>1, ConsIs
  <2> QED
    BY <2>2 DEF s, t
<1>5. <<c, d, e, f, g>> \o x = <<c>> \o (<<d, e, f, g>> \o x)
  <2> DEFINE s == <<c, d, e, f, g>>
             t == <<d, e, f, g>>
  <2>1. s \in Seq(Work) /\ t \in Seq(Work) /\ Len(s) = Len(t) + 1 /\ s[1] = c
        /\ \A i \in 1..Len(t) : s[i + 1] = t[i]
    OBVIOUS
  <2> HIDE DEF s, t
  <2>2. s \o x = <<c>> \o (t \o x)
    BY <2>1, ConsIs
  <2> QED
    BY <2>2 DEF s, t
<1>6. <<b, c, d, e, f, g>> \o x = <<b>> \o (<<c, d, e, f, g>> \o x)
  <2> DEFINE s == <<b, c, d, e, f, g>>
             t == <<c, d, e, f, g>>
  <2>1. s \in Seq(Work) /\ t \in Seq(Work) /\ Len(s) = Len(t) + 1 /\ s[1] = b
        /\ \A i \in 1..Len(t) : s[i + 1] = t[i]
    OBVIOUS
  <2> HIDE DEF s, t
  <2>2. s \o x = <<b>> \o (t \o x)
    BY <2>1, ConsIs
  <2> QED
    BY <2>2 DEF s, t
<1>7. <<a, b, c, d, e, f, g>> \o x = <<a>> \o (<<b, c, d, e, f, g>> \o x)
  <2> DEFINE s == <<a, b, c, d, e, f, g>>
             t == <<b, c, d, e, f, g>>
  <2>1. s \in Seq(Work) /\ t \in Seq(Work) /\ Len(s) = Len(t) + 1 /\ s[1] = a
        /\ \A i \in 1..Len(t) : s[i + 1] = t[i]
    OBVIOUS
  <2> HIDE DEF s, t
  <2>2. s \o x = <<a>> \o (t \o x)
    BY <2>1, ConsIs
  <2> QED
    BY <2>2 DEF s, t
<1>8. <<b, c, d>> \o x = <<b>> \o (<<c, d>> \o x)
  <2> DEFINE s == <<b, c, d>>
             t == <<c, d>>
  <2>1. s \in Seq(Work) /\ t \in Seq(Work) /\ Len(s) = Len(t) + 1 /\ s[1] = b
        /\ \A i \in 1..Len(t) : s[i + 1] = t[i]
    OBVIOUS
  <2> HIDE DEF s, t
  <2>2. s \o x = <<b>> \o (t \o x)
    BY <2>1, ConsIs
  <2> QED
    BY <2>2 DEF s, t
<1>9. <<c, d>> \o x = <<c>> \o (<<d>> \o x)
  <2> DEFINE s == <<c, d>>
             t == <<d>>
  <2>1. s \in Seq(Work) /\ t \in Seq(Work) /\ Len(s) = Len(t) + 1 /\ s[1] = c
        /\ \A i \in 1..Len(t) : s[i + 1] = t[i]
    OBVIOUS
  <2> HIDE DEF s, t
  <2>2. s \o x = <<c>> \o (t \o x)
    BY <2>1, ConsIs
  <2> QED
    BY <2>2 DEF s, t
<1>10. <<c, d, e>> \o x = <<c>> \o (<<d, e>> \o x)
  <2> DEFINE s == <<c, d, e>>
             t == <<d, e>>
  <2>1. s \in Seq(Work) /\ t \in Seq(Work) /\ Len(s) = Len(t) + 1 /\ s[1] = c
        /\ \A i \in 1..Len(t) : s[i + 1] = t[i]
    OBVIOUS
  <2> HIDE DEF s, t
  <2>2. s \o x = <<c>> \o (t \o x)
    BY <2>1, ConsIs
  <2> QED
    BY <2>2 DEF s, t
<1>11. <<d, e>> \o x = <<d>> \o (<<e>> \o x)
  <2> DEFINE s == <<d, e>>
             t == <<e>>
  <2>1. s \in Seq(Work) /\ t \in Seq(Work) /\ Len(s) = Len(t) + 1 /\ s[1] = d
        /\ \A i \in 1..Len(t) : s[i + 1] = t[i]
    OBVIOUS
  <2> HIDE DEF s, t
  <2>2. s \o x = <<d>> \o (t \o x)
    BY <2>1, ConsIs
  <2> QED
    BY <2>2 DEF s, t
<1>12. <<e, f, g>> \o x = <<e>> \o (<<f, g>> \o x)
  <2> DEFINE s == <<e, f, g>>
             t == <<f, g>>
  <2>1. s \in Seq(Work) /\ t \in Seq(Work) /\ Len(s) = Len(t) + 1 /\ s[1] = e
        /\ \A i \in 1..Len(t) : s[i + 1] = t[i]
    OBVIOUS
  <2> HIDE DEF s, t
  <2>2. s \o x = <<e>> \o (t \o x)
    BY <2>1, ConsIs
  <2> QED
    BY <2>2 DEF s, t
<1>13. <<f, g>> \o x = <<f>> \o (<<g>> \o x)
  <2> DEFINE s == <<f, g>>
             t == <<g>>
  <2>1. s \in Seq(Work) /\ t \in Seq(Work) /\ Len(s) = Len(t) + 1 /\ s[1] = f
        /\ \A i \in 1..Len(t) : s[i + 1] = t[i]
    OBVIOUS
  <2> HIDE DEF s, t
  <2>2. s \o x = <<f>> \o (t \o x)
    BY <2>1, ConsIs
  <2> QED
    BY <2>2 DEF s, t
<1> QED
  BY <1>1, <1>2, <1>3, <1>4, <1>5, <1>6, <1>7, <1>8, <1>9, <1>10, <1>11, <1>12, <1>13, Zenon

LEMMA IndexFits ==
  ASSUME NEW s, NEW n, s # <<>>, Fits(s, n), Head(s) \in Operand
  PROVE  Fits(<<"int">> \o Tail(s), n) /\ <<"int">> \o Tail(s) # <<>>
         /\ Head(<<"int">> \o Tail(s)) = "int"
         /\ In(<<"int">> \o Tail(s)) = {"int"} \cup In(Tail(s))
<1> DEFINE x == Tail(s)
<1>1. n \in Nat /\ Change(Head(s)) = 1 /\ Change("int") = 1 /\ Needs("int") = 0
      /\ "int" \in Work /\ "int" \in Operand /\ "int" \in Inside
  BY FitsTail DEF Change, Needs, Operand, Type, Work, Inside
<1>2. Fits(x, n + 1) /\ x # <<>> /\ Head(x) \in Follower /\ "call" \notin In(x)
  BY <1>1, FitsTail
<1> HIDE DEF x
<1>3. Fits(<<"int">> \o x, n) /\ <<"int">> \o x # <<>> /\ Head(<<"int">> \o x) = "int"
      /\ In(<<"int">> \o x) = {"int"} \cup In(x)
  BY <1>1, <1>2, FitsCons
<1> QED
  BY <1>3 DEF x

LEMMA BinaryFits ==
  ASSUME NEW s, NEW n, s # <<>>, Fits(s, n), Head(s) \in Type,
         NEW t \in Type, NEW o \in {"op", "rel"}
  PROVE  /\ Fits(<<t, t, o>> \o Tail(s), n)
         /\ <<t, t, o>> \o Tail(s) # <<>> /\ Head(<<t, t, o>> \o Tail(s)) = t
         /\ In(<<t, t, o>> \o Tail(s)) = {t, o} \cup In(Tail(s))
<1> DEFINE x == Tail(s)
           x1 == <<o>> \o x
           x2 == <<t>> \o x1
           x3 == <<t>> \o x2
<1>1. n \in Nat /\ Change(Head(s)) = 1 /\ Change(t) = 1 /\ Needs(t) = 0 /\ t \in Work
      /\ Change(o) = -1 /\ Needs(o) = 2 /\ o \in Work /\ o \in Inside /\ t \in Inside
      /\ o \notin Operand /\ o # "arg" /\ o # "stmts" /\ t # "arg" /\ t # "stmts"
      /\ o \in Follower /\ t \in Follower
  BY FitsTail DEF Change, Needs, Operand, Type, Work, Inside, Follower, Consumer
<1>2. Fits(x, n + 1) /\ "call" \notin In(x) /\ x \in Seq(Work)
  BY <1>1, FitsTail DEF Fits
<1>3. o # "call" /\ t # "call" /\ n + 1 \in Nat /\ n + 2 \in Nat /\ n + 2 >= 2 /\ n >= 0
      /\ n + 1 >= 0 /\ (n + 2) + (-1) = n + 1 /\ (n + 1) + 1 = n + 2
  BY <1>1 DEF Type
<1>4. <<t, t, o>> \o x = x3
  BY <1>1, <1>2, Concat3
<1> HIDE DEF x
<1>5. Fits(x1, n + 2) /\ x1 # <<>> /\ Head(x1) = o /\ In(x1) = {o} \cup In(x)
  BY <1>1, <1>2, <1>3, FitsCons
<1> HIDE DEF x1
<1>6. Fits(x2, n + 1) /\ x2 # <<>> /\ Head(x2) = t /\ In(x2) = {t} \cup In(x1)
  BY <1>1, <1>2, <1>3, <1>5, FitsCons
<1> HIDE DEF x2
<1>7. Fits(x3, n) /\ x3 # <<>> /\ Head(x3) = t /\ In(x3) = {t} \cup In(x2)
  BY <1>1, <1>2, <1>3, <1>5, <1>6, FitsCons
<1> HIDE DEF x3
<1> QED
  BY <1>4, <1>5, <1>6, <1>7 DEF x

LEMMA CallFits ==
  ASSUME NEW s, NEW n, s # <<>>, Fits(s, n), Head(s) \in Type
  PROVE  /\ Fits(<<"call">> \o Tail(s), n)
         /\ Head(<<"call">> \o Tail(s)) = "call" /\ <<"call">> \o Tail(s) # <<>>
         /\ In(<<"call">> \o Tail(s)) = {"call"} \cup In(Tail(s))
         /\ Fits(<<"int", "arg", "call_with_args">> \o Tail(s), n)
         /\ Head(<<"int", "arg", "call_with_args">> \o Tail(s)) = "int"
         /\ <<"int", "arg", "call_with_args">> \o Tail(s) # <<>>
         /\ "call_with_args" \in In(<<"int", "arg", "call_with_args">> \o Tail(s))
<1> DEFINE x == Tail(s)
           x1 == <<"call_with_args">> \o x
           x2 == <<"arg">> \o x1
           x3 == <<"int">> \o x2
<1>1. n \in Nat /\ Change(Head(s)) = 1 /\ Change("call") = 1 /\ Needs("call") = 0
      /\ "call" \in Inside /\ "call" \notin Operand
      /\ Change("int") = 1 /\ Needs("int") = 0
      /\ Change("arg") = -1 /\ Needs("arg") = 1 /\ "arg" \notin Operand
      /\ Change("call_with_args") = 1 /\ Needs("call_with_args") = 0
      /\ "call_with_args" \notin Operand /\ "arg" \in Follower
      /\ {"int", "arg", "call", "call_with_args"} \subseteq Work
      /\ {"int", "arg", "call", "call_with_args"} \subseteq Inside
  BY FitsTail DEF Change, Needs, Operand, Type, Work, Inside, Follower, Consumer
<1>2. Fits(x, n + 1) /\ "call" \notin In(x) /\ x \in Seq(Work)
  BY <1>1, FitsTail DEF Fits
<1>3. n + 1 \in Nat /\ n + 1 >= 1 /\ n >= 0 /\ n + 1 >= 0 /\ (n + 1) + (-1) = n
  BY <1>1
<1>4. <<"int", "arg", "call_with_args">> \o x = x3
  BY <1>1, <1>2, Concat3
<1> HIDE DEF x
<1>5. /\ Fits(<<"call">> \o x, n) /\ Head(<<"call">> \o x) = "call" /\ <<"call">> \o x # <<>>
      /\ In(<<"call">> \o x) = {"call"} \cup In(x)
  BY <1>1, <1>2, <1>3, FitsCons
<1>6. Fits(x1, n) /\ x1 # <<>> /\ Head(x1) = "call_with_args"
      /\ In(x1) = {"call_with_args"} \cup In(x)
  BY <1>1, <1>2, <1>3, FitsCons
<1> HIDE DEF x1
<1>7. Fits(x2, n + 1) /\ x2 # <<>> /\ Head(x2) = "arg" /\ In(x2) = {"arg"} \cup In(x1)
  BY <1>1, <1>2, <1>3, <1>6, FitsCons
<1> HIDE DEF x2
<1>8. Fits(x3, n) /\ x3 # <<>> /\ Head(x3) = "int" /\ In(x3) = {"int"} \cup In(x2)
  BY <1>1, <1>2, <1>3, <1>6, <1>7, FitsCons
<1> HIDE DEF x3
<1>9. "call_with_args" \in In(x3)
  BY <1>6, <1>7, <1>8
<1> QED
  BY <1>4, <1>5, <1>8, <1>9 DEF x

(* After an argument that was pushed comes another one, or the call. *)
LEMMA MoreFits ==
  ASSUME NEW s, NEW n, s # <<>>, Fits(s, n), Head(s) = "arg"
  PROVE  /\ Fits(<<"int", "arg">> \o Tail(s), n - 1)
         /\ <<"int", "arg">> \o Tail(s) # <<>> /\ Head(<<"int", "arg">> \o Tail(s)) = "int"
         /\ "call_with_args" \in In(<<"int", "arg">> \o Tail(s))
<1> DEFINE x == Tail(s)
           x2 == <<"arg">> \o x
           x3 == <<"int">> \o x2
<1>1. /\ Change("int") = 1 /\ Needs("int") = 0
      /\ Change("arg") = -1 /\ Needs("arg") = 1 /\ "arg" \notin Operand
      /\ "arg" \in Follower /\ {"int", "arg"} \subseteq Work /\ {"int", "arg"} \subseteq Inside
  BY DEF Change, Needs, Operand, Type, Work, Inside, Follower, Consumer
<1>2. /\ Fits(x, n + (-1)) /\ n \in Nat /\ n >= 1 /\ x # <<>> /\ Head(x) = "call_with_args"
      /\ "call" \notin In(x) /\ x \in Seq(Work)
  BY <1>1, FitsTail DEF Fits
<1>3. n - 1 \in Nat /\ n - 1 >= 0 /\ (n - 1) + 1 = n
  BY <1>2
<1>4. "call_with_args" \in In(x) /\ In(x) = {Head(x)} \cup In(Tail(x))
  <2> HIDE DEF x
  <2> QED
    BY <1>2, FitsTail
<1>5. <<"int", "arg">> \o x = x3
  BY <1>1, <1>2, Concat3
<1> HIDE DEF x
<1>6. Fits(x2, n) /\ x2 # <<>> /\ Head(x2) = "arg" /\ In(x2) = {"arg"} \cup In(x)
  BY <1>1, <1>2, FitsCons
<1> HIDE DEF x2
<1>7. Fits(x3, n - 1) /\ x3 # <<>> /\ Head(x3) = "int" /\ In(x3) = {"int"} \cup In(x2)
  BY <1>1, <1>2, <1>3, <1>6, FitsCons
<1> HIDE DEF x3
<1> QED
  BY <1>4, <1>5, <1>6, <1>7 DEF x

(* Before the statements that are left, the operands are the bounds of the *)
(* loops, and no call with arguments is pending.                           *)
LEMMA StmtsFits ==
  ASSUME NEW s, NEW n, s # <<>>, Fits(s, n), Head(s) = "stmts"
  PROVE  /\ n \in Nat /\ n = 2 * Agains(Tail(s)) /\ Tail(s) \in Seq(Work)
         /\ Agains(<<"stmts">> \o Tail(s)) = Agains(Tail(s))
         /\ Fits(<<"stmts">> \o Tail(s), n) /\ <<"stmts">> \o Tail(s) # <<>>
         /\ <<"stmts">> \o Tail(s) \in Seq(Work)
         /\ Head(<<"stmts">> \o Tail(s)) = "stmts"
         /\ "call" \notin In(Tail(s)) /\ "call_with_args" \notin In(Tail(s))
         /\ In(<<"stmts">> \o Tail(s)) = {"stmts"} \cup In(Tail(s))
<1>1. /\ Change("stmts") = 0 /\ Needs("stmts") = 0 /\ "stmts" \in Work
      /\ "stmts" \notin Operand /\ "stmts" \notin Inside /\ Ends("stmts") = 0
  BY DEF Change, Needs, Operand, Type, Work, Inside, Ends
<1>2. /\ n \in Nat /\ n = 2 * Agains(Tail(s)) /\ "call" \notin In(Tail(s))
      /\ "call_with_args" \notin In(Tail(s)) /\ Fits(Tail(s), n + 0) /\ n >= 0
  BY <1>1, FitsTail
<1>3. Tail(s) \in Seq(Work) /\ Agains(Tail(s)) \in Nat
  BY <1>1, <1>2, AgainsCons DEF Fits
<1>4. /\ Fits(<<"stmts">> \o Tail(s), n) /\ <<"stmts">> \o Tail(s) # <<>>
      /\ Head(<<"stmts">> \o Tail(s)) = "stmts"
      /\ In(<<"stmts">> \o Tail(s)) = {"stmts"} \cup In(Tail(s))
      /\ Agains(<<"stmts">> \o Tail(s)) = Agains(Tail(s)) + 0
  <2> DEFINE x == Tail(s)
  <2> HIDE DEF x
  <2>1. Fits(x, n + 0) /\ n = 2 * Agains(x) /\ "call" \notin In(x)
        /\ "call_with_args" \notin In(x)
    BY <1>2 DEF x
  <2>2. /\ Fits(<<"stmts">> \o x, n) /\ <<"stmts">> \o x # <<>>
        /\ Head(<<"stmts">> \o x) = "stmts"
        /\ In(<<"stmts">> \o x) = {"stmts"} \cup In(x)
        /\ Agains(<<"stmts">> \o x) = Agains(x) + 0
    BY <1>1, <1>2, <2>1, FitsCons
  <2> QED
    BY <2>2 DEF x
<1> QED
  BY <1>2, <1>3, <1>4 DEF Fits

(* An assignment. *)
LEMMA AssignFits ==
  ASSUME NEW s, NEW n, s # <<>>, Fits(s, n), Head(s) = "stmts", NEW t \in Type
  PROVE  /\ Fits(<<"lvalue", t, "assign", "stmts">> \o Tail(s), n)
         /\ <<"lvalue", t, "assign", "stmts">> \o Tail(s) # <<>>
         /\ Head(<<"lvalue", t, "assign", "stmts">> \o Tail(s)) = "lvalue"
         /\ "call_with_args" \notin In(<<"lvalue", t, "assign", "stmts">> \o Tail(s))
<1> DEFINE x == Tail(s)
           y0 == <<"stmts">> \o x
           y1 == <<"assign">> \o y0
           y2 == <<t>> \o y1
           y3 == <<"lvalue">> \o y2
<1>1. /\ "assign" \in Work /\ Change("assign") = -2 /\ Needs("assign") = 2 /\ Ends("assign") = 0
      /\ "assign" \notin Operand /\ "assign" \in Follower /\ "assign" \notin Inside
      /\ "lvalue" \in Work /\ Change("lvalue") = 1 /\ Needs("lvalue") = 0 /\ Ends("lvalue") = 0
      /\ "lvalue" \in Operand /\ "lvalue" \notin Follower /\ "lvalue" \in Inside
      /\ t \in Work /\ Change(t) = 1 /\ Needs(t) = 0 /\ Ends(t) = 0
      /\ t \in Operand /\ t \in Follower /\ t \in Inside
      /\ t # "arg" /\ t # "call" /\ t # "call_with_args" /\ t # "stmts"
  BY DEF Change, Needs, Ends, Operand, Type, Work, Inside, Follower, Consumer
<1>2. /\ n \in Nat /\ n = 2 * Agains(x) /\ x \in Seq(Work) /\ Fits(y0, n) /\ y0 # <<>>
      /\ Head(y0) = "stmts" /\ "call" \notin In(x) /\ "call_with_args" \notin In(x)
      /\ In(y0) = {"stmts"} \cup In(x) /\ Agains(y0) = Agains(x) /\ y0 \in Seq(Work)
  BY StmtsFits
<1>3. n + 0 = n /\ n + 1 \in Nat /\ n + 2 \in Nat /\ (n + 1) + 1 = n + 2 /\ (n + 1) + (-1) = n
      /\ (n + 2) + (-1) = n + 1 /\ (n + 2) + (-2) = n /\ (n + 1) + 0 = n + 1 /\ (n + 2) + 0 = n + 2
      /\ n >= 0 /\ n + 1 >= 0 /\ n + 1 >= 1 /\ n + 2 >= 0 /\ n + 2 >= 1 /\ n + 2 >= 2
  BY <1>2
<1>4. <<"lvalue", t, "assign", "stmts">> \o x = y3
  BY <1>1, <1>2, Concat7 DEF Work
<1>5. Agains(x) \in Nat /\ Agains(x) + 0 = Agains(x) /\ n + 2 = 2 * (Agains(x) + 1)
  <2>1. Agains(x) \in Nat
    BY <1>2, AgainsCons DEF Work
  <2> QED
    BY <1>2, <2>1
<1> HIDE DEF x, y0
<1>6. /\ Fits(y1, n + 2) /\ y1 # <<>> /\ Head(y1) = "assign"
      /\ In(y1) = {"assign"} \cup In(y0) /\ Agains(y1) = Agains(x)
  <2>1. /\ "assign" \in Work /\ n + 2 \in Nat /\ Fits(y0, n)
        /\ n = (n + 2) + Change("assign") /\ n + 2 >= Needs("assign")
    BY <1>1, <1>2, <1>2, <1>3
  <2>2. "assign" # "stmts"
    BY <1>1
  <2>3. "assign" \in Operand => y0 # <<>> /\ Head(y0) \in Follower
    BY <1>1, <1>2
  <2>4. "assign" = "arg" => y0 # <<>> /\ Head(y0) = "call_with_args"
    BY <1>1, <1>2
  <2>5. "call" \notin In(y0) /\ ("call_with_args" \in In(y0) => "assign" \in Inside)
    BY <1>1, <1>2
  <2>6. /\ Fits(y1, n + 2) /\ y1 # <<>> /\ Head(y1) = "assign"
        /\ In(y1) = {"assign"} \cup In(y0) /\ Agains(y1) = Agains(y0) + Ends("assign")
    BY <2>1, <2>2, <2>3, <2>4, <2>5, FitsCons
  <2> QED
    BY <2>6, <1>1, <1>2, <1>2, <1>5
<1> HIDE DEF y1
<1>7. /\ Fits(y2, n + 1) /\ y2 # <<>> /\ Head(y2) = t
      /\ In(y2) = {t} \cup In(y1) /\ Agains(y2) = Agains(x)
  <2>1. /\ t \in Work /\ n + 1 \in Nat /\ Fits(y1, n + 2)
        /\ n + 2 = (n + 1) + Change(t) /\ n + 1 >= Needs(t)
    BY <1>1, <1>6, <1>2, <1>3
  <2>2. t # "stmts"
    BY <1>1
  <2>3. t \in Operand => y1 # <<>> /\ Head(y1) \in Follower
    BY <1>1, <1>6
  <2>4. t = "arg" => y1 # <<>> /\ Head(y1) = "call_with_args"
    BY <1>1, <1>6
  <2>5. "call" \notin In(y1) /\ ("call_with_args" \in In(y1) => t \in Inside)
    BY <1>1, <1>2, <1>6
  <2>6. /\ Fits(y2, n + 1) /\ y2 # <<>> /\ Head(y2) = t
        /\ In(y2) = {t} \cup In(y1) /\ Agains(y2) = Agains(y1) + Ends(t)
    BY <2>1, <2>2, <2>3, <2>4, <2>5, FitsCons
  <2> QED
    BY <2>6, <1>1, <1>6, <1>2, <1>5
<1> HIDE DEF y2
<1>8. /\ Fits(y3, n) /\ y3 # <<>> /\ Head(y3) = "lvalue"
      /\ In(y3) = {"lvalue"} \cup In(y2) /\ Agains(y3) = Agains(x)
  <2>1. /\ "lvalue" \in Work /\ n \in Nat /\ Fits(y2, n + 1)
        /\ n + 1 = (n) + Change("lvalue") /\ n >= Needs("lvalue")
    BY <1>1, <1>7, <1>2, <1>3
  <2>2. "lvalue" # "stmts"
    BY <1>1
  <2>3. "lvalue" \in Operand => y2 # <<>> /\ Head(y2) \in Follower
    BY <1>1, <1>7
  <2>4. "lvalue" = "arg" => y2 # <<>> /\ Head(y2) = "call_with_args"
    BY <1>1, <1>7
  <2>5. "call" \notin In(y2) /\ ("call_with_args" \in In(y2) => "lvalue" \in Inside)
    BY <1>1, <1>2, <1>6, <1>7
  <2>6. /\ Fits(y3, n) /\ y3 # <<>> /\ Head(y3) = "lvalue"
        /\ In(y3) = {"lvalue"} \cup In(y2) /\ Agains(y3) = Agains(y2) + Ends("lvalue")
    BY <2>1, <2>2, <2>3, <2>4, <2>5, FitsCons
  <2> QED
    BY <2>6, <1>1, <1>7, <1>2, <1>5
<1> HIDE DEF y3
<1>9. "call_with_args" \notin In(y3)
  BY <1>1, <1>2, <1>6, <1>7, <1>8
<1> QED
  BY <1>4, <1>8, <1>9 DEF x

(* A conditional with one body, or a WHILE. *)
LEMMA IfFits ==
  ASSUME NEW s, NEW n, s # <<>>, Fits(s, n), Head(s) = "stmts"
  PROVE  /\ Fits(<<"bool", "cond", "stmts", "stmts">> \o Tail(s), n)
         /\ <<"bool", "cond", "stmts", "stmts">> \o Tail(s) # <<>>
         /\ Head(<<"bool", "cond", "stmts", "stmts">> \o Tail(s)) = "bool"
         /\ "call_with_args" \notin In(<<"bool", "cond", "stmts", "stmts">> \o Tail(s))
<1> DEFINE x == Tail(s)
           y0 == <<"stmts">> \o x
           y1 == <<"stmts">> \o y0
           y2 == <<"cond">> \o y1
           y3 == <<"bool">> \o y2
<1>1. /\ "bool" \in Work /\ Change("bool") = 1 /\ Needs("bool") = 0 /\ Ends("bool") = 0
      /\ "bool" \in Operand /\ "bool" \in Follower /\ "bool" \in Inside
      /\ "cond" \in Work /\ Change("cond") = -1 /\ Needs("cond") = 1 /\ Ends("cond") = 0
      /\ "cond" \notin Operand /\ "cond" \in Follower /\ "cond" \notin Inside
      /\ "stmts" \in Work /\ Change("stmts") = 0 /\ Needs("stmts") = 0 /\ Ends("stmts") = 0
      /\ "stmts" \notin Operand /\ "stmts" \notin Follower /\ "stmts" \notin Inside
  BY DEF Change, Needs, Ends, Operand, Type, Work, Inside, Follower, Consumer
<1>2. /\ n \in Nat /\ n = 2 * Agains(x) /\ x \in Seq(Work) /\ Fits(y0, n) /\ y0 # <<>>
      /\ Head(y0) = "stmts" /\ "call" \notin In(x) /\ "call_with_args" \notin In(x)
      /\ In(y0) = {"stmts"} \cup In(x) /\ Agains(y0) = Agains(x) /\ y0 \in Seq(Work)
  BY StmtsFits
<1>3. n + 0 = n /\ n + 1 \in Nat /\ n + 2 \in Nat /\ (n + 1) + 1 = n + 2 /\ (n + 1) + (-1) = n
      /\ (n + 2) + (-1) = n + 1 /\ (n + 2) + (-2) = n /\ (n + 1) + 0 = n + 1 /\ (n + 2) + 0 = n + 2
      /\ n >= 0 /\ n + 1 >= 0 /\ n + 1 >= 1 /\ n + 2 >= 0 /\ n + 2 >= 1 /\ n + 2 >= 2
  BY <1>2
<1>4. <<"bool", "cond", "stmts", "stmts">> \o x = y3
  BY <1>1, <1>2, Concat7 DEF Work
<1>5. Agains(x) \in Nat /\ Agains(x) + 0 = Agains(x) /\ n + 2 = 2 * (Agains(x) + 1)
  <2>1. Agains(x) \in Nat
    BY <1>2, AgainsCons DEF Work
  <2> QED
    BY <1>2, <2>1
<1> HIDE DEF x, y0
<1>6. /\ Fits(y1, n) /\ y1 # <<>> /\ Head(y1) = "stmts"
      /\ In(y1) = {"stmts"} \cup In(y0) /\ Agains(y1) = Agains(x)
  <2>1. /\ "stmts" \in Work /\ n \in Nat /\ Fits(y0, n)
        /\ n = (n) + Change("stmts") /\ n >= Needs("stmts")
    BY <1>1, <1>2, <1>2, <1>3
  <2>2. n = 2 * Agains(y0)
    BY <1>2, <1>2, <1>5
  <2>3. "stmts" \in Operand => y0 # <<>> /\ Head(y0) \in Follower
    BY <1>1, <1>2
  <2>4. "stmts" = "arg" => y0 # <<>> /\ Head(y0) = "call_with_args"
    BY <1>1, <1>2
  <2>5. "call" \notin In(y0) /\ ("call_with_args" \in In(y0) => "stmts" \in Inside)
    BY <1>1, <1>2
  <2>6. /\ Fits(y1, n) /\ y1 # <<>> /\ Head(y1) = "stmts"
        /\ In(y1) = {"stmts"} \cup In(y0) /\ Agains(y1) = Agains(y0) + Ends("stmts")
    BY <2>1, <2>2, <2>3, <2>4, <2>5, FitsCons
  <2> QED
    BY <2>6, <1>1, <1>2, <1>2, <1>5
<1> HIDE DEF y1
<1>7. /\ Fits(y2, n + 1) /\ y2 # <<>> /\ Head(y2) = "cond"
      /\ In(y2) = {"cond"} \cup In(y1) /\ Agains(y2) = Agains(x)
  <2>1. /\ "cond" \in Work /\ n + 1 \in Nat /\ Fits(y1, n)
        /\ n = (n + 1) + Change("cond") /\ n + 1 >= Needs("cond")
    BY <1>1, <1>6, <1>2, <1>3
  <2>2. "cond" # "stmts"
    BY <1>1
  <2>3. "cond" \in Operand => y1 # <<>> /\ Head(y1) \in Follower
    BY <1>1, <1>6
  <2>4. "cond" = "arg" => y1 # <<>> /\ Head(y1) = "call_with_args"
    BY <1>1, <1>6
  <2>5. "call" \notin In(y1) /\ ("call_with_args" \in In(y1) => "cond" \in Inside)
    BY <1>1, <1>2, <1>6
  <2>6. /\ Fits(y2, n + 1) /\ y2 # <<>> /\ Head(y2) = "cond"
        /\ In(y2) = {"cond"} \cup In(y1) /\ Agains(y2) = Agains(y1) + Ends("cond")
    BY <2>1, <2>2, <2>3, <2>4, <2>5, FitsCons
  <2> QED
    BY <2>6, <1>1, <1>6, <1>2, <1>5
<1> HIDE DEF y2
<1>8. /\ Fits(y3, n) /\ y3 # <<>> /\ Head(y3) = "bool"
      /\ In(y3) = {"bool"} \cup In(y2) /\ Agains(y3) = Agains(x)
  <2>1. /\ "bool" \in Work /\ n \in Nat /\ Fits(y2, n + 1)
        /\ n + 1 = (n) + Change("bool") /\ n >= Needs("bool")
    BY <1>1, <1>7, <1>2, <1>3
  <2>2. "bool" # "stmts"
    BY <1>1
  <2>3. "bool" \in Operand => y2 # <<>> /\ Head(y2) \in Follower
    BY <1>1, <1>7
  <2>4. "bool" = "arg" => y2 # <<>> /\ Head(y2) = "call_with_args"
    BY <1>1, <1>7
  <2>5. "call" \notin In(y2) /\ ("call_with_args" \in In(y2) => "bool" \in Inside)
    BY <1>1, <1>2, <1>6, <1>7
  <2>6. /\ Fits(y3, n) /\ y3 # <<>> /\ Head(y3) = "bool"
        /\ In(y3) = {"bool"} \cup In(y2) /\ Agains(y3) = Agains(y2) + Ends("bool")
    BY <2>1, <2>2, <2>3, <2>4, <2>5, FitsCons
  <2> QED
    BY <2>6, <1>1, <1>7, <1>2, <1>5
<1> HIDE DEF y3
<1>9. "call_with_args" \notin In(y3)
  BY <1>1, <1>2, <1>6, <1>7, <1>8
<1> QED
  BY <1>4, <1>8, <1>9 DEF x

(* ... with two. *)
LEMMA IfElseFits ==
  ASSUME NEW s, NEW n, s # <<>>, Fits(s, n), Head(s) = "stmts"
  PROVE  /\ Fits(<<"bool", "cond", "stmts", "stmts", "stmts">> \o Tail(s), n)
         /\ <<"bool", "cond", "stmts", "stmts", "stmts">> \o Tail(s) # <<>>
         /\ Head(<<"bool", "cond", "stmts", "stmts", "stmts">> \o Tail(s)) = "bool"
         /\ "call_with_args" \notin In(<<"bool", "cond", "stmts", "stmts", "stmts">> \o Tail(s))
<1> DEFINE x == Tail(s)
           y0 == <<"stmts">> \o x
           y1 == <<"stmts">> \o y0
           y2 == <<"stmts">> \o y1
           y3 == <<"cond">> \o y2
           y4 == <<"bool">> \o y3
<1>1. /\ "bool" \in Work /\ Change("bool") = 1 /\ Needs("bool") = 0 /\ Ends("bool") = 0
      /\ "bool" \in Operand /\ "bool" \in Follower /\ "bool" \in Inside
      /\ "cond" \in Work /\ Change("cond") = -1 /\ Needs("cond") = 1 /\ Ends("cond") = 0
      /\ "cond" \notin Operand /\ "cond" \in Follower /\ "cond" \notin Inside
      /\ "stmts" \in Work /\ Change("stmts") = 0 /\ Needs("stmts") = 0 /\ Ends("stmts") = 0
      /\ "stmts" \notin Operand /\ "stmts" \notin Follower /\ "stmts" \notin Inside
  BY DEF Change, Needs, Ends, Operand, Type, Work, Inside, Follower, Consumer
<1>2. /\ n \in Nat /\ n = 2 * Agains(x) /\ x \in Seq(Work) /\ Fits(y0, n) /\ y0 # <<>>
      /\ Head(y0) = "stmts" /\ "call" \notin In(x) /\ "call_with_args" \notin In(x)
      /\ In(y0) = {"stmts"} \cup In(x) /\ Agains(y0) = Agains(x) /\ y0 \in Seq(Work)
  BY StmtsFits
<1>3. n + 0 = n /\ n + 1 \in Nat /\ n + 2 \in Nat /\ (n + 1) + 1 = n + 2 /\ (n + 1) + (-1) = n
      /\ (n + 2) + (-1) = n + 1 /\ (n + 2) + (-2) = n /\ (n + 1) + 0 = n + 1 /\ (n + 2) + 0 = n + 2
      /\ n >= 0 /\ n + 1 >= 0 /\ n + 1 >= 1 /\ n + 2 >= 0 /\ n + 2 >= 1 /\ n + 2 >= 2
  BY <1>2
<1>4. <<"bool", "cond", "stmts", "stmts", "stmts">> \o x = y4
  BY <1>1, <1>2, Concat7 DEF Work
<1>5. Agains(x) \in Nat /\ Agains(x) + 0 = Agains(x) /\ n + 2 = 2 * (Agains(x) + 1)
  <2>1. Agains(x) \in Nat
    BY <1>2, AgainsCons DEF Work
  <2> QED
    BY <1>2, <2>1
<1> HIDE DEF x, y0
<1>6. /\ Fits(y1, n) /\ y1 # <<>> /\ Head(y1) = "stmts"
      /\ In(y1) = {"stmts"} \cup In(y0) /\ Agains(y1) = Agains(x)
  <2>1. /\ "stmts" \in Work /\ n \in Nat /\ Fits(y0, n)
        /\ n = (n) + Change("stmts") /\ n >= Needs("stmts")
    BY <1>1, <1>2, <1>2, <1>3
  <2>2. n = 2 * Agains(y0)
    BY <1>2, <1>2, <1>5
  <2>3. "stmts" \in Operand => y0 # <<>> /\ Head(y0) \in Follower
    BY <1>1, <1>2
  <2>4. "stmts" = "arg" => y0 # <<>> /\ Head(y0) = "call_with_args"
    BY <1>1, <1>2
  <2>5. "call" \notin In(y0) /\ ("call_with_args" \in In(y0) => "stmts" \in Inside)
    BY <1>1, <1>2
  <2>6. /\ Fits(y1, n) /\ y1 # <<>> /\ Head(y1) = "stmts"
        /\ In(y1) = {"stmts"} \cup In(y0) /\ Agains(y1) = Agains(y0) + Ends("stmts")
    BY <2>1, <2>2, <2>3, <2>4, <2>5, FitsCons
  <2> QED
    BY <2>6, <1>1, <1>2, <1>2, <1>5
<1> HIDE DEF y1
<1>7. /\ Fits(y2, n) /\ y2 # <<>> /\ Head(y2) = "stmts"
      /\ In(y2) = {"stmts"} \cup In(y1) /\ Agains(y2) = Agains(x)
  <2>1. /\ "stmts" \in Work /\ n \in Nat /\ Fits(y1, n)
        /\ n = (n) + Change("stmts") /\ n >= Needs("stmts")
    BY <1>1, <1>6, <1>2, <1>3
  <2>2. n = 2 * Agains(y1)
    BY <1>6, <1>2, <1>5
  <2>3. "stmts" \in Operand => y1 # <<>> /\ Head(y1) \in Follower
    BY <1>1, <1>6
  <2>4. "stmts" = "arg" => y1 # <<>> /\ Head(y1) = "call_with_args"
    BY <1>1, <1>6
  <2>5. "call" \notin In(y1) /\ ("call_with_args" \in In(y1) => "stmts" \in Inside)
    BY <1>1, <1>2, <1>6
  <2>6. /\ Fits(y2, n) /\ y2 # <<>> /\ Head(y2) = "stmts"
        /\ In(y2) = {"stmts"} \cup In(y1) /\ Agains(y2) = Agains(y1) + Ends("stmts")
    BY <2>1, <2>2, <2>3, <2>4, <2>5, FitsCons
  <2> QED
    BY <2>6, <1>1, <1>6, <1>2, <1>5
<1> HIDE DEF y2
<1>8. /\ Fits(y3, n + 1) /\ y3 # <<>> /\ Head(y3) = "cond"
      /\ In(y3) = {"cond"} \cup In(y2) /\ Agains(y3) = Agains(x)
  <2>1. /\ "cond" \in Work /\ n + 1 \in Nat /\ Fits(y2, n)
        /\ n = (n + 1) + Change("cond") /\ n + 1 >= Needs("cond")
    BY <1>1, <1>7, <1>2, <1>3
  <2>2. "cond" # "stmts"
    BY <1>1
  <2>3. "cond" \in Operand => y2 # <<>> /\ Head(y2) \in Follower
    BY <1>1, <1>7
  <2>4. "cond" = "arg" => y2 # <<>> /\ Head(y2) = "call_with_args"
    BY <1>1, <1>7
  <2>5. "call" \notin In(y2) /\ ("call_with_args" \in In(y2) => "cond" \in Inside)
    BY <1>1, <1>2, <1>6, <1>7
  <2>6. /\ Fits(y3, n + 1) /\ y3 # <<>> /\ Head(y3) = "cond"
        /\ In(y3) = {"cond"} \cup In(y2) /\ Agains(y3) = Agains(y2) + Ends("cond")
    BY <2>1, <2>2, <2>3, <2>4, <2>5, FitsCons
  <2> QED
    BY <2>6, <1>1, <1>7, <1>2, <1>5
<1> HIDE DEF y3
<1>9. /\ Fits(y4, n) /\ y4 # <<>> /\ Head(y4) = "bool"
      /\ In(y4) = {"bool"} \cup In(y3) /\ Agains(y4) = Agains(x)
  <2>1. /\ "bool" \in Work /\ n \in Nat /\ Fits(y3, n + 1)
        /\ n + 1 = (n) + Change("bool") /\ n >= Needs("bool")
    BY <1>1, <1>8, <1>2, <1>3
  <2>2. "bool" # "stmts"
    BY <1>1
  <2>3. "bool" \in Operand => y3 # <<>> /\ Head(y3) \in Follower
    BY <1>1, <1>8
  <2>4. "bool" = "arg" => y3 # <<>> /\ Head(y3) = "call_with_args"
    BY <1>1, <1>8
  <2>5. "call" \notin In(y3) /\ ("call_with_args" \in In(y3) => "bool" \in Inside)
    BY <1>1, <1>2, <1>6, <1>7, <1>8
  <2>6. /\ Fits(y4, n) /\ y4 # <<>> /\ Head(y4) = "bool"
        /\ In(y4) = {"bool"} \cup In(y3) /\ Agains(y4) = Agains(y3) + Ends("bool")
    BY <2>1, <2>2, <2>3, <2>4, <2>5, FitsCons
  <2> QED
    BY <2>6, <1>1, <1>8, <1>2, <1>5
<1> HIDE DEF y4
<1>10. "call_with_args" \notin In(y4)
  BY <1>1, <1>2, <1>6, <1>7, <1>8, <1>9
<1> QED
  BY <1>4, <1>9, <1>10 DEF x

(* A FOR loop. *)
LEMMA ForFits ==
  ASSUME NEW s, NEW n, s # <<>>, Fits(s, n), Head(s) = "stmts"
  PROVE  /\ Fits(<<"int", "int", "variable", "test", "stmts", "again", "stmts">> \o Tail(s), n)
         /\ <<"int", "int", "variable", "test", "stmts", "again", "stmts">> \o Tail(s) # <<>>
         /\ Head(<<"int", "int", "variable", "test", "stmts", "again", "stmts">> \o Tail(s)) = "int"
         /\ "call_with_args" \notin In(<<"int", "int", "variable", "test", "stmts", "again", "stmts">> \o Tail(s))
<1> DEFINE x == Tail(s)
           y0 == <<"stmts">> \o x
           y1 == <<"again">> \o y0
           y2 == <<"stmts">> \o y1
           y3 == <<"test">> \o y2
           y4 == <<"variable">> \o y3
           y5 == <<"int">> \o y4
           y6 == <<"int">> \o y5
<1>1. /\ "again" \in Work /\ Change("again") = -2 /\ Needs("again") = 2 /\ Ends("again") = 1
      /\ "again" \notin Operand /\ "again" \notin Follower /\ "again" \notin Inside
      /\ "int" \in Work /\ Change("int") = 1 /\ Needs("int") = 0 /\ Ends("int") = 0
      /\ "int" \in Operand /\ "int" \in Follower /\ "int" \in Inside
      /\ "stmts" \in Work /\ Change("stmts") = 0 /\ Needs("stmts") = 0 /\ Ends("stmts") = 0
      /\ "stmts" \notin Operand /\ "stmts" \notin Follower /\ "stmts" \notin Inside
      /\ "test" \in Work /\ Change("test") = 0 /\ Needs("test") = 2 /\ Ends("test") = 0
      /\ "test" \notin Operand /\ "test" \notin Follower /\ "test" \notin Inside
      /\ "variable" \in Work /\ Change("variable") = 0 /\ Needs("variable") = 0 /\ Ends("variable") = 0
      /\ "variable" \notin Operand /\ "variable" \in Follower /\ "variable" \notin Inside
  BY DEF Change, Needs, Ends, Operand, Type, Work, Inside, Follower, Consumer
<1>2. /\ n \in Nat /\ n = 2 * Agains(x) /\ x \in Seq(Work) /\ Fits(y0, n) /\ y0 # <<>>
      /\ Head(y0) = "stmts" /\ "call" \notin In(x) /\ "call_with_args" \notin In(x)
      /\ In(y0) = {"stmts"} \cup In(x) /\ Agains(y0) = Agains(x) /\ y0 \in Seq(Work)
  BY StmtsFits
<1>3. n + 0 = n /\ n + 1 \in Nat /\ n + 2 \in Nat /\ (n + 1) + 1 = n + 2 /\ (n + 1) + (-1) = n
      /\ (n + 2) + (-1) = n + 1 /\ (n + 2) + (-2) = n /\ (n + 1) + 0 = n + 1 /\ (n + 2) + 0 = n + 2
      /\ n >= 0 /\ n + 1 >= 0 /\ n + 1 >= 1 /\ n + 2 >= 0 /\ n + 2 >= 1 /\ n + 2 >= 2
  BY <1>2
<1>4. <<"int", "int", "variable", "test", "stmts", "again", "stmts">> \o x = y6
  BY <1>1, <1>2, Concat7 DEF Work
<1>5. Agains(x) \in Nat /\ Agains(x) + 0 = Agains(x) /\ n + 2 = 2 * (Agains(x) + 1)
  <2>1. Agains(x) \in Nat
    BY <1>2, AgainsCons DEF Work
  <2> QED
    BY <1>2, <2>1
<1> HIDE DEF x, y0
<1>6. /\ Fits(y1, n + 2) /\ y1 # <<>> /\ Head(y1) = "again"
      /\ In(y1) = {"again"} \cup In(y0) /\ Agains(y1) = Agains(x) + 1
  <2>1. /\ "again" \in Work /\ n + 2 \in Nat /\ Fits(y0, n)
        /\ n = (n + 2) + Change("again") /\ n + 2 >= Needs("again")
    BY <1>1, <1>2, <1>2, <1>3
  <2>2. "again" # "stmts"
    BY <1>1
  <2>3. "again" \in Operand => y0 # <<>> /\ Head(y0) \in Follower
    BY <1>1, <1>2
  <2>4. "again" = "arg" => y0 # <<>> /\ Head(y0) = "call_with_args"
    BY <1>1, <1>2
  <2>5. "call" \notin In(y0) /\ ("call_with_args" \in In(y0) => "again" \in Inside)
    BY <1>1, <1>2
  <2>6. /\ Fits(y1, n + 2) /\ y1 # <<>> /\ Head(y1) = "again"
        /\ In(y1) = {"again"} \cup In(y0) /\ Agains(y1) = Agains(y0) + Ends("again")
    BY <2>1, <2>2, <2>3, <2>4, <2>5, FitsCons
  <2> QED
    BY <2>6, <1>1, <1>2, <1>2, <1>5
<1> HIDE DEF y1
<1>7. /\ Fits(y2, n + 2) /\ y2 # <<>> /\ Head(y2) = "stmts"
      /\ In(y2) = {"stmts"} \cup In(y1) /\ Agains(y2) = Agains(x) + 1
  <2>1. /\ "stmts" \in Work /\ n + 2 \in Nat /\ Fits(y1, n + 2)
        /\ n + 2 = (n + 2) + Change("stmts") /\ n + 2 >= Needs("stmts")
    BY <1>1, <1>6, <1>2, <1>3
  <2>2. n + 2 = 2 * Agains(y1)
    BY <1>6, <1>2, <1>5
  <2>3. "stmts" \in Operand => y1 # <<>> /\ Head(y1) \in Follower
    BY <1>1, <1>6
  <2>4. "stmts" = "arg" => y1 # <<>> /\ Head(y1) = "call_with_args"
    BY <1>1, <1>6
  <2>5. "call" \notin In(y1) /\ ("call_with_args" \in In(y1) => "stmts" \in Inside)
    BY <1>1, <1>2, <1>6
  <2>6. /\ Fits(y2, n + 2) /\ y2 # <<>> /\ Head(y2) = "stmts"
        /\ In(y2) = {"stmts"} \cup In(y1) /\ Agains(y2) = Agains(y1) + Ends("stmts")
    BY <2>1, <2>2, <2>3, <2>4, <2>5, FitsCons
  <2> QED
    BY <2>6, <1>1, <1>6, <1>2, <1>5
<1> HIDE DEF y2
<1>8. /\ Fits(y3, n + 2) /\ y3 # <<>> /\ Head(y3) = "test"
      /\ In(y3) = {"test"} \cup In(y2) /\ Agains(y3) = Agains(x) + 1
  <2>1. /\ "test" \in Work /\ n + 2 \in Nat /\ Fits(y2, n + 2)
        /\ n + 2 = (n + 2) + Change("test") /\ n + 2 >= Needs("test")
    BY <1>1, <1>7, <1>2, <1>3
  <2>2. "test" # "stmts"
    BY <1>1
  <2>3. "test" \in Operand => y2 # <<>> /\ Head(y2) \in Follower
    BY <1>1, <1>7
  <2>4. "test" = "arg" => y2 # <<>> /\ Head(y2) = "call_with_args"
    BY <1>1, <1>7
  <2>5. "call" \notin In(y2) /\ ("call_with_args" \in In(y2) => "test" \in Inside)
    BY <1>1, <1>2, <1>6, <1>7
  <2>6. /\ Fits(y3, n + 2) /\ y3 # <<>> /\ Head(y3) = "test"
        /\ In(y3) = {"test"} \cup In(y2) /\ Agains(y3) = Agains(y2) + Ends("test")
    BY <2>1, <2>2, <2>3, <2>4, <2>5, FitsCons
  <2> QED
    BY <2>6, <1>1, <1>7, <1>2, <1>5
<1> HIDE DEF y3
<1>9. /\ Fits(y4, n + 2) /\ y4 # <<>> /\ Head(y4) = "variable"
      /\ In(y4) = {"variable"} \cup In(y3) /\ Agains(y4) = Agains(x) + 1
  <2>1. /\ "variable" \in Work /\ n + 2 \in Nat /\ Fits(y3, n + 2)
        /\ n + 2 = (n + 2) + Change("variable") /\ n + 2 >= Needs("variable")
    BY <1>1, <1>8, <1>2, <1>3
  <2>2. "variable" # "stmts"
    BY <1>1
  <2>3. "variable" \in Operand => y3 # <<>> /\ Head(y3) \in Follower
    BY <1>1, <1>8
  <2>4. "variable" = "arg" => y3 # <<>> /\ Head(y3) = "call_with_args"
    BY <1>1, <1>8
  <2>5. "call" \notin In(y3) /\ ("call_with_args" \in In(y3) => "variable" \in Inside)
    BY <1>1, <1>2, <1>6, <1>7, <1>8
  <2>6. /\ Fits(y4, n + 2) /\ y4 # <<>> /\ Head(y4) = "variable"
        /\ In(y4) = {"variable"} \cup In(y3) /\ Agains(y4) = Agains(y3) + Ends("variable")
    BY <2>1, <2>2, <2>3, <2>4, <2>5, FitsCons
  <2> QED
    BY <2>6, <1>1, <1>8, <1>2, <1>5
<1> HIDE DEF y4
<1>10. /\ Fits(y5, n + 1) /\ y5 # <<>> /\ Head(y5) = "int"
      /\ In(y5) = {"int"} \cup In(y4) /\ Agains(y5) = Agains(x) + 1
  <2>1. /\ "int" \in Work /\ n + 1 \in Nat /\ Fits(y4, n + 2)
        /\ n + 2 = (n + 1) + Change("int") /\ n + 1 >= Needs("int")
    BY <1>1, <1>9, <1>2, <1>3
  <2>2. "int" # "stmts"
    BY <1>1
  <2>3. "int" \in Operand => y4 # <<>> /\ Head(y4) \in Follower
    BY <1>1, <1>9
  <2>4. "int" = "arg" => y4 # <<>> /\ Head(y4) = "call_with_args"
    BY <1>1, <1>9
  <2>5. "call" \notin In(y4) /\ ("call_with_args" \in In(y4) => "int" \in Inside)
    BY <1>1, <1>2, <1>6, <1>7, <1>8, <1>9
  <2>6. /\ Fits(y5, n + 1) /\ y5 # <<>> /\ Head(y5) = "int"
        /\ In(y5) = {"int"} \cup In(y4) /\ Agains(y5) = Agains(y4) + Ends("int")
    BY <2>1, <2>2, <2>3, <2>4, <2>5, FitsCons
  <2> QED
    BY <2>6, <1>1, <1>9, <1>2, <1>5
<1> HIDE DEF y5
<1>11. /\ Fits(y6, n) /\ y6 # <<>> /\ Head(y6) = "int"
      /\ In(y6) = {"int"} \cup In(y5) /\ Agains(y6) = Agains(x) + 1
  <2>1. /\ "int" \in Work /\ n \in Nat /\ Fits(y5, n + 1)
        /\ n + 1 = (n) + Change("int") /\ n >= Needs("int")
    BY <1>1, <1>10, <1>2, <1>3
  <2>2. "int" # "stmts"
    BY <1>1
  <2>3. "int" \in Operand => y5 # <<>> /\ Head(y5) \in Follower
    BY <1>1, <1>10
  <2>4. "int" = "arg" => y5 # <<>> /\ Head(y5) = "call_with_args"
    BY <1>1, <1>10
  <2>5. "call" \notin In(y5) /\ ("call_with_args" \in In(y5) => "int" \in Inside)
    BY <1>1, <1>2, <1>6, <1>7, <1>8, <1>9, <1>10
  <2>6. /\ Fits(y6, n) /\ y6 # <<>> /\ Head(y6) = "int"
        /\ In(y6) = {"int"} \cup In(y5) /\ Agains(y6) = Agains(y5) + Ends("int")
    BY <2>1, <2>2, <2>3, <2>4, <2>5, FitsCons
  <2> QED
    BY <2>6, <1>1, <1>10, <1>2, <1>5
<1> HIDE DEF y6
<1>12. "call_with_args" \notin In(y6)
  BY <1>1, <1>2, <1>6, <1>7, <1>8, <1>9, <1>10, <1>11
<1> QED
  BY <1>4, <1>11, <1>12 DEF x

(* A procedure call without arguments. *)
LEMMA ProcFits ==
  ASSUME NEW s, NEW n, s # <<>>, Fits(s, n), Head(s) = "stmts"
  PROVE  /\ Fits(<<"call", "discard", "stmts">> \o Tail(s), n)
         /\ <<"call", "discard", "stmts">> \o Tail(s) # <<>>
         /\ Head(<<"call", "discard", "stmts">> \o Tail(s)) = "call"
         /\ "call_with_args" \notin In(<<"call", "discard", "stmts">> \o Tail(s))
<1> DEFINE x == Tail(s)
           y0 == <<"stmts">> \o x
           y1 == <<"discard">> \o y0
           y2 == <<"call">> \o y1
<1>1. /\ "call" \in Work /\ Change("call") = 1 /\ Needs("call") = 0 /\ Ends("call") = 0
      /\ "call" \notin Operand /\ "call" \notin Follower /\ "call" \in Inside
      /\ "discard" \in Work /\ Change("discard") = -1 /\ Needs("discard") = 1 /\ Ends("discard") = 0
      /\ "discard" \notin Operand /\ "discard" \notin Follower /\ "discard" \notin Inside
  BY DEF Change, Needs, Ends, Operand, Type, Work, Inside, Follower, Consumer
<1>2. /\ n \in Nat /\ n = 2 * Agains(x) /\ x \in Seq(Work) /\ Fits(y0, n) /\ y0 # <<>>
      /\ Head(y0) = "stmts" /\ "call" \notin In(x) /\ "call_with_args" \notin In(x)
      /\ In(y0) = {"stmts"} \cup In(x) /\ Agains(y0) = Agains(x) /\ y0 \in Seq(Work)
  BY StmtsFits
<1>3. n + 0 = n /\ n + 1 \in Nat /\ n + 2 \in Nat /\ (n + 1) + 1 = n + 2 /\ (n + 1) + (-1) = n
      /\ (n + 2) + (-1) = n + 1 /\ (n + 2) + (-2) = n /\ (n + 1) + 0 = n + 1 /\ (n + 2) + 0 = n + 2
      /\ n >= 0 /\ n + 1 >= 0 /\ n + 1 >= 1 /\ n + 2 >= 0 /\ n + 2 >= 1 /\ n + 2 >= 2
  BY <1>2
<1>4. <<"call", "discard", "stmts">> \o x = y2
  BY <1>1, <1>2, Concat3 DEF Work
<1>5. Agains(x) \in Nat /\ Agains(x) + 0 = Agains(x) /\ n + 2 = 2 * (Agains(x) + 1)
  <2>1. Agains(x) \in Nat
    BY <1>2, AgainsCons DEF Work
  <2> QED
    BY <1>2, <2>1
<1> HIDE DEF x, y0
<1>6. /\ Fits(y1, n + 1) /\ y1 # <<>> /\ Head(y1) = "discard"
      /\ In(y1) = {"discard"} \cup In(y0) /\ Agains(y1) = Agains(x)
  <2>1. /\ "discard" \in Work /\ n + 1 \in Nat /\ Fits(y0, n)
        /\ n = (n + 1) + Change("discard") /\ n + 1 >= Needs("discard")
    BY <1>1, <1>2, <1>2, <1>3
  <2>2. "discard" # "stmts"
    BY <1>1
  <2>3. "discard" \in Operand => y0 # <<>> /\ Head(y0) \in Follower
    BY <1>1, <1>2
  <2>4. "discard" = "arg" => y0 # <<>> /\ Head(y0) = "call_with_args"
    BY <1>1, <1>2
  <2>5. "call" \notin In(y0) /\ ("call_with_args" \in In(y0) => "discard" \in Inside)
    BY <1>1, <1>2
  <2>6. /\ Fits(y1, n + 1) /\ y1 # <<>> /\ Head(y1) = "discard"
        /\ In(y1) = {"discard"} \cup In(y0) /\ Agains(y1) = Agains(y0) + Ends("discard")
    BY <2>1, <2>2, <2>3, <2>4, <2>5, FitsCons
  <2> QED
    BY <2>6, <1>1, <1>2, <1>2, <1>5
<1> HIDE DEF y1
<1>7. /\ Fits(y2, n) /\ y2 # <<>> /\ Head(y2) = "call"
      /\ In(y2) = {"call"} \cup In(y1) /\ Agains(y2) = Agains(x)
  <2>1. /\ "call" \in Work /\ n \in Nat /\ Fits(y1, n + 1)
        /\ n + 1 = (n) + Change("call") /\ n >= Needs("call")
    BY <1>1, <1>6, <1>2, <1>3
  <2>2. "call" # "stmts"
    BY <1>1
  <2>3. "call" \in Operand => y1 # <<>> /\ Head(y1) \in Follower
    BY <1>1, <1>6
  <2>4. "call" = "arg" => y1 # <<>> /\ Head(y1) = "call_with_args"
    BY <1>1, <1>6
  <2>5. "call" \notin In(y1) /\ ("call_with_args" \in In(y1) => "call" \in Inside)
    BY <1>1, <1>2, <1>6
  <2>6. /\ Fits(y2, n) /\ y2 # <<>> /\ Head(y2) = "call"
        /\ In(y2) = {"call"} \cup In(y1) /\ Agains(y2) = Agains(y1) + Ends("call")
    BY <2>1, <2>2, <2>3, <2>4, <2>5, FitsCons
  <2> QED
    BY <2>6, <1>1, <1>6, <1>2, <1>5
<1> HIDE DEF y2
<1>8. "call_with_args" \notin In(y2)
  BY <1>1, <1>2, <1>6, <1>7
<1> QED
  BY <1>4, <1>7, <1>8 DEF x

(* A procedure call with arguments. *)
LEMMA ProcArgsFits ==
  ASSUME NEW s, NEW n, s # <<>>, Fits(s, n), Head(s) = "stmts"
  PROVE  /\ Fits(<<"int", "arg", "call_with_args", "discard", "stmts">> \o Tail(s), n)
         /\ <<"int", "arg", "call_with_args", "discard", "stmts">> \o Tail(s) # <<>>
         /\ Head(<<"int", "arg", "call_with_args", "discard", "stmts">> \o Tail(s)) = "int"
         /\ "call_with_args" \in In(<<"int", "arg", "call_with_args", "discard", "stmts">> \o Tail(s))
<1> DEFINE x == Tail(s)
           y0 == <<"stmts">> \o x
           y1 == <<"discard">> \o y0
           y2 == <<"call_with_args">> \o y1
           y3 == <<"arg">> \o y2
           y4 == <<"int">> \o y3
<1>1. /\ "arg" \in Work /\ Change("arg") = -1 /\ Needs("arg") = 1 /\ Ends("arg") = 0
      /\ "arg" \notin Operand /\ "arg" \in Follower /\ "arg" \in Inside
      /\ "call_with_args" \in Work /\ Change("call_with_args") = 1 /\ Needs("call_with_args") = 0 /\ Ends("call_with_args") = 0
      /\ "call_with_args" \notin Operand /\ "call_with_args" \notin Follower /\ "call_with_args" \in Inside
      /\ "discard" \in Work /\ Change("discard") = -1 /\ Needs("discard") = 1 /\ Ends("discard") = 0
      /\ "discard" \notin Operand /\ "discard" \notin Follower /\ "discard" \notin Inside
      /\ "int" \in Work /\ Change("int") = 1 /\ Needs("int") = 0 /\ Ends("int") = 0
      /\ "int" \in Operand /\ "int" \in Follower /\ "int" \in Inside
  BY DEF Change, Needs, Ends, Operand, Type, Work, Inside, Follower, Consumer
<1>2. /\ n \in Nat /\ n = 2 * Agains(x) /\ x \in Seq(Work) /\ Fits(y0, n) /\ y0 # <<>>
      /\ Head(y0) = "stmts" /\ "call" \notin In(x) /\ "call_with_args" \notin In(x)
      /\ In(y0) = {"stmts"} \cup In(x) /\ Agains(y0) = Agains(x) /\ y0 \in Seq(Work)
  BY StmtsFits
<1>3. n + 0 = n /\ n + 1 \in Nat /\ n + 2 \in Nat /\ (n + 1) + 1 = n + 2 /\ (n + 1) + (-1) = n
      /\ (n + 2) + (-1) = n + 1 /\ (n + 2) + (-2) = n /\ (n + 1) + 0 = n + 1 /\ (n + 2) + 0 = n + 2
      /\ n >= 0 /\ n + 1 >= 0 /\ n + 1 >= 1 /\ n + 2 >= 0 /\ n + 2 >= 1 /\ n + 2 >= 2
  BY <1>2
<1>4. <<"int", "arg", "call_with_args", "discard", "stmts">> \o x = y4
  BY <1>1, <1>2, Concat7 DEF Work
<1>5. Agains(x) \in Nat /\ Agains(x) + 0 = Agains(x) /\ n + 2 = 2 * (Agains(x) + 1)
  <2>1. Agains(x) \in Nat
    BY <1>2, AgainsCons DEF Work
  <2> QED
    BY <1>2, <2>1
<1> HIDE DEF x, y0
<1>6. /\ Fits(y1, n + 1) /\ y1 # <<>> /\ Head(y1) = "discard"
      /\ In(y1) = {"discard"} \cup In(y0) /\ Agains(y1) = Agains(x)
  <2>1. /\ "discard" \in Work /\ n + 1 \in Nat /\ Fits(y0, n)
        /\ n = (n + 1) + Change("discard") /\ n + 1 >= Needs("discard")
    BY <1>1, <1>2, <1>2, <1>3
  <2>2. "discard" # "stmts"
    BY <1>1
  <2>3. "discard" \in Operand => y0 # <<>> /\ Head(y0) \in Follower
    BY <1>1, <1>2
  <2>4. "discard" = "arg" => y0 # <<>> /\ Head(y0) = "call_with_args"
    BY <1>1, <1>2
  <2>5. "call" \notin In(y0) /\ ("call_with_args" \in In(y0) => "discard" \in Inside)
    BY <1>1, <1>2
  <2>6. /\ Fits(y1, n + 1) /\ y1 # <<>> /\ Head(y1) = "discard"
        /\ In(y1) = {"discard"} \cup In(y0) /\ Agains(y1) = Agains(y0) + Ends("discard")
    BY <2>1, <2>2, <2>3, <2>4, <2>5, FitsCons
  <2> QED
    BY <2>6, <1>1, <1>2, <1>2, <1>5
<1> HIDE DEF y1
<1>7. /\ Fits(y2, n) /\ y2 # <<>> /\ Head(y2) = "call_with_args"
      /\ In(y2) = {"call_with_args"} \cup In(y1) /\ Agains(y2) = Agains(x)
  <2>1. /\ "call_with_args" \in Work /\ n \in Nat /\ Fits(y1, n + 1)
        /\ n + 1 = (n) + Change("call_with_args") /\ n >= Needs("call_with_args")
    BY <1>1, <1>6, <1>2, <1>3
  <2>2. "call_with_args" # "stmts"
    BY <1>1
  <2>3. "call_with_args" \in Operand => y1 # <<>> /\ Head(y1) \in Follower
    BY <1>1, <1>6
  <2>4. "call_with_args" = "arg" => y1 # <<>> /\ Head(y1) = "call_with_args"
    BY <1>1, <1>6
  <2>5. "call" \notin In(y1) /\ ("call_with_args" \in In(y1) => "call_with_args" \in Inside)
    BY <1>1, <1>2, <1>6
  <2>6. /\ Fits(y2, n) /\ y2 # <<>> /\ Head(y2) = "call_with_args"
        /\ In(y2) = {"call_with_args"} \cup In(y1) /\ Agains(y2) = Agains(y1) + Ends("call_with_args")
    BY <2>1, <2>2, <2>3, <2>4, <2>5, FitsCons
  <2> QED
    BY <2>6, <1>1, <1>6, <1>2, <1>5
<1> HIDE DEF y2
<1>8. /\ Fits(y3, n + 1) /\ y3 # <<>> /\ Head(y3) = "arg"
      /\ In(y3) = {"arg"} \cup In(y2) /\ Agains(y3) = Agains(x)
  <2>1. /\ "arg" \in Work /\ n + 1 \in Nat /\ Fits(y2, n)
        /\ n = (n + 1) + Change("arg") /\ n + 1 >= Needs("arg")
    BY <1>1, <1>7, <1>2, <1>3
  <2>2. "arg" # "stmts"
    BY <1>1
  <2>3. "arg" \in Operand => y2 # <<>> /\ Head(y2) \in Follower
    BY <1>1, <1>7
  <2>4. "arg" = "arg" => y2 # <<>> /\ Head(y2) = "call_with_args"
    BY <1>1, <1>7
  <2>5. "call" \notin In(y2) /\ ("call_with_args" \in In(y2) => "arg" \in Inside)
    BY <1>1, <1>2, <1>6, <1>7
  <2>6. /\ Fits(y3, n + 1) /\ y3 # <<>> /\ Head(y3) = "arg"
        /\ In(y3) = {"arg"} \cup In(y2) /\ Agains(y3) = Agains(y2) + Ends("arg")
    BY <2>1, <2>2, <2>3, <2>4, <2>5, FitsCons
  <2> QED
    BY <2>6, <1>1, <1>7, <1>2, <1>5
<1> HIDE DEF y3
<1>9. /\ Fits(y4, n) /\ y4 # <<>> /\ Head(y4) = "int"
      /\ In(y4) = {"int"} \cup In(y3) /\ Agains(y4) = Agains(x)
  <2>1. /\ "int" \in Work /\ n \in Nat /\ Fits(y3, n + 1)
        /\ n + 1 = (n) + Change("int") /\ n >= Needs("int")
    BY <1>1, <1>8, <1>2, <1>3
  <2>2. "int" # "stmts"
    BY <1>1
  <2>3. "int" \in Operand => y3 # <<>> /\ Head(y3) \in Follower
    BY <1>1, <1>8
  <2>4. "int" = "arg" => y3 # <<>> /\ Head(y3) = "call_with_args"
    BY <1>1, <1>8
  <2>5. "call" \notin In(y3) /\ ("call_with_args" \in In(y3) => "int" \in Inside)
    BY <1>1, <1>2, <1>6, <1>7, <1>8
  <2>6. /\ Fits(y4, n) /\ y4 # <<>> /\ Head(y4) = "int"
        /\ In(y4) = {"int"} \cup In(y3) /\ Agains(y4) = Agains(y3) + Ends("int")
    BY <2>1, <2>2, <2>3, <2>4, <2>5, FitsCons
  <2> QED
    BY <2>6, <1>1, <1>8, <1>2, <1>5
<1> HIDE DEF y4
<1>10. "call_with_args" \in In(y4)
  BY <1>1, <1>2, <1>6, <1>7, <1>8, <1>9
<1> QED
  BY <1>4, <1>9, <1>10 DEF x

(* write of nothing. *)
LEMMA WriteFits ==
  ASSUME NEW s, NEW n, s # <<>>, Fits(s, n), Head(s) = "stmts"
  PROVE  /\ Fits(<<"written", "stmts">> \o Tail(s), n)
         /\ <<"written", "stmts">> \o Tail(s) # <<>>
         /\ Head(<<"written", "stmts">> \o Tail(s)) = "written"
         /\ "call_with_args" \notin In(<<"written", "stmts">> \o Tail(s))
<1> DEFINE x == Tail(s)
           y0 == <<"stmts">> \o x
           y1 == <<"written">> \o y0
<1>1. /\ "written" \in Work /\ Change("written") = 0 /\ Needs("written") = 0 /\ Ends("written") = 0
      /\ "written" \notin Operand /\ "written" \notin Follower /\ "written" \notin Inside
  BY DEF Change, Needs, Ends, Operand, Type, Work, Inside, Follower, Consumer
<1>2. /\ n \in Nat /\ n = 2 * Agains(x) /\ x \in Seq(Work) /\ Fits(y0, n) /\ y0 # <<>>
      /\ Head(y0) = "stmts" /\ "call" \notin In(x) /\ "call_with_args" \notin In(x)
      /\ In(y0) = {"stmts"} \cup In(x) /\ Agains(y0) = Agains(x) /\ y0 \in Seq(Work)
  BY StmtsFits
<1>3. n + 0 = n /\ n + 1 \in Nat /\ n + 2 \in Nat /\ (n + 1) + 1 = n + 2 /\ (n + 1) + (-1) = n
      /\ (n + 2) + (-1) = n + 1 /\ (n + 2) + (-2) = n /\ (n + 1) + 0 = n + 1 /\ (n + 2) + 0 = n + 2
      /\ n >= 0 /\ n + 1 >= 0 /\ n + 1 >= 1 /\ n + 2 >= 0 /\ n + 2 >= 1 /\ n + 2 >= 2
  BY <1>2
<1>4. <<"written", "stmts">> \o x = y1
  BY <1>1, <1>2, Concat3 DEF Work
<1>5. Agains(x) \in Nat /\ Agains(x) + 0 = Agains(x) /\ n + 2 = 2 * (Agains(x) + 1)
  <2>1. Agains(x) \in Nat
    BY <1>2, AgainsCons DEF Work
  <2> QED
    BY <1>2, <2>1
<1> HIDE DEF x, y0
<1>6. /\ Fits(y1, n) /\ y1 # <<>> /\ Head(y1) = "written"
      /\ In(y1) = {"written"} \cup In(y0) /\ Agains(y1) = Agains(x)
  <2>1. /\ "written" \in Work /\ n \in Nat /\ Fits(y0, n)
        /\ n = (n) + Change("written") /\ n >= Needs("written")
    BY <1>1, <1>2, <1>2, <1>3
  <2>2. "written" # "stmts"
    BY <1>1
  <2>3. "written" \in Operand => y0 # <<>> /\ Head(y0) \in Follower
    BY <1>1, <1>2
  <2>4. "written" = "arg" => y0 # <<>> /\ Head(y0) = "call_with_args"
    BY <1>1, <1>2
  <2>5. "call" \notin In(y0) /\ ("call_with_args" \in In(y0) => "written" \in Inside)
    BY <1>1, <1>2
  <2>6. /\ Fits(y1, n) /\ y1 # <<>> /\ Head(y1) = "written"
        /\ In(y1) = {"written"} \cup In(y0) /\ Agains(y1) = Agains(y0) + Ends("written")
    BY <2>1, <2>2, <2>3, <2>4, <2>5, FitsCons
  <2> QED
    BY <2>6, <1>1, <1>2, <1>2, <1>5
<1> HIDE DEF y1
<1>7. "call_with_args" \notin In(y1)
  BY <1>1, <1>2, <1>6
<1> QED
  BY <1>4, <1>6, <1>7 DEF x

(* write of a value. *)
LEMMA WriteValueFits ==
  ASSUME NEW s, NEW n, s # <<>>, Fits(s, n), Head(s) = "stmts", NEW t \in Type
  PROVE  /\ Fits(<<t, "write", "written", "stmts">> \o Tail(s), n)
         /\ <<t, "write", "written", "stmts">> \o Tail(s) # <<>>
         /\ Head(<<t, "write", "written", "stmts">> \o Tail(s)) = t
         /\ "call_with_args" \notin In(<<t, "write", "written", "stmts">> \o Tail(s))
<1> DEFINE x == Tail(s)
           y0 == <<"stmts">> \o x
           y1 == <<"written">> \o y0
           y2 == <<"write">> \o y1
           y3 == <<t>> \o y2
<1>1. /\ t \in Work /\ Change(t) = 1 /\ Needs(t) = 0 /\ Ends(t) = 0
      /\ t \in Operand /\ t \in Follower /\ t \in Inside
      /\ t # "arg" /\ t # "call" /\ t # "call_with_args" /\ t # "stmts"
      /\ "write" \in Work /\ Change("write") = -1 /\ Needs("write") = 1 /\ Ends("write") = 0
      /\ "write" \notin Operand /\ "write" \in Follower /\ "write" \notin Inside
      /\ "written" \in Work /\ Change("written") = 0 /\ Needs("written") = 0 /\ Ends("written") = 0
      /\ "written" \notin Operand /\ "written" \notin Follower /\ "written" \notin Inside
  BY DEF Change, Needs, Ends, Operand, Type, Work, Inside, Follower, Consumer
<1>2. /\ n \in Nat /\ n = 2 * Agains(x) /\ x \in Seq(Work) /\ Fits(y0, n) /\ y0 # <<>>
      /\ Head(y0) = "stmts" /\ "call" \notin In(x) /\ "call_with_args" \notin In(x)
      /\ In(y0) = {"stmts"} \cup In(x) /\ Agains(y0) = Agains(x) /\ y0 \in Seq(Work)
  BY StmtsFits
<1>3. n + 0 = n /\ n + 1 \in Nat /\ n + 2 \in Nat /\ (n + 1) + 1 = n + 2 /\ (n + 1) + (-1) = n
      /\ (n + 2) + (-1) = n + 1 /\ (n + 2) + (-2) = n /\ (n + 1) + 0 = n + 1 /\ (n + 2) + 0 = n + 2
      /\ n >= 0 /\ n + 1 >= 0 /\ n + 1 >= 1 /\ n + 2 >= 0 /\ n + 2 >= 1 /\ n + 2 >= 2
  BY <1>2
<1>4. <<t, "write", "written", "stmts">> \o x = y3
  BY <1>1, <1>2, Concat7 DEF Work
<1>5. Agains(x) \in Nat /\ Agains(x) + 0 = Agains(x) /\ n + 2 = 2 * (Agains(x) + 1)
  <2>1. Agains(x) \in Nat
    BY <1>2, AgainsCons DEF Work
  <2> QED
    BY <1>2, <2>1
<1> HIDE DEF x, y0
<1>6. /\ Fits(y1, n) /\ y1 # <<>> /\ Head(y1) = "written"
      /\ In(y1) = {"written"} \cup In(y0) /\ Agains(y1) = Agains(x)
  <2>1. /\ "written" \in Work /\ n \in Nat /\ Fits(y0, n)
        /\ n = (n) + Change("written") /\ n >= Needs("written")
    BY <1>1, <1>2, <1>2, <1>3
  <2>2. "written" # "stmts"
    BY <1>1
  <2>3. "written" \in Operand => y0 # <<>> /\ Head(y0) \in Follower
    BY <1>1, <1>2
  <2>4. "written" = "arg" => y0 # <<>> /\ Head(y0) = "call_with_args"
    BY <1>1, <1>2
  <2>5. "call" \notin In(y0) /\ ("call_with_args" \in In(y0) => "written" \in Inside)
    BY <1>1, <1>2
  <2>6. /\ Fits(y1, n) /\ y1 # <<>> /\ Head(y1) = "written"
        /\ In(y1) = {"written"} \cup In(y0) /\ Agains(y1) = Agains(y0) + Ends("written")
    BY <2>1, <2>2, <2>3, <2>4, <2>5, FitsCons
  <2> QED
    BY <2>6, <1>1, <1>2, <1>2, <1>5
<1> HIDE DEF y1
<1>7. /\ Fits(y2, n + 1) /\ y2 # <<>> /\ Head(y2) = "write"
      /\ In(y2) = {"write"} \cup In(y1) /\ Agains(y2) = Agains(x)
  <2>1. /\ "write" \in Work /\ n + 1 \in Nat /\ Fits(y1, n)
        /\ n = (n + 1) + Change("write") /\ n + 1 >= Needs("write")
    BY <1>1, <1>6, <1>2, <1>3
  <2>2. "write" # "stmts"
    BY <1>1
  <2>3. "write" \in Operand => y1 # <<>> /\ Head(y1) \in Follower
    BY <1>1, <1>6
  <2>4. "write" = "arg" => y1 # <<>> /\ Head(y1) = "call_with_args"
    BY <1>1, <1>6
  <2>5. "call" \notin In(y1) /\ ("call_with_args" \in In(y1) => "write" \in Inside)
    BY <1>1, <1>2, <1>6
  <2>6. /\ Fits(y2, n + 1) /\ y2 # <<>> /\ Head(y2) = "write"
        /\ In(y2) = {"write"} \cup In(y1) /\ Agains(y2) = Agains(y1) + Ends("write")
    BY <2>1, <2>2, <2>3, <2>4, <2>5, FitsCons
  <2> QED
    BY <2>6, <1>1, <1>6, <1>2, <1>5
<1> HIDE DEF y2
<1>8. /\ Fits(y3, n) /\ y3 # <<>> /\ Head(y3) = t
      /\ In(y3) = {t} \cup In(y2) /\ Agains(y3) = Agains(x)
  <2>1. /\ t \in Work /\ n \in Nat /\ Fits(y2, n + 1)
        /\ n + 1 = (n) + Change(t) /\ n >= Needs(t)
    BY <1>1, <1>7, <1>2, <1>3
  <2>2. t # "stmts"
    BY <1>1
  <2>3. t \in Operand => y2 # <<>> /\ Head(y2) \in Follower
    BY <1>1, <1>7
  <2>4. t = "arg" => y2 # <<>> /\ Head(y2) = "call_with_args"
    BY <1>1, <1>7
  <2>5. "call" \notin In(y2) /\ ("call_with_args" \in In(y2) => t \in Inside)
    BY <1>1, <1>2, <1>6, <1>7
  <2>6. /\ Fits(y3, n) /\ y3 # <<>> /\ Head(y3) = t
        /\ In(y3) = {t} \cup In(y2) /\ Agains(y3) = Agains(y2) + Ends(t)
    BY <2>1, <2>2, <2>3, <2>4, <2>5, FitsCons
  <2> QED
    BY <2>6, <1>1, <1>7, <1>2, <1>5
<1> HIDE DEF y3
<1>9. "call_with_args" \notin In(y3)
  BY <1>1, <1>2, <1>6, <1>7, <1>8
<1> QED
  BY <1>4, <1>8, <1>9 DEF x

(* writeln of nothing. *)
LEMMA WritelnFits ==
  ASSUME NEW s, NEW n, s # <<>>, Fits(s, n), Head(s) = "stmts"
  PROVE  /\ Fits(<<"newline", "written", "stmts">> \o Tail(s), n)
         /\ <<"newline", "written", "stmts">> \o Tail(s) # <<>>
         /\ Head(<<"newline", "written", "stmts">> \o Tail(s)) = "newline"
         /\ "call_with_args" \notin In(<<"newline", "written", "stmts">> \o Tail(s))
<1> DEFINE x == Tail(s)
           y0 == <<"stmts">> \o x
           y1 == <<"written">> \o y0
           y2 == <<"newline">> \o y1
<1>1. /\ "newline" \in Work /\ Change("newline") = 0 /\ Needs("newline") = 0 /\ Ends("newline") = 0
      /\ "newline" \notin Operand /\ "newline" \notin Follower /\ "newline" \notin Inside
      /\ "written" \in Work /\ Change("written") = 0 /\ Needs("written") = 0 /\ Ends("written") = 0
      /\ "written" \notin Operand /\ "written" \notin Follower /\ "written" \notin Inside
  BY DEF Change, Needs, Ends, Operand, Type, Work, Inside, Follower, Consumer
<1>2. /\ n \in Nat /\ n = 2 * Agains(x) /\ x \in Seq(Work) /\ Fits(y0, n) /\ y0 # <<>>
      /\ Head(y0) = "stmts" /\ "call" \notin In(x) /\ "call_with_args" \notin In(x)
      /\ In(y0) = {"stmts"} \cup In(x) /\ Agains(y0) = Agains(x) /\ y0 \in Seq(Work)
  BY StmtsFits
<1>3. n + 0 = n /\ n + 1 \in Nat /\ n + 2 \in Nat /\ (n + 1) + 1 = n + 2 /\ (n + 1) + (-1) = n
      /\ (n + 2) + (-1) = n + 1 /\ (n + 2) + (-2) = n /\ (n + 1) + 0 = n + 1 /\ (n + 2) + 0 = n + 2
      /\ n >= 0 /\ n + 1 >= 0 /\ n + 1 >= 1 /\ n + 2 >= 0 /\ n + 2 >= 1 /\ n + 2 >= 2
  BY <1>2
<1>4. <<"newline", "written", "stmts">> \o x = y2
  BY <1>1, <1>2, Concat3 DEF Work
<1>5. Agains(x) \in Nat /\ Agains(x) + 0 = Agains(x) /\ n + 2 = 2 * (Agains(x) + 1)
  <2>1. Agains(x) \in Nat
    BY <1>2, AgainsCons DEF Work
  <2> QED
    BY <1>2, <2>1
<1> HIDE DEF x, y0
<1>6. /\ Fits(y1, n) /\ y1 # <<>> /\ Head(y1) = "written"
      /\ In(y1) = {"written"} \cup In(y0) /\ Agains(y1) = Agains(x)
  <2>1. /\ "written" \in Work /\ n \in Nat /\ Fits(y0, n)
        /\ n = (n) + Change("written") /\ n >= Needs("written")
    BY <1>1, <1>2, <1>2, <1>3
  <2>2. "written" # "stmts"
    BY <1>1
  <2>3. "written" \in Operand => y0 # <<>> /\ Head(y0) \in Follower
    BY <1>1, <1>2
  <2>4. "written" = "arg" => y0 # <<>> /\ Head(y0) = "call_with_args"
    BY <1>1, <1>2
  <2>5. "call" \notin In(y0) /\ ("call_with_args" \in In(y0) => "written" \in Inside)
    BY <1>1, <1>2
  <2>6. /\ Fits(y1, n) /\ y1 # <<>> /\ Head(y1) = "written"
        /\ In(y1) = {"written"} \cup In(y0) /\ Agains(y1) = Agains(y0) + Ends("written")
    BY <2>1, <2>2, <2>3, <2>4, <2>5, FitsCons
  <2> QED
    BY <2>6, <1>1, <1>2, <1>2, <1>5
<1> HIDE DEF y1
<1>7. /\ Fits(y2, n) /\ y2 # <<>> /\ Head(y2) = "newline"
      /\ In(y2) = {"newline"} \cup In(y1) /\ Agains(y2) = Agains(x)
  <2>1. /\ "newline" \in Work /\ n \in Nat /\ Fits(y1, n)
        /\ n = (n) + Change("newline") /\ n >= Needs("newline")
    BY <1>1, <1>6, <1>2, <1>3
  <2>2. "newline" # "stmts"
    BY <1>1
  <2>3. "newline" \in Operand => y1 # <<>> /\ Head(y1) \in Follower
    BY <1>1, <1>6
  <2>4. "newline" = "arg" => y1 # <<>> /\ Head(y1) = "call_with_args"
    BY <1>1, <1>6
  <2>5. "call" \notin In(y1) /\ ("call_with_args" \in In(y1) => "newline" \in Inside)
    BY <1>1, <1>2, <1>6
  <2>6. /\ Fits(y2, n) /\ y2 # <<>> /\ Head(y2) = "newline"
        /\ In(y2) = {"newline"} \cup In(y1) /\ Agains(y2) = Agains(y1) + Ends("newline")
    BY <2>1, <2>2, <2>3, <2>4, <2>5, FitsCons
  <2> QED
    BY <2>6, <1>1, <1>6, <1>2, <1>5
<1> HIDE DEF y2
<1>8. "call_with_args" \notin In(y2)
  BY <1>1, <1>2, <1>6, <1>7
<1> QED
  BY <1>4, <1>7, <1>8 DEF x

(* writeln of a value. *)
LEMMA WritelnValueFits ==
  ASSUME NEW s, NEW n, s # <<>>, Fits(s, n), Head(s) = "stmts", NEW t \in Type
  PROVE  /\ Fits(<<t, "write", "newline", "written", "stmts">> \o Tail(s), n)
         /\ <<t, "write", "newline", "written", "stmts">> \o Tail(s) # <<>>
         /\ Head(<<t, "write", "newline", "written", "stmts">> \o Tail(s)) = t
         /\ "call_with_args" \notin In(<<t, "write", "newline", "written", "stmts">> \o Tail(s))
<1> DEFINE x == Tail(s)
           y0 == <<"stmts">> \o x
           y1 == <<"written">> \o y0
           y2 == <<"newline">> \o y1
           y3 == <<"write">> \o y2
           y4 == <<t>> \o y3
<1>1. /\ "newline" \in Work /\ Change("newline") = 0 /\ Needs("newline") = 0 /\ Ends("newline") = 0
      /\ "newline" \notin Operand /\ "newline" \notin Follower /\ "newline" \notin Inside
      /\ t \in Work /\ Change(t) = 1 /\ Needs(t) = 0 /\ Ends(t) = 0
      /\ t \in Operand /\ t \in Follower /\ t \in Inside
      /\ t # "arg" /\ t # "call" /\ t # "call_with_args" /\ t # "stmts"
      /\ "write" \in Work /\ Change("write") = -1 /\ Needs("write") = 1 /\ Ends("write") = 0
      /\ "write" \notin Operand /\ "write" \in Follower /\ "write" \notin Inside
      /\ "written" \in Work /\ Change("written") = 0 /\ Needs("written") = 0 /\ Ends("written") = 0
      /\ "written" \notin Operand /\ "written" \notin Follower /\ "written" \notin Inside
  BY DEF Change, Needs, Ends, Operand, Type, Work, Inside, Follower, Consumer
<1>2. /\ n \in Nat /\ n = 2 * Agains(x) /\ x \in Seq(Work) /\ Fits(y0, n) /\ y0 # <<>>
      /\ Head(y0) = "stmts" /\ "call" \notin In(x) /\ "call_with_args" \notin In(x)
      /\ In(y0) = {"stmts"} \cup In(x) /\ Agains(y0) = Agains(x) /\ y0 \in Seq(Work)
  BY StmtsFits
<1>3. n + 0 = n /\ n + 1 \in Nat /\ n + 2 \in Nat /\ (n + 1) + 1 = n + 2 /\ (n + 1) + (-1) = n
      /\ (n + 2) + (-1) = n + 1 /\ (n + 2) + (-2) = n /\ (n + 1) + 0 = n + 1 /\ (n + 2) + 0 = n + 2
      /\ n >= 0 /\ n + 1 >= 0 /\ n + 1 >= 1 /\ n + 2 >= 0 /\ n + 2 >= 1 /\ n + 2 >= 2
  BY <1>2
<1>4. <<t, "write", "newline", "written", "stmts">> \o x = y4
  BY <1>1, <1>2, Concat7 DEF Work
<1>5. Agains(x) \in Nat /\ Agains(x) + 0 = Agains(x) /\ n + 2 = 2 * (Agains(x) + 1)
  <2>1. Agains(x) \in Nat
    BY <1>2, AgainsCons DEF Work
  <2> QED
    BY <1>2, <2>1
<1> HIDE DEF x, y0
<1>6. /\ Fits(y1, n) /\ y1 # <<>> /\ Head(y1) = "written"
      /\ In(y1) = {"written"} \cup In(y0) /\ Agains(y1) = Agains(x)
  <2>1. /\ "written" \in Work /\ n \in Nat /\ Fits(y0, n)
        /\ n = (n) + Change("written") /\ n >= Needs("written")
    BY <1>1, <1>2, <1>2, <1>3
  <2>2. "written" # "stmts"
    BY <1>1
  <2>3. "written" \in Operand => y0 # <<>> /\ Head(y0) \in Follower
    BY <1>1, <1>2
  <2>4. "written" = "arg" => y0 # <<>> /\ Head(y0) = "call_with_args"
    BY <1>1, <1>2
  <2>5. "call" \notin In(y0) /\ ("call_with_args" \in In(y0) => "written" \in Inside)
    BY <1>1, <1>2
  <2>6. /\ Fits(y1, n) /\ y1 # <<>> /\ Head(y1) = "written"
        /\ In(y1) = {"written"} \cup In(y0) /\ Agains(y1) = Agains(y0) + Ends("written")
    BY <2>1, <2>2, <2>3, <2>4, <2>5, FitsCons
  <2> QED
    BY <2>6, <1>1, <1>2, <1>2, <1>5
<1> HIDE DEF y1
<1>7. /\ Fits(y2, n) /\ y2 # <<>> /\ Head(y2) = "newline"
      /\ In(y2) = {"newline"} \cup In(y1) /\ Agains(y2) = Agains(x)
  <2>1. /\ "newline" \in Work /\ n \in Nat /\ Fits(y1, n)
        /\ n = (n) + Change("newline") /\ n >= Needs("newline")
    BY <1>1, <1>6, <1>2, <1>3
  <2>2. "newline" # "stmts"
    BY <1>1
  <2>3. "newline" \in Operand => y1 # <<>> /\ Head(y1) \in Follower
    BY <1>1, <1>6
  <2>4. "newline" = "arg" => y1 # <<>> /\ Head(y1) = "call_with_args"
    BY <1>1, <1>6
  <2>5. "call" \notin In(y1) /\ ("call_with_args" \in In(y1) => "newline" \in Inside)
    BY <1>1, <1>2, <1>6
  <2>6. /\ Fits(y2, n) /\ y2 # <<>> /\ Head(y2) = "newline"
        /\ In(y2) = {"newline"} \cup In(y1) /\ Agains(y2) = Agains(y1) + Ends("newline")
    BY <2>1, <2>2, <2>3, <2>4, <2>5, FitsCons
  <2> QED
    BY <2>6, <1>1, <1>6, <1>2, <1>5
<1> HIDE DEF y2
<1>8. /\ Fits(y3, n + 1) /\ y3 # <<>> /\ Head(y3) = "write"
      /\ In(y3) = {"write"} \cup In(y2) /\ Agains(y3) = Agains(x)
  <2>1. /\ "write" \in Work /\ n + 1 \in Nat /\ Fits(y2, n)
        /\ n = (n + 1) + Change("write") /\ n + 1 >= Needs("write")
    BY <1>1, <1>7, <1>2, <1>3
  <2>2. "write" # "stmts"
    BY <1>1
  <2>3. "write" \in Operand => y2 # <<>> /\ Head(y2) \in Follower
    BY <1>1, <1>7
  <2>4. "write" = "arg" => y2 # <<>> /\ Head(y2) = "call_with_args"
    BY <1>1, <1>7
  <2>5. "call" \notin In(y2) /\ ("call_with_args" \in In(y2) => "write" \in Inside)
    BY <1>1, <1>2, <1>6, <1>7
  <2>6. /\ Fits(y3, n + 1) /\ y3 # <<>> /\ Head(y3) = "write"
        /\ In(y3) = {"write"} \cup In(y2) /\ Agains(y3) = Agains(y2) + Ends("write")
    BY <2>1, <2>2, <2>3, <2>4, <2>5, FitsCons
  <2> QED
    BY <2>6, <1>1, <1>7, <1>2, <1>5
<1> HIDE DEF y3
<1>9. /\ Fits(y4, n) /\ y4 # <<>> /\ Head(y4) = t
      /\ In(y4) = {t} \cup In(y3) /\ Agains(y4) = Agains(x)
  <2>1. /\ t \in Work /\ n \in Nat /\ Fits(y3, n + 1)
        /\ n + 1 = (n) + Change(t) /\ n >= Needs(t)
    BY <1>1, <1>8, <1>2, <1>3
  <2>2. t # "stmts"
    BY <1>1
  <2>3. t \in Operand => y3 # <<>> /\ Head(y3) \in Follower
    BY <1>1, <1>8
  <2>4. t = "arg" => y3 # <<>> /\ Head(y3) = "call_with_args"
    BY <1>1, <1>8
  <2>5. "call" \notin In(y3) /\ ("call_with_args" \in In(y3) => t \in Inside)
    BY <1>1, <1>2, <1>6, <1>7, <1>8
  <2>6. /\ Fits(y4, n) /\ y4 # <<>> /\ Head(y4) = t
        /\ In(y4) = {t} \cup In(y3) /\ Agains(y4) = Agains(y3) + Ends(t)
    BY <2>1, <2>2, <2>3, <2>4, <2>5, FitsCons
  <2> QED
    BY <2>6, <1>1, <1>8, <1>2, <1>5
<1> HIDE DEF y4
<1>10. "call_with_args" \notin In(y4)
  BY <1>1, <1>2, <1>6, <1>7, <1>8, <1>9
<1> QED
  BY <1>4, <1>9, <1>10 DEF x

-----------------------------------------------------------------------------
(* Sequences of handles: all but the newest, and how many are spilled. *)
Front(s) == SubSeq(s, 1, Len(s) - 1)
Spills(s) == Cardinality({i \in DOMAIN s : s[i].spilled})
Spill(h) == IF h.spilled THEN 1 ELSE 0

LEMMA FrontIs ==
  ASSUME NEW S, NEW s \in Seq(S), s # <<>>
  PROVE  /\ Front(s) \in Seq(S) /\ Len(Front(s)) = Len(s) - 1 /\ Len(s) \in Nat \ {0}
         /\ \A i \in 1..(Len(s) - 1) : Front(s)[i] = s[i]
         /\ s[Len(s)] \in S
<1>1. Len(s) \in Nat \ {0}
  OBVIOUS
<1>2. s[Len(s)] \in S
  BY <1>1
<1> DEFINE f == SubSeq(s, 1, Len(s) - 1)
<1>3. f \in Seq(S)
  BY <1>1
<1>4. Len(f) = Len(s) - 1
  <2>1. Len(s) - 1 \in Int /\ 1 \in Int /\ \A i \in 1..(Len(s) - 1) : s[i] \in S
    BY <1>1
  <2>2. Len(f) = IF 1 <= Len(s) - 1 THEN (Len(s) - 1) - 1 + 1 ELSE 0
    BY <2>1, SubSeqProperties
  <2> HIDE DEF f
  <2>3. CASE 1 <= Len(s) - 1
    BY <1>1, <2>2, <2>3
  <2>4. CASE ~(1 <= Len(s) - 1)
    <3>1. Len(s) = 1
      <4>1. \A n \in Nat \ {0} : ~(1 <= n - 1) => n = 1
        OBVIOUS
      <4> QED
        BY <1>1, <2>4, <4>1
    <3>2. Len(f) = 0
      BY <2>2, <2>4
    <3> QED
      BY <3>1, <3>2
  <2> QED
    BY <2>3, <2>4
<1>5. \A i \in 1..(Len(s) - 1) : f[i] = s[i]
  BY <1>1
<1> HIDE DEF f
<1> QED
  BY <1>1, <1>2, <1>3, <1>4, <1>5 DEF Front, f

LEMMA FrontAppend ==
  ASSUME NEW S, NEW s \in Seq(S), s # <<>>
  PROVE  s = Append(Front(s), s[Len(s)])
<1> DEFINE t == Front(s)
           u == Append(t, s[Len(s)])
<1>1. /\ t \in Seq(S) /\ Len(t) = Len(s) - 1 /\ Len(s) \in Nat \ {0}
      /\ \A i \in 1..(Len(s) - 1) : t[i] = s[i]
      /\ s[Len(s)] \in S
  BY FrontIs
<1> HIDE DEF t
<1>2. u \in Seq(S) /\ Len(u) = Len(s) /\ u[Len(s)] = s[Len(s)]
      /\ \A i \in 1..(Len(s) - 1) : u[i] = t[i]
  BY <1>1
<1> HIDE DEF u
<1>3. \A i \in 1..Len(s) : s[i] = u[i]
  <2> TAKE i \in 1..Len(s)
  <2>1. CASE i = Len(s)
    BY <1>2, <2>1
  <2>2. CASE i # Len(s)
    <3>1. i \in 1..(Len(s) - 1)
      BY <1>1, <2>2
    <3> QED
      BY <1>1, <1>2, <3>1
  <2> QED
    BY <2>1, <2>2
<1>4. s = u
  BY <1>2, <1>3, SeqEqual
<1> QED
  BY <1>4 DEF u, t

LEMMA SpillsAppend ==
  ASSUME NEW s \in Seq(Handle), NEW h \in Handle
  PROVE  Spills(s) \in Nat /\ Spills(Append(s, h)) = Spills(s) + Spill(h)
<1> DEFINE u == Append(s, h)
           I == {i \in DOMAIN s : s[i].spilled}
           J == {i \in DOMAIN u : u[i].spilled}
<1>1. Len(s) \in Nat /\ DOMAIN s = 1..Len(s) /\ DOMAIN u = 1..(Len(s) + 1)
      /\ u[Len(s) + 1] = h /\ \A i \in 1..Len(s) : u[i] = s[i]
  OBVIOUS
<1>2. IsFiniteSet(I) /\ Len(s) + 1 \notin I
  <2>1. IsFiniteSet(1..Len(s))
    BY <1>1, FS_Interval
  <2> QED
    BY <1>1, <2>1, FS_Subset
<1>3. Cardinality(I) \in Nat
  BY <1>2, FS_CardinalityType
<1> HIDE DEF u
<1>4. J = IF h.spilled THEN I \cup {Len(s) + 1} ELSE I
  <2>1. \A i \in 1..(Len(s) + 1) : i = Len(s) + 1 \/ i \in 1..Len(s)
    BY <1>1
  <2>2. \A i \in 1..Len(s) : i \in 1..(Len(s) + 1)
    BY <1>1
  <2>3. Len(s) + 1 \in 1..(Len(s) + 1)
    BY <1>1
  <2> QED
    BY <1>1, <2>1, <2>2, <2>3
<1>5. Cardinality(J) = Cardinality(I) + Spill(h)
  <2> HIDE DEF I, J
  <2>1. CASE h.spilled
    BY <1>2, <1>3, <1>4, <2>1, FS_AddElement DEF Spill
  <2>2. CASE ~h.spilled
    BY <1>3, <1>4, <2>2 DEF Spill
  <2> QED
    BY <2>1, <2>2
<1>6. Spills(s) = Cardinality(I) /\ Spills(u) = Cardinality(J)
  BY DEF Spills
<1> HIDE DEF I, J
<1> QED
  BY <1>3, <1>5, <1>6 DEF u

LEMMA SpillsFront ==
  ASSUME NEW s \in Seq(Handle), s # <<>>
  PROVE  Spills(Front(s)) \in Nat /\ Spills(s) = Spills(Front(s)) + Spill(s[Len(s)])
<1>1. Front(s) \in Seq(Handle) /\ s[Len(s)] \in Handle /\ s = Append(Front(s), s[Len(s)])
  BY FrontIs, FrontAppend
<1> DEFINE t == Front(s)
           h == s[Len(s)]
<1>2. t \in Seq(Handle) /\ h \in Handle /\ s = Append(t, h)
  BY <1>1
<1> HIDE DEF t, h
<1>3. Spills(t) \in Nat /\ Spills(Append(t, h)) = Spills(t) + Spill(h)
  BY <1>2, SpillsAppend
<1> QED
  BY <1>2, <1>3 DEF t, h

(* One of the leaked is given back after all. *)
LEMMA WithoutIs ==
  ASSUME NEW S, NEW s \in Seq(S), NEW k \in 1..Len(s)
  PROVE  /\ Without(s, k) \in Seq(S) /\ Len(Without(s, k)) = Len(s) - 1
         /\ \A i \in 1..(Len(s) - 1) : Without(s, k)[i] = IF i < k THEN s[i] ELSE s[i + 1]
<1> DEFINE a == SubSeq(s, 1, k - 1)
           b == SubSeq(s, k + 1, Len(s))
<1>1. Len(s) \in Nat /\ k \in Int /\ 1 <= k /\ k <= Len(s)
  OBVIOUS
<1>2. a \in Seq(S) /\ Len(a) = k - 1 /\ \A i \in 1..(k - 1) : a[i] = s[i]
  BY <1>1
<1>3. b \in Seq(S) /\ Len(b) = Len(s) - k /\ \A i \in 1..(Len(s) - k) : b[i] = s[k + i]
  BY <1>1
<1> HIDE DEF a, b
<1>4. a \o b \in Seq(S) /\ Len(a \o b) = Len(s) - 1
      /\ \A i \in 1..(Len(s) - 1) : (a \o b)[i] = IF i <= k - 1 THEN a[i] ELSE b[i - (k - 1)]
  <2>1. \A i \in 1..(Len(a) + Len(b)) : (a \o b)[i] = IF i <= Len(a) THEN a[i] ELSE b[i - Len(a)]
    BY <1>2, <1>3
  <2>2. Len(a \o b) = Len(a) + Len(b) /\ a \o b \in Seq(S)
    BY <1>2, <1>3, ConcatProperties
  <2>3. Len(a) = k - 1 /\ Len(a) + Len(b) = Len(s) - 1
    BY <1>1, <1>2, <1>3
  <2> QED
    BY <2>1, <2>2, <2>3
<1>5. ASSUME NEW i \in 1..(Len(s) - 1)
      PROVE  (a \o b)[i] = IF i < k THEN s[i] ELSE s[i + 1]
  <2>1. CASE i < k
    BY <1>1, <1>2, <1>4, <2>1
  <2>2. CASE ~(i < k)
    <3>1. i - (k - 1) \in 1..(Len(s) - k) /\ k + (i - (k - 1)) = i + 1 /\ ~(i <= k - 1)
      BY <1>1, <2>2
    <3> QED
      BY <1>3, <1>4, <2>2, <3>1
  <2> QED
    BY <2>1, <2>2
<1> QED
  BY <1>4, <1>5 DEF Without, a, b

LEMMA SpillsWithout ==
  ASSUME NEW s \in Seq(Handle), NEW k \in 1..Len(s), ~s[k].spilled
  PROVE  Spills(Without(s, k)) = Spills(s)
<1> DEFINE u == Without(s, k)
           I == {i \in DOMAIN u : u[i].spilled}
           J == {i \in DOMAIN s : s[i].spilled}
           f == [i \in I |-> IF i < k THEN i ELSE i + 1]
<1>1. u \in Seq(Handle) /\ Len(u) = Len(s) - 1 /\ Len(s) \in Nat
      /\ \A i \in 1..(Len(s) - 1) : u[i] = IF i < k THEN s[i] ELSE s[i + 1]
  <2>1. s \in Seq(Handle) /\ k \in 1..Len(s)
    OBVIOUS
  <2>2. /\ Without(s, k) \in Seq(Handle) /\ Len(Without(s, k)) = Len(s) - 1
        /\ \A i \in 1..(Len(s) - 1) : Without(s, k)[i] = IF i < k THEN s[i] ELSE s[i + 1]
    BY ONLY <2>1, WithoutIs
  <2> QED
    BY <2>2
<1> HIDE DEF u
<1>2. DOMAIN u = 1..(Len(s) - 1) /\ DOMAIN s = 1..Len(s)
  BY <1>1
<1>3. ASSUME NEW i \in I  PROVE f[i] \in J
  <2>1. i \in 1..(Len(s) - 1) /\ u[i].spilled
    BY <1>2
  <2>2. CASE i < k
    BY <1>1, <1>2, <2>1, <2>2
  <2>3. CASE ~(i < k)
    <3>1. i + 1 \in 1..Len(s) /\ s[i + 1].spilled
      BY <1>1, <2>1, <2>3
    <3> QED
      BY <1>2, <2>3, <3>1
  <2> QED
    BY <2>2, <2>3
<1>4. \A i, j \in I : f[i] = f[j] => i = j
  BY <1>2
<1>5. ASSUME NEW j \in J  PROVE \E i \in I : f[i] = j
  <2>1. j \in 1..Len(s) /\ s[j].spilled /\ j # k
    BY <1>2
  <2>2. CASE j < k
    <3>1. j \in 1..(Len(s) - 1) /\ u[j] = s[j]
      BY <1>1, <2>1, <2>2
    <3>2. j \in I /\ f[j] = j
      BY <1>2, <2>1, <2>2, <3>1
    <3> QED
      BY <3>2
  <2>3. CASE ~(j < k)
    <3>1. j - 1 \in 1..(Len(s) - 1) /\ ~(j - 1 < k) /\ (j - 1) + 1 = j
      BY <1>1, <2>1, <2>3
    <3>2. u[j - 1] = s[j]
      BY <1>1, <3>1
    <3>3. j - 1 \in I /\ f[j - 1] = j
      BY <1>2, <2>1, <3>1, <3>2
    <3> QED
      BY <3>3
  <2> QED
    BY <2>2, <2>3
<1>6. f \in [I -> J]
  BY <1>3
<1>7. ExistsBijection(I, J)
  <2>1. f \in Bijection(I, J)
    BY <1>4, <1>5, <1>6 DEF Bijection, Injection, Surjection, IsInjective
  <2> QED
    BY <2>1 DEF ExistsBijection
<1>8. IsFiniteSet(I)
  <2>1. IsFiniteSet(1..(Len(s) - 1))
    BY <1>1, FS_Interval
  <2> QED
    BY <1>2, <2>1, FS_Subset
<1>9. Cardinality(I) = Cardinality(J)
  <2> HIDE DEF I, J
  <2> QED
    BY <1>7, <1>8, FS_Bijection
<1> QED
  BY <1>9 DEF Spills, u

-----------------------------------------------------------------------------
(* Who owns which register: the handles h of the operands and l of the     *)
(* leaked, u the registers in use.                                         *)
Owned(u, h, l) ==
  /\ \A i \in DOMAIN h : ~h[i].spilled => h[i].which \in u
  /\ \A j \in DOMAIN l : ~l[j].spilled => l[j].which \in u
  /\ \A r \in u : \/ \E i \in DOMAIN h : ~h[i].spilled /\ h[i].which = r
                  \/ \E j \in DOMAIN l : ~l[j].spilled /\ l[j].which = r
  /\ \A i, j \in DOMAIN h : ~h[i].spilled /\ ~h[j].spilled /\ h[i].which = h[j].which => i = j
  /\ \A i, j \in DOMAIN l : ~l[i].spilled /\ ~l[j].spilled /\ l[i].which = l[j].which => i = j
  /\ \A i \in DOMAIN h, j \in DOMAIN l : ~h[i].spilled /\ ~l[j].spilled => h[i].which # l[j].which

UsedWith(u, h) == IF h.spilled THEN u ELSE u \cup {h.which}
UsedWithout(u, h) == IF h.spilled THEN u ELSE u \ {h.which}

LEMMA AppendIs ==
  ASSUME NEW S, NEW s \in Seq(S), NEW x \in S
  PROVE  /\ Append(s, x) \in Seq(S) /\ Append(s, x) # <<>>
         /\ Len(s) \in Nat /\ Len(Append(s, x)) = Len(s) + 1
         /\ DOMAIN s = 1..Len(s) /\ DOMAIN Append(s, x) = 1..(Len(s) + 1)
         /\ \A i \in 1..(Len(s) + 1) : i \in 1..Len(s) \/ i = Len(s) + 1
         /\ \A i \in 1..Len(s) : i # Len(s) + 1 /\ i \in 1..(Len(s) + 1) /\ Append(s, x)[i] = s[i]
         /\ Append(s, x)[Len(s) + 1] = x /\ Len(s) + 1 \in 1..(Len(s) + 1)
OBVIOUS

(* A register that was free gets an owner. *)
LEMMA OwnTake ==
  ASSUME NEW u, NEW h \in Seq(Handle), NEW l \in Seq(Handle), NEW x \in Handle,
         Owned(u, h, l), ~x.spilled => x.which \notin u
  PROVE  /\ Owned(UsedWith(u, x), Append(h, x), l)
         /\ Owned(UsedWith(u, x), h, Append(l, x))
<1>1. Owned(UsedWith(u, x), Append(h, x), l)
  <2> DEFINE g == Append(h, x)
  <2>1. /\ DOMAIN h = 1..Len(h) /\ DOMAIN g = 1..(Len(h) + 1)
        /\ \A i \in 1..(Len(h) + 1) : i \in 1..Len(h) \/ i = Len(h) + 1
        /\ \A i \in 1..Len(h) : i # Len(h) + 1 /\ i \in 1..(Len(h) + 1) /\ g[i] = h[i]
        /\ g[Len(h) + 1] = x /\ Len(h) + 1 \in 1..(Len(h) + 1)
    BY AppendIs
  <2> HIDE DEF g
  <2> QED
    BY <2>1 DEF Owned, UsedWith
<1>2. Owned(UsedWith(u, x), h, Append(l, x))
  <2> DEFINE g == Append(l, x)
  <2>1. /\ DOMAIN l = 1..Len(l) /\ DOMAIN g = 1..(Len(l) + 1)
        /\ \A i \in 1..(Len(l) + 1) : i \in 1..Len(l) \/ i = Len(l) + 1
        /\ \A i \in 1..Len(l) : i # Len(l) + 1 /\ i \in 1..(Len(l) + 1) /\ g[i] = l[i]
        /\ g[Len(l) + 1] = x /\ Len(l) + 1 \in 1..(Len(l) + 1)
    BY AppendIs
  <2> HIDE DEF g
  <2> QED
    BY <2>1 DEF Owned, UsedWith
<1> QED
  BY <1>1, <1>2

(* The newest operand gives its register back, or leaves it to nobody. *)
LEMMA OwnGive ==
  ASSUME NEW u, NEW h \in Seq(Handle), NEW l \in Seq(Handle), h # <<>>, Owned(u, h, l)
  PROVE  /\ Owned(UsedWithout(u, h[Len(h)]), Front(h), l)
         /\ Owned(u, Front(h), Append(l, h[Len(h)]))
<1> DEFINE f == Front(h)
           x == h[Len(h)]
           g == Append(l, x)
<1>1. /\ f \in Seq(Handle) /\ Len(f) = Len(h) - 1 /\ Len(h) \in Nat \ {0}
      /\ \A i \in 1..(Len(h) - 1) : f[i] = h[i]
      /\ x \in Handle
  BY FrontIs
<1> HIDE DEF f
<1> DEFINE n == Len(h)
           D == 1..(n - 1)
           k == Len(l) + 1
           E == 1..Len(l)
<1>2. DOMAIN f = D /\ DOMAIN h = D \cup {n} /\ n \notin D /\ \A i \in D : f[i] = h[i]
  BY <1>1
<1>3. h[n] = x
  OBVIOUS
<1>4. DOMAIN l = E /\ DOMAIN g = E \cup {k} /\ k \notin E /\ g[k] = x /\ \A i \in E : g[i] = l[i]
  <2>1. /\ DOMAIN l = 1..Len(l) /\ DOMAIN g = 1..(Len(l) + 1)
        /\ \A i \in 1..(Len(l) + 1) : i \in 1..Len(l) \/ i = Len(l) + 1
        /\ \A i \in 1..Len(l) : i # Len(l) + 1 /\ i \in 1..(Len(l) + 1) /\ g[i] = l[i]
        /\ g[Len(l) + 1] = x /\ Len(l) + 1 \in 1..(Len(l) + 1)
    BY <1>1, AppendIs
  <2> HIDE DEF g
  <2> QED
    BY <2>1
<1> HIDE DEF g, x, n, D, k, E
<1>5. Owned(UsedWithout(u, x), f, l)
  BY <1>2, <1>3 DEF Owned, UsedWithout
<1>6. Owned(u, f, g)
  <2>1. \A r \in u : \/ \E i \in DOMAIN f : ~f[i].spilled /\ f[i].which = r
                     \/ \E j \in DOMAIN g : ~g[j].spilled /\ g[j].which = r
    <3> TAKE r \in u
    <3>1. CASE \E i \in DOMAIN h : ~h[i].spilled /\ h[i].which = r
      BY <3>1, <1>2, <1>3, <1>4
    <3>2. CASE \E j \in DOMAIN l : ~l[j].spilled /\ l[j].which = r
      BY <3>2, <1>4
    <3> QED
      BY <3>1, <3>2 DEF Owned
  <2>2. /\ \A i \in DOMAIN f : ~f[i].spilled => f[i].which \in u
        /\ \A j \in DOMAIN g : ~g[j].spilled => g[j].which \in u
    BY <1>2, <1>3, <1>4 DEF Owned
  <2>3. \A i, j \in DOMAIN f : ~f[i].spilled /\ ~f[j].spilled /\ f[i].which = f[j].which => i = j
    BY <1>2 DEF Owned
  <2>4. \A i, j \in DOMAIN g : ~g[i].spilled /\ ~g[j].spilled /\ g[i].which = g[j].which => i = j
    BY <1>2, <1>3, <1>4 DEF Owned
  <2>5. \A i \in DOMAIN f, j \in DOMAIN g : ~f[i].spilled /\ ~g[j].spilled => f[i].which # g[j].which
    BY <1>2, <1>3, <1>4 DEF Owned
  <2> QED
    BY <2>1, <2>2, <2>3, <2>4, <2>5 DEF Owned
<1> QED
  BY <1>5, <1>6 DEF f, g, x

(* Register 0 goes back, whoever had it of the leaked. *)
LEMMA OwnMagic ==
  ASSUME NEW u, NEW h \in Seq(Handle), NEW l \in Seq(Handle), Owned(u, h, l),
         \A i \in DOMAIN h : h[i] # Magic
  PROVE  /\ \A k \in DOMAIN l : l[k] = Magic => Owned(u \ {0}, h, Without(l, k))
         /\ (\A k \in DOMAIN l : l[k] # Magic) => Owned(u \ {0}, h, l)
<1>1. \A x \in Handle : ~x.spilled /\ x.which = 0 => x = Magic
  BY DEF Handle, Magic
<1>2. \A i \in DOMAIN h : h[i] \in Handle
  OBVIOUS
<1>3. \A i \in DOMAIN l : l[i] \in Handle
  OBVIOUS
<1>4. ASSUME NEW k \in DOMAIN l, l[k] = Magic  PROVE Owned(u \ {0}, h, Without(l, k))
  <2> DEFINE g == Without(l, k)
             F(i) == IF i < k THEN i ELSE i + 1
  <2>1. k \in 1..Len(l) /\ Len(l) \in Nat /\ DOMAIN l = 1..Len(l)
    OBVIOUS
  <2>2. /\ g \in Seq(Handle) /\ Len(g) = Len(l) - 1
        /\ \A i \in 1..(Len(l) - 1) : g[i] = IF i < k THEN l[i] ELSE l[i + 1]
    <3>1. l \in Seq(Handle) /\ k \in 1..Len(l)
      BY <2>1
    <3> QED
      BY ONLY <3>1, WithoutIs
  <2> HIDE DEF g
  <2>3. DOMAIN g = 1..(Len(l) - 1)
    BY <2>1, <2>2
  <2>4. \A i \in DOMAIN g : F(i) \in DOMAIN l /\ F(i) # k /\ g[i] = l[F(i)]
    BY <2>1, <2>2, <2>3
  <2>5. \A i, j \in DOMAIN g : F(i) = F(j) => i = j
    BY <2>1, <2>3
  <2>6. \A j \in DOMAIN l : j # k => \E i \in DOMAIN g : F(i) = j
    <3> TAKE j \in DOMAIN l
    <3> HAVE j # k
    <3>1. CASE j < k
      <4>1. j \in DOMAIN g /\ F(j) = j
        BY <2>1, <2>3, <3>1
      <4> QED
        BY <4>1
    <3>2. CASE ~(j < k)
      <4>1. j - 1 \in DOMAIN g /\ F(j - 1) = j
        BY <2>1, <2>3, <3>2
      <4> QED
        BY <4>1
    <3> QED
      BY <3>1, <3>2
  <2>7. l[k].which = 0 /\ ~l[k].spilled
    BY <1>4 DEF Magic
  <2> HIDE DEF F
  <2>8. \A i \in DOMAIN h : ~h[i].spilled => h[i].which \in u \ {0}
    BY <1>1, <1>2 DEF Owned
  <2>9. \A j \in DOMAIN g : ~g[j].spilled => g[j].which \in u \ {0}
    BY <2>4, <2>7 DEF Owned
  <2>10. \A r \in u \ {0} : \/ \E i \in DOMAIN h : ~h[i].spilled /\ h[i].which = r
                            \/ \E j \in DOMAIN g : ~g[j].spilled /\ g[j].which = r
    <3> TAKE r \in u \ {0}
    <3>1. CASE \E i \in DOMAIN h : ~h[i].spilled /\ h[i].which = r
      BY <3>1
    <3>2. CASE \E j \in DOMAIN l : ~l[j].spilled /\ l[j].which = r
      <4>1. PICK j \in DOMAIN l : ~l[j].spilled /\ l[j].which = r
        BY <3>2
      <4>2. j # k
        BY <4>1, <2>7
      <4> QED
        BY <4>1, <4>2, <2>4, <2>6
    <3> QED
      BY <3>1, <3>2 DEF Owned
  <2>11. \A i, j \in DOMAIN h : ~h[i].spilled /\ ~h[j].spilled /\ h[i].which = h[j].which => i = j
    BY DEF Owned
  <2>12. \A i, j \in DOMAIN g : ~g[i].spilled /\ ~g[j].spilled /\ g[i].which = g[j].which => i = j
    BY <2>4, <2>5 DEF Owned
  <2>13. \A i \in DOMAIN h, j \in DOMAIN g : ~h[i].spilled /\ ~g[j].spilled => h[i].which # g[j].which
    BY <2>4 DEF Owned
  <2> QED
    BY <2>8, <2>9, <2>10, <2>11, <2>12, <2>13 DEF Owned, g
<1>5. ASSUME \A k \in DOMAIN l : l[k] # Magic  PROVE u \ {0} = u
  BY <1>1, <1>2, <1>3, <1>5 DEF Owned
<1> QED
  BY <1>4, <1>5

-----------------------------------------------------------------------------
(* The first theorem: types, pending work, owners and counters. *)

Tokens(n) == 0..n \cup {RBP}

(* The registers in use and the counter, as x is taken or given back. *)
Takes(s, t, x) == t.used = UsedWith(s.used, x) /\ t.overflow = s.overflow + Spill(x)
Gives(s, t, x) == t.used = UsedWithout(s.used, x) /\ t.overflow = s.overflow - Spill(x)
Keeps(s, t) == t.used = s.used /\ t.overflow = s.overflow

(* At most one test is to be made before the next statement, and the loop  *)
(* it belongs to was begun when one more was allowed.                      *)
Tests(s, k) ==
  \A i \in DOMAIN s : s[i] = "test" =>
    k < MaxLoops /\ \A j \in 1..(i - 1) : s[j] \notin {"stmts", "test"}

Book(mm, h, l, k, s, c) ==
  /\ mm \in Machine(Tokens(Len(h)))
  /\ h \in Seq(Handle) /\ l \in Seq(Handle)
  /\ k \in 0..MaxLoops
  /\ Fits(s, Len(h)) /\ Tests(s, k)
  /\ mm.overflow = 6 + Spills(h) + Spills(l)
  /\ "write_in_a_loop" \notin c => Owned(mm.used, h, l)

Bookkeeping ==
  /\ Book(m, held, leaked, loops, todo, causes)
  /\ phase \in {"ok", "wrong", "frame", "asm"}

LEMMA MachineMono ==
  ASSUME NEW T, NEW U, T \subseteq U, NEW s \in Machine(T)
  PROVE  s \in Machine(U)
<1>1. s.used \in SUBSET Reg /\ s.overflow \in Nat /\ s.regs \in [Reg -> T] /\ s.stack \in Seq(T)
      /\ s = [used |-> s.used, overflow |-> s.overflow, regs |-> s.regs, stack |-> s.stack]
  BY DEF Machine
<1>2. s.regs \in [Reg -> U]
  BY <1>1
<1>3. s.stack \in Seq(U)
  BY <1>1
<1> QED
  BY <1>1, <1>2, <1>3 DEF Machine

(* The operands from the p-th on are gone. *)
LEMMA DropType ==
  ASSUME NEW n \in Nat, NEW p \in 1..(n + 1), NEW s \in Machine(Tokens(n))
  PROVE  Forget(s, p..n) \in Machine(Tokens(p - 1)) /\ Keeps(s, Forget(s, p..n))
<1>1. 0 \in Tokens(n) /\ (Tokens(n) \ (p..n)) \cup {0} \subseteq Tokens(p - 1)
  BY DEF Tokens, RBP
<1>2. Forget(s, p..n) \in Machine((Tokens(n) \ (p..n)) \cup {0}) /\ Keeps(s, Forget(s, p..n))
  BY <1>1, ForgetType DEF Keeps
<1> QED
  BY <1>1, <1>2, MachineMono

LEMMA ForgetKeeps ==
  ASSUME NEW n \in Nat, NEW S, NEW s \in Machine(Tokens(n))
  PROVE  Forget(s, S) \in Machine(Tokens(n)) /\ Keeps(s, Forget(s, S))
<1>1. 0 \in Tokens(n) /\ (Tokens(n) \ S) \cup {0} \subseteq Tokens(n)
  BY DEF Tokens, RBP
<1>2. Forget(s, S) \in Machine((Tokens(n) \ S) \cup {0}) /\ Keeps(s, Forget(s, S))
  BY <1>1, ForgetType DEF Keeps
<1> QED
  BY <1>1, <1>2, MachineMono

LEMMA GimmeTakes ==
  ASSUME NEW T, NEW s \in Machine(T), NEW tok \in T
  PROVE  /\ Gimme(s, tok) \in Machine(T) /\ Takes(s, Gimme(s, tok), GimmeReg(s))
         /\ GimmeReg(s) \in Handle /\ (~GimmeReg(s).spilled => GimmeReg(s).which \notin s.used)
<1>1. s.overflow \in Nat
  BY DEF Machine
<1>2. Gimme(s, tok) \in Machine(T)
  BY GimmeType
<1>3. GimmeReg(s) \in Handle /\ (~GimmeReg(s).spilled => GimmeReg(s).which \notin s.used)
  BY GimmeRegType
<1>4. Takes(s, Gimme(s, tok), GimmeReg(s))
  <2> DEFINE x == GimmeReg(s)
  <2> HIDE DEF x
  <2>1. CASE x.spilled
    BY <1>1, <2>1 DEF Takes, UsedWith, Spill, Gimme, Set, Push, Machine, x
  <2>2. CASE ~x.spilled
    BY <1>1, <2>2 DEF Takes, UsedWith, Spill, Gimme, Set, Push, Machine, x
  <2> QED
    BY <2>1, <2>2
<1> QED
  BY <1>2, <1>3, <1>4

LEMMA TakebackGives ==
  ASSUME NEW T, NEW s \in Machine(T), NEW x \in Handle, 0 \in T, s.overflow > 0
  PROVE  Takeback(s, x) \in Machine(T) /\ Gives(s, Takeback(s, x), x)
<1>1. s.overflow \in Nat
  BY DEF Machine
<1>2. Takeback(s, x) \in Machine(T)
  BY TakebackType
<1>3. Gives(s, Takeback(s, x), x)
  <2>1. CASE x.spilled
    <3>1. Pop(s, RCX) \in Machine(T) /\ Pop(s, RCX).used = s.used
          /\ Pop(s, RCX).overflow = s.overflow
      BY RcxIsReg, PopType
    <3> QED
      BY <1>1, <2>1, <3>1 DEF Gives, UsedWithout, Spill, Takeback, Machine
  <2>2. CASE ~x.spilled
    BY <1>1, <2>2 DEF Gives, UsedWithout, Spill, Takeback, Machine
  <2> QED
    BY <2>1, <2>2
<1> QED
  BY <1>2, <1>3

LEMMA SpillsNat ==
  ASSUME NEW s \in Seq(Handle)
  PROVE  Spills(s) \in Nat
<1>1. [which |-> 0, spilled |-> FALSE] \in Handle
  BY DEF Handle, Reg
<1> QED
  BY <1>1, SpillsAppend

(* What becomes of the books as an operand is added, a register leaked, an *)
(* operand dropped or leaked, or neither.                                  *)
LEMMA BookTake ==
  ASSUME NEW mm, NEW h, NEW l, NEW k, NEW s, NEW c, Book(mm, h, l, k, s, c),
         NEW x \in Handle, ~x.spilled => x.which \notin mm.used,
         NEW mn \in Machine(Tokens(Len(h) + 1)), Takes(mm, mn, x),
         NEW t, Fits(t, Len(h) + 1), Tests(t, k), NEW d, c \subseteq d
  PROVE  Book(mn, Append(h, x), l, k, t, d)
<1>1. h \in Seq(Handle) /\ l \in Seq(Handle) /\ mm.overflow = 6 + Spills(h) + Spills(l)
  BY DEF Book
<1>2. Len(Append(h, x)) = Len(h) + 1 /\ Append(h, x) \in Seq(Handle)
  BY <1>1
<1>3. Spills(Append(h, x)) = Spills(h) + Spill(x) /\ Spills(h) \in Nat /\ Spills(l) \in Nat
  BY <1>1, SpillsAppend, SpillsNat
<1>4. mn.overflow = 6 + Spills(Append(h, x)) + Spills(l)
  BY <1>1, <1>3 DEF Takes, Spill
<1>5. ASSUME "write_in_a_loop" \notin d  PROVE Owned(mn.used, Append(h, x), l)
  <2>1. Owned(mm.used, h, l)
    BY <1>5 DEF Book
  <2>2. Owned(UsedWith(mm.used, x), Append(h, x), l)
    BY <1>1, <2>1, OwnTake
  <2> QED
    BY <2>2 DEF Takes
<1> QED
  BY <1>1, <1>2, <1>4, <1>5 DEF Book

LEMMA BookLeak ==
  ASSUME NEW mm, NEW h, NEW l, NEW k, NEW s, NEW c, Book(mm, h, l, k, s, c),
         NEW x \in Handle, ~x.spilled => x.which \notin mm.used,
         NEW mn \in Machine(Tokens(Len(h))), Takes(mm, mn, x),
         NEW t, Fits(t, Len(h)), Tests(t, k), NEW d, c \subseteq d
  PROVE  Book(mn, h, Append(l, x), k, t, d)
<1>1. h \in Seq(Handle) /\ l \in Seq(Handle) /\ mm.overflow = 6 + Spills(h) + Spills(l)
  BY DEF Book
<1>2. Append(l, x) \in Seq(Handle)
  BY <1>1
<1>3. Spills(Append(l, x)) = Spills(l) + Spill(x) /\ Spills(h) \in Nat /\ Spills(l) \in Nat
  BY <1>1, SpillsAppend, SpillsNat
<1>4. mn.overflow = 6 + Spills(h) + Spills(Append(l, x))
  BY <1>1, <1>3 DEF Takes, Spill
<1>5. ASSUME "write_in_a_loop" \notin d  PROVE Owned(mn.used, h, Append(l, x))
  <2>1. Owned(mm.used, h, l)
    BY <1>5 DEF Book
  <2>2. Owned(UsedWith(mm.used, x), h, Append(l, x))
    BY <1>1, <2>1, OwnTake
  <2> QED
    BY <2>2 DEF Takes
<1> QED
  BY <1>1, <1>2, <1>4, <1>5 DEF Book

LEMMA BookGive ==
  ASSUME NEW mm, NEW h, NEW l, NEW k, NEW s, NEW c, Book(mm, h, l, k, s, c), h # <<>>,
         NEW mn \in Machine(Tokens(Len(h) - 1)), Gives(mm, mn, h[Len(h)]),
         NEW t, Fits(t, Len(h) - 1), Tests(t, k), NEW d, c \subseteq d
  PROVE  Book(mn, Front(h), l, k, t, d)
<1>1. h \in Seq(Handle) /\ l \in Seq(Handle) /\ mm.overflow = 6 + Spills(h) + Spills(l)
  BY DEF Book
<1>2. Front(h) \in Seq(Handle) /\ Len(Front(h)) = Len(h) - 1
  BY <1>1, FrontIs
<1>3. Spills(Front(h)) \in Nat /\ Spills(h) = Spills(Front(h)) + Spill(h[Len(h)])
      /\ Spills(l) \in Nat
  BY <1>1, SpillsFront, SpillsNat
<1>4. mn.overflow = 6 + Spills(Front(h)) + Spills(l)
  BY <1>1, <1>3 DEF Gives, Spill
<1>5. ASSUME "write_in_a_loop" \notin d  PROVE Owned(mn.used, Front(h), l)
  <2>1. Owned(mm.used, h, l)
    BY <1>5 DEF Book
  <2>2. Owned(UsedWithout(mm.used, h[Len(h)]), Front(h), l)
    BY <1>1, <2>1, OwnGive
  <2> QED
    BY <2>2 DEF Gives
<1> QED
  BY <1>1, <1>2, <1>4, <1>5 DEF Book

LEMMA BookMove ==
  ASSUME NEW mm, NEW h, NEW l, NEW k, NEW s, NEW c, Book(mm, h, l, k, s, c), h # <<>>,
         NEW mn \in Machine(Tokens(Len(h) - 1)), Keeps(mm, mn),
         NEW t, Fits(t, Len(h) - 1), Tests(t, k), NEW d, c \subseteq d
  PROVE  Book(mn, Front(h), Append(l, h[Len(h)]), k, t, d)
<1>1. h \in Seq(Handle) /\ l \in Seq(Handle) /\ mm.overflow = 6 + Spills(h) + Spills(l)
  BY DEF Book
<1>2. Front(h) \in Seq(Handle) /\ Len(Front(h)) = Len(h) - 1 /\ h[Len(h)] \in Handle
  BY <1>1, FrontIs
<1>3. Spills(Front(h)) \in Nat /\ Spills(h) = Spills(Front(h)) + Spill(h[Len(h)])
      /\ Spills(l) \in Nat
  BY <1>1, SpillsFront, SpillsNat
<1>4. Spills(Append(l, h[Len(h)])) = Spills(l) + Spill(h[Len(h)])
      /\ Append(l, h[Len(h)]) \in Seq(Handle)
  BY <1>1, <1>2, SpillsAppend
<1>5. mn.overflow = 6 + Spills(Front(h)) + Spills(Append(l, h[Len(h)]))
  BY <1>1, <1>3, <1>4 DEF Keeps, Spill
<1>6. ASSUME "write_in_a_loop" \notin d
      PROVE  Owned(mn.used, Front(h), Append(l, h[Len(h)]))
  <2>1. Owned(mm.used, h, l)
    BY <1>6 DEF Book
  <2> QED
    BY <1>1, <2>1, OwnGive DEF Keeps
<1> QED
  BY <1>1, <1>2, <1>4, <1>5, <1>6 DEF Book

LEMMA BookSame ==
  ASSUME NEW mm, NEW h, NEW l, NEW k, NEW s, NEW c, Book(mm, h, l, k, s, c),
         NEW mn \in Machine(Tokens(Len(h))), Keeps(mm, mn), NEW q \in 0..MaxLoops,
         NEW t, Fits(t, Len(h)), Tests(t, q), NEW d, c \subseteq d
  PROVE  Book(mn, h, l, q, t, d)
BY DEF Book, Keeps

(* The next piece of work, and what may be put in its place. *)
LEMMA TestsTail ==
  ASSUME NEW s \in Seq(Work), s # <<>>, NEW k, Tests(s, k)
  PROVE  /\ Tests(Tail(s), k) /\ Tail(s) \in Seq(Work)
         /\ Head(s) \in {"stmts", "test"} => "test" \notin In(Tail(s))
         /\ Head(s) = "test" => k < MaxLoops
<1> DEFINE t == Tail(s)
<1>1. /\ Len(s) \in Nat \ {0} /\ DOMAIN s = 1..Len(s) /\ DOMAIN t = 1..(Len(s) - 1)
      /\ t \in Seq(Work) /\ s[1] = Head(s)
      /\ \A i \in 1..(Len(s) - 1) : t[i] = s[i + 1]
  OBVIOUS
<1> HIDE DEF t
<1>2. ASSUME NEW i \in DOMAIN t, t[i] = "test"
      PROVE  /\ k < MaxLoops /\ \A j \in 1..(i - 1) : t[j] \notin {"stmts", "test"}
             /\ Head(s) \notin {"stmts", "test"}
  <2>1. i + 1 \in DOMAIN s /\ s[i + 1] = "test" /\ (i + 1) - 1 = i /\ 1 \in 1..i
    BY <1>1, <1>2
  <2>2. k < MaxLoops /\ \A j \in 1..i : s[j] \notin {"stmts", "test"}
    BY <2>1 DEF Tests
  <2>3. ASSUME NEW j \in 1..(i - 1)  PROVE t[j] \notin {"stmts", "test"}
    <3>1. j \in 1..(Len(s) - 1) /\ j + 1 \in 1..i
      BY <1>1, <2>1
    <3> QED
      BY <1>1, <2>2, <3>1
  <2> QED
    BY <1>1, <2>1, <2>2, <2>3
<1>3. Head(s) = "test" => k < MaxLoops
  <2>1. 1 \in DOMAIN s
    BY <1>1
  <2> QED
    BY <1>1, <2>1 DEF Tests
<1> QED
  BY <1>1, <1>2, <1>3 DEF Tests, In, t

LEMMA TestsPut ==
  ASSUME NEW w \in Seq(Work), NEW t \in Seq(Work), NEW k
  PROVE  /\ /\ Tests(t, k)
            /\ \A i \in DOMAIN w : w[i] \notin {"stmts", "test"}
            => Tests(w \o t, k)
         /\ /\ "test" \notin In(t)
            /\ \A i \in DOMAIN w : w[i] # "test"
            => Tests(w \o t, k)
<1> DEFINE s == w \o t
           n == Len(w)
<1>1. /\ n \in Nat /\ Len(t) \in Nat /\ DOMAIN w = 1..n /\ DOMAIN t = 1..Len(t)
      /\ DOMAIN s = 1..(n + Len(t))
      /\ \A i \in 1..(n + Len(t)) : s[i] = IF i <= n THEN w[i] ELSE t[i - n]
  BY ConcatProperties
<1> HIDE DEF s, n
<1>2. \A i \in DOMAIN s : ~(i <= n) => i - n \in DOMAIN t /\ s[i] = t[i - n]
  BY <1>1
<1>3. \A i \in DOMAIN s : i <= n => i \in DOMAIN w /\ s[i] = w[i]
  BY <1>1
<1>4. ASSUME Tests(t, k), \A i \in DOMAIN w : w[i] \notin {"stmts", "test"}
      PROVE  Tests(s, k)
  <2> SUFFICES ASSUME NEW i \in DOMAIN s, s[i] = "test"
               PROVE  k < MaxLoops /\ \A j \in 1..(i - 1) : s[j] \notin {"stmts", "test"}
    BY DEF Tests
  <2>1. ~(i <= n)
    BY <1>3, <1>4
  <2>2. i - n \in DOMAIN t /\ t[i - n] = "test"
    BY <1>2, <2>1
  <2>3. k < MaxLoops /\ \A j \in 1..((i - n) - 1) : t[j] \notin {"stmts", "test"}
    BY <1>4, <2>2 DEF Tests
  <2>4. ASSUME NEW j \in 1..(i - 1)  PROVE s[j] \notin {"stmts", "test"}
    <3>1. j \in DOMAIN s
      BY <1>1
    <3>2. CASE j <= n
      BY <1>3, <1>4, <3>1, <3>2
    <3>3. CASE ~(j <= n)
      <4>1. j - n \in 1..((i - n) - 1)
        BY <1>1, <3>3
      <4> QED
        BY <1>2, <2>3, <3>1, <3>3, <4>1
    <3> QED
      BY <3>2, <3>3
  <2> QED
    BY <2>3, <2>4
<1>5. ASSUME "test" \notin In(t), \A i \in DOMAIN w : w[i] # "test"
      PROVE  Tests(s, k)
  <2>1. \A i \in DOMAIN s : s[i] # "test"
    <3> TAKE i \in DOMAIN s
    <3>1. CASE i <= n
      BY <1>3, <1>5, <3>1
    <3>2. CASE ~(i <= n)
      BY <1>2, <1>5, <3>2 DEF In
    <3> QED
      BY <3>1, <3>2
  <2> QED
    BY <2>1 DEF Tests
<1> QED
  BY <1>4, <1>5 DEF s

(* What a FOR loop is to do has one test. *)
LEMMA TestsFor ==
  ASSUME NEW t \in Seq(Work), NEW k, k < MaxLoops, "test" \notin In(t)
  PROVE  Tests(<<"int", "int", "variable", "test", "stmts", "again", "stmts">> \o t, k)
<1> DEFINE w == <<"int", "int", "variable", "test", "stmts", "again", "stmts">>
           s == w \o t
<1>1. w \in Seq(Work) /\ Len(w) = 7
  BY DEF Work, Type
<1>2. /\ Len(t) \in Nat /\ DOMAIN t = 1..Len(t) /\ DOMAIN s = 1..(7 + Len(t))
      /\ \A i \in 1..(7 + Len(t)) : s[i] = IF i <= 7 THEN w[i] ELSE t[i - 7]
  <2> HIDE DEF w
  <2>1. /\ s \in Seq(Work) /\ Len(s) = Len(w) + Len(t)
        /\ \A i \in 1..(Len(w) + Len(t)) : s[i] = IF i <= Len(w) THEN w[i] ELSE t[i - Len(w)]
    BY <1>1, ConcatProperties
  <2> HIDE DEF s
  <2> QED
    BY <1>1, <2>1
<1>3. \A i \in 1..7 : i # 4 => w[i] # "test"
  OBVIOUS
<1>4. w[1] = "int" /\ w[2] = "int" /\ w[3] = "variable"
  OBVIOUS
<1> HIDE DEF s, w
<1>5. ASSUME NEW i \in DOMAIN s, s[i] = "test"  PROVE i = 4
  <2>1. CASE i <= 7
    BY <1>2, <1>3, <1>5, <2>1
  <2>2. CASE ~(i <= 7)
    <3>1. i - 7 \in DOMAIN t
      BY <1>2, <2>2
    <3> QED
      BY <1>2, <1>5, <2>2, <3>1 DEF In
  <2> QED
    BY <2>1, <2>2
<1>6. \A j \in 1..3 : s[j] \notin {"stmts", "test"}
  BY <1>2, <1>4
<1>7. Tests(s, k)
  BY <1>5, <1>6 DEF Tests
<1> QED
  BY <1>7 DEF s, w

(* t has the registers in use and the counter of s. *)
Like(n, s, t) == t \in Machine(Tokens(n)) /\ Keeps(s, t)

LEMMA LikeSteps ==
  ASSUME NEW n \in Nat, NEW s, NEW t, Like(n, s, t), NEW r \in Reg, NEW tok \in Tokens(n)
  PROVE  /\ Like(n, s, Set(t, r, tok)) /\ Like(n, s, Push(t, tok)) /\ Like(n, s, Pop(t, r))
         /\ \A S : Like(n, s, Forget(t, S))
<1>1. t \in Machine(Tokens(n)) /\ Keeps(s, t) /\ 0 \in Tokens(n)
  BY DEF Like, Tokens
<1>2. Set(t, r, tok) \in Machine(Tokens(n)) /\ Keeps(t, Set(t, r, tok))
  BY <1>1 DEF Set, Machine, Keeps
<1>3. Push(t, tok) \in Machine(Tokens(n)) /\ Keeps(t, Push(t, tok))
  <2>1. t.stack \in Seq(Tokens(n)) /\ Append(t.stack, tok) \in Seq(Tokens(n))
    BY <1>1 DEF Machine
  <2>2. Push(t, tok) = [used |-> t.used, overflow |-> t.overflow, regs |-> t.regs,
                        stack |-> Append(t.stack, tok)]
    BY <1>1 DEF Push, Machine
  <2> QED
    BY <1>1, <2>1, <2>2 DEF Machine, Keeps
<1>4. Pop(t, r) \in Machine(Tokens(n)) /\ Keeps(t, Pop(t, r))
  BY <1>1, PopType DEF Keeps
<1>5. \A S : Forget(t, S) \in Machine(Tokens(n)) /\ Keeps(t, Forget(t, S))
  BY <1>1, ForgetKeeps
<1> QED
  BY <1>1, <1>2, <1>3, <1>4, <1>5 DEF Like, Keeps

LEMMA NameIsReg ==
  ASSUME NEW x \in Handle
  PROVE  Name(x) \in Reg /\ (~x.spilled => Name(x) = x.which) /\ (x.spilled => Name(x) = RCX)
BY RcxIsReg DEF Name, Handle

(* An operand is read, given back and dropped, in either order. *)
LEMMA DropOne ==
  ASSUME NEW n \in Nat \ {0}, NEW mm, NEW s, Like(n, mm, s), mm.overflow >= 6, NEW x \in Handle
  PROVE  /\ Takeback(Forget(s, n..n), x) \in Machine(Tokens(n - 1))
         /\ Gives(mm, Takeback(Forget(s, n..n), x), x)
         /\ Forget(Takeback(s, x), n..n) \in Machine(Tokens(n - 1))
         /\ Gives(mm, Forget(Takeback(s, x), n..n), x)
<1> DEFINE a == Forget(s, n..n)
           b == Takeback(s, x)
<1>1. s \in Machine(Tokens(n)) /\ Keeps(mm, s) /\ s.overflow \in Nat /\ s.overflow > 0
  BY DEF Like, Keeps, Machine
<1>2. 0 \in Tokens(n) /\ 0 \in Tokens(n - 1) /\ n \in Nat /\ n \in 1..(n + 1)
  BY DEF Tokens
<1>3. a \in Machine(Tokens(n - 1)) /\ Keeps(s, a)
  BY <1>1, <1>2, DropType
<1>4. b \in Machine(Tokens(n)) /\ Gives(s, b, x)
  BY <1>1, <1>2, TakebackGives
<1>5. Takeback(a, x) \in Machine(Tokens(n - 1)) /\ Gives(a, Takeback(a, x), x)
  <2> HIDE DEF a
  <2>1. a.overflow > 0
    BY <1>1, <1>3 DEF Keeps
  <2> QED
    BY <1>2, <1>3, <2>1, TakebackGives
<1>6. Forget(b, n..n) \in Machine(Tokens(n - 1)) /\ Keeps(b, Forget(b, n..n))
  <2> HIDE DEF b
  <2> QED
    BY <1>2, <1>4, DropType
<1> QED
  BY <1>1, <1>3, <1>4, <1>5, <1>6 DEF Gives, Keeps

(* The next piece of work. *)
LEMMA AtIs ==
  ASSUME Bookkeeping, NEW task, At(task)
  PROVE  /\ Book(m, held, leaked, loops, todo, causes)
         /\ phase = "ok" /\ todo # <<>> /\ Head(todo) = task
         /\ todo \in Seq(Work) /\ Fits(todo, N) /\ Tests(todo, loops)
         /\ held \in Seq(Handle) /\ leaked \in Seq(Handle) /\ loops \in 0..MaxLoops
         /\ N \in Nat /\ N >= Needs(task)
         /\ m \in Machine(Tokens(N)) /\ Like(N, m, m) /\ m.overflow >= 6
         /\ Tail(todo) \in Seq(Work) /\ Fits(Tail(todo), N + Change(task))
         /\ Tests(Tail(todo), loops)
         /\ task \in {"stmts", "test"} => "test" \notin In(Tail(todo))
         /\ task = "test" => loops < MaxLoops
<1>1. /\ Book(m, held, leaked, loops, todo, causes)
      /\ phase = "ok" /\ todo # <<>> /\ Head(todo) = task
  BY DEF At, Bookkeeping
<1>2. /\ todo \in Seq(Work) /\ Fits(todo, N) /\ Tests(todo, loops)
      /\ held \in Seq(Handle) /\ leaked \in Seq(Handle) /\ loops \in 0..MaxLoops
      /\ N \in Nat /\ m \in Machine(Tokens(N)) /\ m.overflow = 6 + Spills(held) + Spills(leaked)
  BY <1>1 DEF Book, Fits, N
<1>3. m.overflow >= 6
  BY <1>2, SpillsNat
<1>4. N >= Needs(task) /\ Fits(Tail(todo), N + Change(task))
  BY <1>1, <1>2, FitsTail
<1>5. /\ Tests(Tail(todo), loops) /\ Tail(todo) \in Seq(Work)
      /\ task \in {"stmts", "test"} => "test" \notin In(Tail(todo))
      /\ task = "test" => loops < MaxLoops
  BY <1>1, <1>2, TestsTail
<1> QED
  BY <1>1, <1>2, <1>3, <1>4, <1>5 DEF Like, Keeps

LEMMA ThenNothing ==
  ASSUME Then(<<>>), Tail(todo) \in Seq(Work)
  PROVE  todo' = Tail(todo)
BY DEF Then

-----------------------------------------------------------------------------
(* One lemma per action. *)

LEMMA LeafBooks == ASSUME Bookkeeping, Leaf  PROVE Bookkeeping'
<1>1. PICK task \in Operand : At(task)
  BY DEF Leaf, Operand
<1>2. /\ Book(m, held, leaked, loops, todo, causes) /\ phase = "ok"
      /\ Fits(Tail(todo), N + 1) /\ Tests(Tail(todo), loops) /\ todo' = Tail(todo)
      /\ m \in Machine(Tokens(N)) /\ N \in Nat
  BY <1>1, AtIs, ThenNothing DEF Leaf, Change
<1>3. m \in Machine(Tokens(N + 1)) /\ N + 1 \in Tokens(N + 1)
  <2>1. Tokens(N) \subseteq Tokens(N + 1) /\ N + 1 \in Tokens(N + 1)
    BY <1>2 DEF Tokens
  <2> QED
    BY <1>2, <2>1, MachineMono
<1> DEFINE x == GimmeReg(m)
<1>4. /\ Gimme(m, N + 1) \in Machine(Tokens(N + 1)) /\ Takes(m, Gimme(m, N + 1), x)
      /\ x \in Handle /\ (~x.spilled => x.which \notin m.used)
  BY <1>3, GimmeTakes
<1>5. m' = Gimme(m, N + 1) /\ held' = Append(held, x) /\ leaked' = leaked /\ loops' = loops
      /\ phase' = phase /\ causes \subseteq causes'
  BY DEF Leaf
<1> HIDE DEF x
<1>6. Book(m', Append(held, x), leaked, loops, Tail(todo), causes')
  BY <1>2, <1>4, <1>5, BookTake DEF N
<1> QED
  BY <1>2, <1>5, <1>6 DEF Bookkeeping

LEMMA IndexBooks == ASSUME Bookkeeping, Index  PROVE Bookkeeping'
<1>1. PICK task \in Operand : At(task)
  BY DEF Index, Operand
<1>2. /\ Book(m, held, leaked, loops, todo, causes) /\ phase = "ok"
      /\ todo # <<>> /\ Head(todo) \in Operand /\ Fits(todo, N)
      /\ Tail(todo) \in Seq(Work) /\ Tests(Tail(todo), loops)
      /\ m \in Machine(Tokens(N)) /\ N \in Nat
  BY <1>1, AtIs
<1>3. todo' = <<"int">> \o Tail(todo)
  BY DEF Index, Then
<1>4. Fits(todo', N)
  BY <1>2, <1>3, IndexFits
<1>5. Tests(todo', loops)
  <2>1. <<"int">> \in Seq(Work) /\ \A i \in DOMAIN <<"int">> : <<"int">>[i] \notin {"stmts", "test"}
    BY DEF Work, Type
  <2> QED
    BY <1>2, <1>3, <2>1, TestsPut
<1> DEFINE x == GimmeReg(m)
<1>6. /\ Gimme(m, 0) \in Machine(Tokens(N)) /\ Takes(m, Gimme(m, 0), x)
      /\ x \in Handle /\ (~x.spilled => x.which \notin m.used)
  <2>1. 0 \in Tokens(N)
    BY <1>2 DEF Tokens
  <2> QED
    BY <1>2, <2>1, GimmeTakes
<1>7. m' = Gimme(m, 0) /\ leaked' = Append(leaked, x) /\ held' = held /\ loops' = loops
      /\ phase' = phase /\ causes \subseteq causes'
  BY DEF Index
<1> HIDE DEF x
<1>8. Book(m', held, Append(leaked, x), loops, todo', causes')
  BY <1>2, <1>4, <1>5, <1>6, <1>7, BookLeak DEF N
<1> QED
  BY <1>2, <1>7, <1>8 DEF Bookkeeping

(* What the actions that consume one operand have in common. *)
LEMMA OneGone ==
  ASSUME Bookkeeping, NEW task, At(task), Change(task) = -1, N \in Nat \ {0},
         NEW s, Like(N, m, s),
         m' = Takeback(Forget(s, N..N), R) \/ m' = Forget(Takeback(s, R), N..N),
         held' = Shorter(1), todo' = Tail(todo), leaked' = leaked, loops' = loops,
         causes \subseteq causes', phase' \in {"ok", "wrong"}
  PROVE  Bookkeeping'
<1>1. /\ Book(m, held, leaked, loops, todo, causes) /\ held \in Seq(Handle) /\ m.overflow >= 6
      /\ Fits(Tail(todo), N - 1) /\ Tests(Tail(todo), loops)
  <2>1. N + Change(task) = N - 1
    OBVIOUS
  <2> QED
    BY <2>1, AtIs
<1>2. held # <<>> /\ N = Len(held) /\ R = held[Len(held)] /\ R \in Handle
  BY <1>1 DEF N, R
<1>3. held' = Front(held)
  BY DEF Shorter, Front, N
<1>4. m' \in Machine(Tokens(N - 1)) /\ Gives(m, m', R)
  BY <1>1, <1>2, DropOne
<1>5. Book(m', Front(held), leaked, loops, Tail(todo), causes')
  BY <1>1, <1>2, <1>4, BookGive
<1> QED
  BY <1>3, <1>5 DEF Bookkeeping

LEMMA TwoAlive ==
  ASSUME held \in Seq(Handle), N >= 2
  PROVE  /\ L \in Handle /\ R \in Handle /\ Name(L) \in Reg /\ Name(R) \in Reg
         /\ N \in Nat /\ N - 1 \in 1..N /\ N \in 1..N /\ N \in Nat \ {0}
<1>1. L \in Handle /\ R \in Handle /\ N \in Nat /\ N - 1 \in 1..N /\ N \in 1..N
  BY DEF L, R, N
<1> QED
  BY <1>1, NameIsReg

LEMMA BinaryBooks == ASSUME Bookkeeping, Binary  PROVE Bookkeeping'
<1>1. PICK task \in Type, t \in Type, o \in {"op", "rel"} : At(task) /\ Then(<<t, t, o>>)
  BY DEF Binary, Type
<1>2. /\ Book(m, held, leaked, loops, todo, causes) /\ Like(N, m, m) /\ phase = "ok"
      /\ todo # <<>> /\ Head(todo) \in Type /\ Fits(todo, N)
      /\ Tail(todo) \in Seq(Work) /\ Tests(Tail(todo), loops) /\ loops \in 0..MaxLoops
  BY <1>1, AtIs
<1>3. todo' = <<t, t, o>> \o Tail(todo)
  BY <1>1 DEF Then
<1>4. Fits(todo', N)
  BY <1>2, <1>3, BinaryFits
<1>5. Tests(todo', loops)
  <2>1. <<t, t, o>> \in Seq(Work)
        /\ \A i \in DOMAIN <<t, t, o>> : <<t, t, o>>[i] \notin {"stmts", "test"}
    BY DEF Work, Type
  <2> QED
    BY <1>2, <1>3, <2>1, TestsPut
<1>6. UNCHANGED <<m, held, leaked, loops, phase, causes>>
  BY DEF Binary
<1>7. Book(m, held, leaked, loops, todo', causes)
  BY <1>2, <1>4, <1>5, BookSame DEF Like, N
<1> QED
  BY <1>2, <1>6, <1>7 DEF Bookkeeping

LEMMA ArithBooks == ASSUME Bookkeeping, Arith  PROVE Bookkeeping'
<1>1. At("op") /\ Change("op") = -1 /\ Needs("op") = 2
  BY DEF Arith, Change, Needs, Operand, Type
<1>2. held \in Seq(Handle) /\ N >= 2 /\ Like(N, m, m) /\ Tail(todo) \in Seq(Work) /\ phase = "ok"
  BY <1>1, AtIs
<1>3. Name(L) \in Reg /\ N \in Nat \ {0} /\ N - 1 \in Tokens(N)
  BY <1>2, TwoAlive DEF Tokens
<1> DEFINE s == Set(Forget(m, {N - 1}), Name(L), N - 1)
<1>4. Like(N, m, s)
  BY <1>2, <1>3, LikeSteps
<1>5. /\ m' = Takeback(Forget(s, N..N), R) /\ held' = Shorter(1) /\ leaked' = leaked
      /\ loops' = loops /\ causes \subseteq causes' /\ phase' = phase /\ Then(<<>>)
  BY DEF Arith, Drop
<1> HIDE DEF s
<1>6. todo' = Tail(todo)
  BY <1>2, <1>5, ThenNothing
<1> QED
  BY <1>1, <1>2, <1>3, <1>4, <1>5, <1>6, OneGone

LEMMA DivideBooks == ASSUME Bookkeeping, Divide  PROVE Bookkeeping'
<1>1. At("op") /\ Change("op") = -1 /\ Needs("op") = 2
  BY DEF Divide, Change, Needs, Operand, Type
<1>2. held \in Seq(Handle) /\ N >= 2 /\ Like(N, m, m) /\ Tail(todo) \in Seq(Work) /\ phase = "ok"
      /\ m \in Machine(Tokens(N))
  BY <1>1, AtIs
<1>3. Name(L) \in Reg /\ N \in Nat \ {0} /\ N - 1 \in Tokens(N) /\ 0 \in Tokens(N)
  BY <1>2, TwoAlive DEF Tokens
<1> DEFINE saved == Push(Push(m, m.regs[RDX]), m.regs[RAX])
           ready == Set(Set(saved, RAX, m.regs[Name(L)]), RDX, 0)
           done == Set(Forget(ready, {N - 1}), Name(L), N - 1)
           restored == Pop(Pop(done, RAX), RDX)
<1>4. m.regs[RDX] \in Tokens(N) /\ m.regs[RAX] \in Tokens(N) /\ m.regs[Name(L)] \in Tokens(N)
  BY <1>2, <1>3, RcxIsReg DEF Machine
<1>5. Like(N, m, saved)
  BY <1>2, <1>3, <1>4, LikeSteps
<1>6. Like(N, m, ready)
  <2> HIDE DEF saved
  <2> QED
    BY <1>3, <1>4, <1>5, RcxIsReg, LikeSteps
<1>7. Like(N, m, done)
  <2> HIDE DEF ready
  <2> QED
    BY <1>3, <1>6, LikeSteps
<1>8. Like(N, m, restored)
  <2> HIDE DEF done
  <2> QED
    BY <1>3, <1>7, RcxIsReg, LikeSteps
<1>9. /\ m' = Takeback(Forget(restored, N..N), R) /\ held' = Shorter(1) /\ leaked' = leaked
      /\ loops' = loops /\ causes \subseteq causes' /\ phase' \in {"ok", "wrong"} /\ Then(<<>>)
  BY DEF Divide, Drop
<1> HIDE DEF restored
<1>10. todo' = Tail(todo)
  BY <1>2, <1>9, ThenNothing
<1> QED
  BY <1>1, <1>3, <1>8, <1>9, <1>10, OneGone

LEMMA CompareBooks == ASSUME Bookkeeping, Compare  PROVE Bookkeeping'
<1> DEFINE low == EightBit(Name(R))
<1>1. At("rel") /\ low # -1 /\ Change("rel") = -1 /\ Needs("rel") = 2
  BY DEF Compare, Change, Needs, Operand, Type
<1>2. held \in Seq(Handle) /\ N >= 2 /\ Like(N, m, m) /\ Tail(todo) \in Seq(Work) /\ phase = "ok"
  BY <1>1, AtIs
<1>3. Name(L) \in Reg /\ N \in Nat \ {0} /\ N - 1 \in Tokens(N) /\ 0 \in Tokens(N)
  BY <1>2, TwoAlive DEF Tokens
<1>4. low \in Reg
  <2>1. Name(R) \in Reg
    BY <1>2, TwoAlive
  <2> QED
    BY <1>1, <2>1, RcxIsReg DEF EightBit
<1> DEFINE s == Set(Set(Forget(m, {N - 1}), low, 0), Name(L), N - 1)
<1>5. /\ m' = Takeback(Forget(s, N..N), R) /\ held' = Shorter(1) /\ leaked' = leaked
      /\ loops' = loops /\ causes \subseteq causes' /\ phase' = phase /\ Then(<<>>)
  BY DEF Compare, Drop
<1> HIDE DEF low
<1>6. Like(N, m, s)
  BY <1>2, <1>3, <1>4, LikeSteps
<1> HIDE DEF s
<1>7. todo' = Tail(todo)
  BY <1>2, <1>5, ThenNothing
<1> QED
  BY <1>1, <1>2, <1>3, <1>5, <1>6, <1>7, OneGone

(* The instruction that reads what is gone, or does not assemble. *)
LEMMA StopBooks == ASSUME Bookkeeping, Misread \/ CompareFails  PROVE Bookkeeping'
<1>1. UNCHANGED <<m, held, leaked, loops, todo, causes>> /\ phase' \in {"wrong", "asm"}
  BY DEF Misread, CompareFails
<1> QED
  BY <1>1 DEF Bookkeeping

(* What the actions that begin something have in common. *)
LEMMA Begun ==
  ASSUME Bookkeeping, NEW task, At(task), NEW w \in Seq(Work), Then(w),
         Fits(w \o Tail(todo), N),
         \/ task # "stmts" /\ \A i \in DOMAIN w : w[i] \notin {"stmts", "test"}
         \/ task = "stmts" /\ \A i \in DOMAIN w : w[i] # "test",
         m' = m \/ m' = Save(m), UNCHANGED <<held, leaked, loops, phase, causes>>
  PROVE  Bookkeeping'
<1>1. /\ Book(m, held, leaked, loops, todo, causes) /\ Like(N, m, m) /\ phase = "ok"
      /\ m \in Machine(Tokens(N)) /\ loops \in 0..MaxLoops
      /\ Tail(todo) \in Seq(Work) /\ Tests(Tail(todo), loops)
      /\ task = "stmts" => "test" \notin In(Tail(todo))
  BY AtIs
<1>2. todo' = w \o Tail(todo) /\ Fits(todo', N)
  BY DEF Then
<1>3. Tests(todo', loops)
  BY <1>1, <1>2, TestsPut
<1>4. m' \in Machine(Tokens(N)) /\ Keeps(m, m')
  BY <1>1, SaveType DEF Keeps
<1>5. Book(m', held, leaked, loops, todo', causes)
  BY <1>1, <1>2, <1>3, <1>4, BookSame DEF N
<1> QED
  BY <1>1, <1>5 DEF Bookkeeping

LEMMA CallBooks == ASSUME Bookkeeping, NEW args \in BOOLEAN, Call(args)  PROVE Bookkeeping'
<1>1. PICK task \in Type : At(task)
  BY DEF Call
<1>2. todo # <<>> /\ Head(todo) = task /\ Fits(todo, N) /\ task # "stmts"
  BY <1>1, AtIs DEF Type
<1>3. m' = Save(m) /\ Then(CallWork(args)) /\ UNCHANGED <<held, leaked, loops, phase, causes>>
  BY DEF Call
<1>4. CASE ~args
  <2> DEFINE w == <<"call">>
  <2>1. w \in Seq(Work) /\ (\A i \in DOMAIN w : w[i] \notin {"stmts", "test"}) /\ CallWork(args) = w
    BY <1>4 DEF Work, Type, CallWork
  <2>2. Fits(w \o Tail(todo), N)
    BY <1>2, CallFits
  <2> HIDE DEF w
  <2> QED
    BY <1>1, <1>2, <1>3, <2>1, <2>2, Begun
<1>5. CASE args
  <2> DEFINE w == <<"int", "arg", "call_with_args">>
  <2>1. w \in Seq(Work) /\ (\A i \in DOMAIN w : w[i] \notin {"stmts", "test"}) /\ CallWork(args) = w
    BY <1>5 DEF Work, Type, CallWork
  <2>2. Fits(w \o Tail(todo), N)
    BY <1>2, CallFits
  <2> HIDE DEF w
  <2> QED
    BY <1>1, <1>2, <1>3, <2>1, <2>2, Begun
<1> QED
  BY <1>4, <1>5

LEMMA StartAssignBooks == ASSUME Bookkeeping, StartAssign  PROVE Bookkeeping'
<1>1. PICK t \in Type : Then(<<"lvalue", t, "assign", "stmts">>)
  BY DEF StartAssign
<1>2. At("stmts") /\ UNCHANGED <<m, held, leaked, loops, phase, causes>>
  BY DEF StartAssign, Stmt
<1>3. todo # <<>> /\ Head(todo) = "stmts" /\ Fits(todo, N)
  BY <1>2, AtIs
<1> DEFINE w == <<"lvalue", t, "assign", "stmts">>
<1>4. w \in Seq(Work) /\ \A i \in DOMAIN w : w[i] # "test"
  BY DEF Work, Type
<1>5. Fits(w \o Tail(todo), N)
  BY <1>3, AssignFits
<1>6. Then(w)
  BY <1>1
<1> HIDE DEF w
<1> QED
  BY <1>2, <1>4, <1>5, <1>6, Begun

LEMMA StartConditionalBooks == ASSUME Bookkeeping, StartConditional  PROVE Bookkeeping'
<1>1. At("stmts") /\ UNCHANGED <<m, held, leaked, loops, phase, causes>>
  BY DEF StartConditional, Stmt
<1>2. todo # <<>> /\ Head(todo) = "stmts" /\ Fits(todo, N)
  BY <1>1, AtIs
<1>3. CASE Then(<<"bool", "cond", "stmts", "stmts">>)
  <2> DEFINE w == <<"bool", "cond", "stmts", "stmts">>
  <2>1. w \in Seq(Work) /\ (\A i \in DOMAIN w : w[i] # "test") /\ Then(w)
    BY <1>3 DEF Work, Type
  <2>2. Fits(w \o Tail(todo), N)
    BY <1>2, IfFits
  <2> HIDE DEF w
  <2> QED
    BY <1>1, <2>1, <2>2, Begun
<1>4. CASE Then(<<"bool", "cond", "stmts", "stmts", "stmts">>)
  <2> DEFINE w == <<"bool", "cond", "stmts", "stmts", "stmts">>
  <2>1. w \in Seq(Work) /\ (\A i \in DOMAIN w : w[i] # "test") /\ Then(w)
    BY <1>4 DEF Work, Type
  <2>2. Fits(w \o Tail(todo), N)
    BY <1>2, IfElseFits
  <2> HIDE DEF w
  <2> QED
    BY <1>1, <2>1, <2>2, Begun
<1> QED
  BY <1>3, <1>4 DEF StartConditional

(* The work put together from parts. *)
Joins(u, v, w) ==
  /\ u \in Seq(Work) /\ v \in Seq(Work) /\ w \in Seq(Work) /\ Len(w) = Len(u) + Len(v)
  /\ \A i \in 1..Len(u) : w[i] = u[i]
  /\ \A i \in 1..Len(v) : w[Len(u) + i] = v[i]

LEMMA ConcatIs ==
  ASSUME NEW u, NEW v, NEW w, Joins(u, v, w)
  PROVE  u \o v = w
<1> USE DEF Joins
<1> DEFINE z == u \o v
<1>1. /\ z \in Seq(Work) /\ Len(z) = Len(u) + Len(v) /\ Len(u) \in Nat /\ Len(v) \in Nat
      /\ \A i \in 1..(Len(u) + Len(v)) : z[i] = IF i <= Len(u) THEN u[i] ELSE v[i - Len(u)]
  BY ConcatProperties
<1> HIDE DEF z
<1>2. ASSUME NEW i \in 1..Len(z)  PROVE z[i] = w[i]
  <2>1. CASE i <= Len(u)
    BY <1>1, <2>1
  <2>2. CASE ~(i <= Len(u))
    <3>1. i - Len(u) \in 1..Len(v) /\ Len(u) + (i - Len(u)) = i
      BY <1>1, <2>2
    <3>2. w[Len(u) + (i - Len(u))] = v[i - Len(u)]
      BY <3>1
    <3> QED
      BY <1>1, <2>2, <3>1, <3>2
  <2> QED
    BY <2>1, <2>2
<1>3. z = w
  BY <1>1, <1>2, SeqEqual
<1> QED
  BY <1>3 DEF z

LEMMA ProcWork ==
  /\ <<"call">> \o <<"discard", "stmts">> = <<"call", "discard", "stmts">>
  /\ <<"int", "arg", "call_with_args">> \o <<"discard", "stmts">>
       = <<"int", "arg", "call_with_args", "discard", "stmts">>
<1> DEFINE v == <<"discard", "stmts">>
<1>1. <<"call">> \o v = <<"call", "discard", "stmts">>
  <2> DEFINE u == <<"call">>
             w == <<"call", "discard", "stmts">>
  <2>1. u \in Seq(Work) /\ v \in Seq(Work) /\ w \in Seq(Work) /\ Len(u) = 1 /\ Len(v) = 2 /\ Len(w) = 3
    BY DEF Work, Type
  <2>2. u[1] = w[1] /\ v[1] = w[2] /\ v[2] = w[3]
    OBVIOUS
  <2> HIDE DEF u, v, w
  <2>3. u \o v = w
    <3>1. Joins(u, v, w)
      BY <2>1, <2>2 DEF Joins
    <3> QED
      BY <3>1, ConcatIs
  <2> QED
    BY <2>3 DEF u, w
<1>2. <<"int", "arg", "call_with_args">> \o v
        = <<"int", "arg", "call_with_args", "discard", "stmts">>
  <2> DEFINE u == <<"int", "arg", "call_with_args">>
             w == <<"int", "arg", "call_with_args", "discard", "stmts">>
  <2>1. u \in Seq(Work) /\ v \in Seq(Work) /\ w \in Seq(Work) /\ Len(u) = 3 /\ Len(v) = 2 /\ Len(w) = 5
    BY DEF Work, Type
  <2>2. u[1] = w[1] /\ u[2] = w[2] /\ u[3] = w[3] /\ v[1] = w[4] /\ v[2] = w[5]
    OBVIOUS
  <2> HIDE DEF u, v, w
  <2>3. u \o v = w
    <3>1. Joins(u, v, w)
      BY <2>1, <2>2 DEF Joins
    <3> QED
      BY <3>1, ConcatIs
  <2> QED
    BY <2>3 DEF u, w
<1> QED
  BY <1>1, <1>2

LEMMA WriteWork ==
  ASSUME NEW t \in Type
  PROVE  /\ <<>> \o <<"written">> \o <<"stmts">> = <<"written", "stmts">>
         /\ <<>> \o <<"newline", "written">> \o <<"stmts">> = <<"newline", "written", "stmts">>
         /\ <<t, "write">> \o <<"written">> \o <<"stmts">> = <<t, "write", "written", "stmts">>
         /\ <<t, "write">> \o <<"newline", "written">> \o <<"stmts">>
              = <<t, "write", "newline", "written", "stmts">>
<1> DEFINE a == <<t, "write">>
           e == <<"written">>
           f == <<"newline", "written">>
           z == <<"stmts">>
           es == <<"written", "stmts">>
           fs == <<"newline", "written", "stmts">>
           ae == <<t, "write", "written">>
           aes == <<t, "write", "written", "stmts">>
           af == <<t, "write", "newline", "written">>
           afs == <<t, "write", "newline", "written", "stmts">>
<1>1. /\ a \in Seq(Work) /\ e \in Seq(Work) /\ f \in Seq(Work) /\ z \in Seq(Work)
      /\ Len(a) = 2 /\ Len(e) = 1 /\ Len(f) = 2 /\ Len(z) = 1
  BY DEF Work, Type
<1>2. es \in Seq(Work) /\ fs \in Seq(Work) /\ Len(es) = 2 /\ Len(fs) = 3
  BY DEF Work, Type
<1>3. ae \in Seq(Work) /\ aes \in Seq(Work) /\ Len(ae) = 3 /\ Len(aes) = 4
  BY DEF Work, Type
<1>4. af \in Seq(Work) /\ afs \in Seq(Work) /\ Len(af) = 4 /\ Len(afs) = 5
  BY DEF Work, Type
<1>5. e[1] = es[1] /\ z[1] = es[2] /\ f[1] = fs[1] /\ f[2] = fs[2] /\ z[1] = fs[3]
  OBVIOUS
<1>6. a[1] = ae[1] /\ a[2] = ae[2] /\ e[1] = ae[3]
      /\ ae[1] = aes[1] /\ ae[2] = aes[2] /\ ae[3] = aes[3] /\ z[1] = aes[4]
  OBVIOUS
<1>7. a[1] = af[1] /\ a[2] = af[2] /\ f[1] = af[3] /\ f[2] = af[4]
      /\ af[1] = afs[1] /\ af[2] = afs[2] /\ af[3] = afs[3] /\ af[4] = afs[4] /\ z[1] = afs[5]
  OBVIOUS
<1> HIDE DEF a, e, f, z, es, fs, ae, aes, af, afs
<1>8. e \o z = es
  <2>1. Joins(e, z, es)
    <3>1. (\A i \in 1..Len(e) : i = 1) /\ (\A i \in 1..Len(z) : i = 1 /\ Len(e) + i = 2)
      BY <1>1
    <3>2. Len(es) = Len(e) + Len(z)
      BY <1>1, <1>2
    <3> QED
      BY <1>1, <1>2, <1>5, <3>1, <3>2 DEF Joins
  <2> QED
    BY <2>1, ConcatIs
<1>9. f \o z = fs
  <2>1. Joins(f, z, fs)
    BY <1>1, <1>2, <1>5 DEF Joins
  <2> QED
    BY <2>1, ConcatIs
<1>10. a \o e = ae
  <2>1. Joins(a, e, ae)
    BY <1>1, <1>3, <1>6 DEF Joins
  <2> QED
    BY <2>1, ConcatIs
<1>11. ae \o z = aes
  <2>1. Joins(ae, z, aes)
    BY <1>1, <1>3, <1>6 DEF Joins
  <2> QED
    BY <2>1, ConcatIs
<1>12. a \o f = af
  <2>1. Joins(a, f, af)
    BY <1>1, <1>4, <1>7 DEF Joins
  <2> QED
    BY <2>1, ConcatIs
<1>13. af \o z = afs
  <2>1. Joins(af, z, afs)
    BY <1>1, <1>4, <1>7 DEF Joins
  <2> QED
    BY <2>1, ConcatIs
<1>14. <<>> \o e = e /\ <<>> \o f = f
  BY <1>1, ConcatEmptySeq
<1> QED
  BY <1>8, <1>9, <1>10, <1>11, <1>12, <1>13, <1>14 DEF a, e, f, z, es, fs, ae, aes, af, afs

LEMMA StartProcBooks == ASSUME Bookkeeping, NEW args \in BOOLEAN, StartProc(args)  PROVE Bookkeeping'
<1>1. At("stmts") /\ m' = Save(m) /\ UNCHANGED <<held, leaked, loops, phase, causes>>
      /\ Then(CallWork(args) \o <<"discard", "stmts">>)
  BY DEF StartProc, Stmt
<1>2. todo # <<>> /\ Head(todo) = "stmts" /\ Fits(todo, N)
  BY <1>1, AtIs
<1>3. CASE ~args
  <2> DEFINE w == <<"call", "discard", "stmts">>
  <2>1. w \in Seq(Work) /\ (\A i \in DOMAIN w : w[i] # "test")
        /\ CallWork(args) \o <<"discard", "stmts">> = w
    BY <1>3, ProcWork DEF Work, Type, CallWork
  <2>2. Fits(w \o Tail(todo), N)
    BY <1>2, ProcFits
  <2> HIDE DEF w
  <2> QED
    BY <1>1, <2>1, <2>2, Begun
<1>4. CASE args
  <2> DEFINE w == <<"int", "arg", "call_with_args", "discard", "stmts">>
  <2>1. w \in Seq(Work) /\ (\A i \in DOMAIN w : w[i] # "test")
        /\ CallWork(args) \o <<"discard", "stmts">> = w
    BY <1>4, ProcWork DEF Work, Type, CallWork
  <2>2. Fits(w \o Tail(todo), N)
    BY <1>2, ProcArgsFits
  <2> HIDE DEF w
  <2> QED
    BY <1>1, <2>1, <2>2, Begun
<1> QED
  BY <1>3, <1>4

LEMMA StartWriteBooks == ASSUME Bookkeeping, StartWrite  PROVE Bookkeeping'
<1>1. PICK arg \in {<<>>, <<"int", "write">>, <<"bool", "write">>},
           end \in {<<"written">>, <<"newline", "written">>} : Then(arg \o end \o <<"stmts">>)
  BY DEF StartWrite
<1>2. At("stmts") /\ UNCHANGED <<m, held, leaked, loops, phase, causes>>
  BY DEF StartWrite, Stmt
<1>3. todo # <<>> /\ Head(todo) = "stmts" /\ Fits(todo, N)
  BY <1>2, AtIs
<1>4. CASE arg = <<>> /\ end = <<"written">>
  <2> DEFINE w == <<"written", "stmts">>
  <2>1. w \in Seq(Work) /\ (\A i \in DOMAIN w : w[i] # "test") /\ arg \o end \o <<"stmts">> = w
    BY <1>4, WriteWork DEF Work, Type
  <2>2. Fits(w \o Tail(todo), N)
    BY <1>3, WriteFits
  <2> HIDE DEF w
  <2> QED
    BY <1>1, <1>2, <2>1, <2>2, Begun
<1>5. CASE arg = <<>> /\ end = <<"newline", "written">>
  <2> DEFINE w == <<"newline", "written", "stmts">>
  <2>1. w \in Seq(Work) /\ (\A i \in DOMAIN w : w[i] # "test") /\ arg \o end \o <<"stmts">> = w
    BY <1>5, WriteWork DEF Work, Type
  <2>2. Fits(w \o Tail(todo), N)
    BY <1>3, WritelnFits
  <2> HIDE DEF w
  <2> QED
    BY <1>1, <1>2, <2>1, <2>2, Begun
<1>6. ASSUME NEW t \in Type, arg = <<t, "write">>, end = <<"written">>  PROVE Bookkeeping'
  <2> DEFINE w == <<t, "write", "written", "stmts">>
  <2>1. w \in Seq(Work) /\ (\A i \in DOMAIN w : w[i] # "test") /\ arg \o end \o <<"stmts">> = w
    BY <1>6, WriteWork DEF Work, Type
  <2>2. Fits(w \o Tail(todo), N)
    BY <1>3, WriteValueFits
  <2> HIDE DEF w
  <2> QED
    BY <1>1, <1>2, <2>1, <2>2, Begun
<1>7. ASSUME NEW t \in Type, arg = <<t, "write">>, end = <<"newline", "written">>
      PROVE  Bookkeeping'
  <2> DEFINE w == <<t, "write", "newline", "written", "stmts">>
  <2>1. w \in Seq(Work) /\ (\A i \in DOMAIN w : w[i] # "test") /\ arg \o end \o <<"stmts">> = w
    BY <1>7, WriteWork DEF Work, Type
  <2>2. Fits(w \o Tail(todo), N)
    BY <1>3, WritelnValueFits
  <2> HIDE DEF w
  <2> QED
    BY <1>1, <1>2, <2>1, <2>2, Begun
<1>8. arg = <<>> \/ \E t \in Type : arg = <<t, "write">>
  BY <1>1 DEF Type
<1> QED
  BY <1>1, <1>4, <1>5, <1>6, <1>7, <1>8

(* An operand consumed by a jump, a write or a statement. *)
LEMMA DiscardBooks ==
  ASSUME Bookkeeping, NEW task \in {"cond", "discard", "write"}, At(task),
         m' = Drop(Takeback(m, R), N), held' = Shorter(1), Then(<<>>),
         UNCHANGED <<leaked, loops, phase, causes>>
  PROVE  Bookkeeping'
<1>1. Change(task) = -1 /\ Needs(task) = 1
  BY DEF Change, Needs, Operand, Type
<1>2. N \in Nat /\ N >= 1 /\ Like(N, m, m) /\ Tail(todo) \in Seq(Work) /\ phase = "ok"
  BY <1>1, AtIs
<1>3. m' = Forget(Takeback(m, R), N..N) /\ todo' = Tail(todo) /\ N \in Nat \ {0}
  BY <1>2, ThenNothing DEF Drop
<1> QED
  BY <1>1, <1>2, <1>3, OneGone

LEMMA ArgumentBooks == ASSUME Bookkeeping, Argument  PROVE Bookkeeping'
<1>1. At("arg") /\ Change("arg") = -1 /\ Needs("arg") = 1
  BY DEF Argument, Change, Needs, Operand, Type
<1>2. /\ Book(m, held, leaked, loops, todo, causes) /\ phase = "ok" /\ Like(N, m, m)
      /\ N \in Nat /\ N >= 1 /\ held \in Seq(Handle) /\ Tail(todo) \in Seq(Work)
      /\ todo # <<>> /\ Head(todo) = "arg" /\ Fits(todo, N)
      /\ Fits(Tail(todo), N + Change("arg")) /\ Tests(Tail(todo), loops)
  BY <1>1, AtIs
<1>3. /\ m' = Forget(Push(m, 0), N..N) /\ leaked' = Append(leaked, R) /\ held' = Front(held)
      /\ UNCHANGED <<loops, phase>> /\ causes \subseteq causes'
  BY DEF Argument, Drop, Shorter, Front, N
<1>4. Fits(todo', N - 1) /\ Tests(todo', loops)
  <2>1. N + Change("arg") = N - 1
    BY <1>1, <1>2
  <2>2. CASE Then(<<>>)
    <3>1. todo' = Tail(todo)
      BY <1>2, <2>2, ThenNothing
    <3> QED
      BY <1>2, <2>1, <3>1
  <2>3. CASE Then(<<"int", "arg">>)
    <3> DEFINE w == <<"int", "arg">>
    <3>1. w \in Seq(Work) /\ \A i \in DOMAIN w : w[i] \notin {"stmts", "test"}
      BY DEF Work, Type
    <3>2. Fits(w \o Tail(todo), N - 1)
      BY <1>2, MoreFits
    <3>3. todo' = w \o Tail(todo)
      BY <2>3 DEF Then
    <3> HIDE DEF w
    <3>4. Tests(w \o Tail(todo), loops)
      BY <1>2, <3>1, TestsPut
    <3> QED
      BY <3>2, <3>3, <3>4
  <2> QED
    BY <2>2, <2>3 DEF Argument
<1>5. held # <<>> /\ N = Len(held) /\ R = held[Len(held)] /\ N \in 1..(N + 1)
  BY <1>2 DEF N, R
<1>6. Like(N, m, Push(m, 0))
  <2>1. 0 \in Tokens(N) /\ RCX \in Reg
    BY <1>2, RcxIsReg DEF Tokens
  <2> QED
    BY <1>2, <2>1, LikeSteps
<1>7. m' \in Machine(Tokens(N - 1)) /\ Keeps(m, m')
  <2> DEFINE s == Push(m, 0)
  <2>1. s \in Machine(Tokens(N)) /\ Keeps(m, s)
    BY <1>6 DEF Like
  <2>2. m' = Forget(s, N..N)
    BY <1>3
  <2> HIDE DEF s
  <2>3. m' \in Machine(Tokens(N - 1)) /\ Keeps(s, m')
    BY <1>2, <1>5, <2>1, <2>2, DropType
  <2> QED
    BY <2>1, <2>3 DEF Keeps
<1>8. Book(m', Front(held), Append(leaked, held[Len(held)]), loops, todo', causes')
  <2> DEFINE t == todo'
             d == causes'
  <2>1. m' \in Machine(Tokens(Len(held) - 1)) /\ Fits(t, Len(held) - 1) /\ Tests(t, loops)
    BY <1>4, <1>5, <1>7
  <2>2. causes \subseteq d
    BY <1>3
  <2> HIDE DEF t, d
  <2>3. Book(m', Front(held), Append(leaked, held[Len(held)]), loops, t, d)
    BY <1>2, <1>5, <1>7, <2>1, <2>2, BookMove
  <2> QED
    BY <2>3 DEF t, d
<1> QED
  BY <1>2, <1>3, <1>5, <1>8 DEF Bookkeeping

LEMMA VariableBooks == ASSUME Bookkeeping, Variable  PROVE Bookkeeping'
<1>1. At("variable") /\ Change("variable") = 0
  BY DEF Variable, Change, Operand, Type
<1>2. /\ Book(m, held, leaked, loops, todo, causes) /\ phase = "ok"
      /\ Tail(todo) \in Seq(Work) /\ Fits(Tail(todo), N + Change("variable"))
      /\ Tests(Tail(todo), loops) /\ m \in Machine(Tokens(N)) /\ N \in Nat
  BY <1>1, AtIs
<1> DEFINE x == GimmeReg(m)
<1>3. /\ m' = Gimme(m, 0) /\ leaked' = Append(leaked, x) /\ Then(<<>>)
      /\ held' = held /\ loops' = loops /\ phase' = phase /\ causes \subseteq causes'
  BY DEF Variable
<1>4. todo' = Tail(todo) /\ N + Change("variable") = N
  BY <1>1, <1>2, <1>3, ThenNothing
<1>5. /\ Gimme(m, 0) \in Machine(Tokens(N)) /\ Takes(m, Gimme(m, 0), x)
      /\ x \in Handle /\ (~x.spilled => x.which \notin m.used)
  <2>1. 0 \in Tokens(N)
    BY <1>2 DEF Tokens
  <2> QED
    BY <1>2, <2>1, GimmeTakes
<1> HIDE DEF x
<1>6. Book(m', held, Append(leaked, x), loops, Tail(todo), causes')
  <2>1. m' \in Machine(Tokens(Len(held))) /\ Fits(Tail(todo), Len(held)) /\ Takes(m, m', x)
    BY <1>2, <1>3, <1>4, <1>5 DEF N
  <2> QED
    BY <1>2, <1>3, <1>5, <2>1, BookLeak
<1> QED
  BY <1>2, <1>3, <1>4, <1>6 DEF Bookkeeping

LEMMA TestBooks == ASSUME Bookkeeping, Test  PROVE Bookkeeping'
<1>1. At("test") /\ Change("test") = 0
  BY DEF Test, Change, Operand, Type
<1>2. /\ Book(m, held, leaked, loops, todo, causes) /\ phase = "ok" /\ Like(N, m, m)
      /\ Tail(todo) \in Seq(Work) /\ Fits(Tail(todo), N + Change("test"))
      /\ "test" \notin In(Tail(todo)) /\ loops < MaxLoops /\ loops \in 0..MaxLoops /\ N \in Nat
  BY <1>1, AtIs
<1>3. /\ m' = Push(m, 0) /\ loops' = loops + 1 /\ Then(<<>>)
      /\ UNCHANGED <<held, leaked, phase, causes>>
  BY DEF Test
<1>4. todo' = Tail(todo) /\ N + Change("test") = N
  BY <1>1, <1>2, <1>3, ThenNothing
<1>5. Like(N, m, m')
  <2>1. 0 \in Tokens(N) /\ RCX \in Reg
    BY <1>2, RcxIsReg DEF Tokens
  <2> QED
    BY <1>2, <1>3, <2>1, LikeSteps
<1>6. Tests(Tail(todo), loops + 1)
  BY <1>2 DEF Tests, In
<1>7. loops + 1 \in 0..MaxLoops
  <2>1. MaxLoops \in Nat
    BY CodegenAssumption
  <2> QED
    BY <1>2, <2>1
<1>8. Book(m', held, leaked, loops + 1, Tail(todo), causes)
  <2>1. m' \in Machine(Tokens(Len(held))) /\ Keeps(m, m') /\ Fits(Tail(todo), Len(held))
    BY <1>2, <1>4, <1>5 DEF Like, N
  <2> QED
    BY <1>2, <1>6, <1>7, <2>1, BookSame
<1> QED
  BY <1>2, <1>3, <1>4, <1>8 DEF Bookkeeping

LEMMA NewlineBooks == ASSUME Bookkeeping, Newline  PROVE Bookkeeping'
<1>1. At("newline") /\ Change("newline") = 0
  BY DEF Newline, Change, Operand, Type
<1>2. /\ Book(m, held, leaked, loops, todo, causes) /\ phase = "ok" /\ Like(N, m, m)
      /\ Tail(todo) \in Seq(Work) /\ Fits(Tail(todo), N + Change("newline"))
      /\ Tests(Tail(todo), loops) /\ loops \in 0..MaxLoops /\ N \in Nat
  BY <1>1, AtIs
<1>3. /\ m' = Set(Set(m, RCX, 0), R11, 0) /\ Then(<<>>)
      /\ held' = held /\ leaked' = leaked /\ loops' = loops /\ phase' = phase
      /\ causes \subseteq causes'
  BY DEF Newline
<1>4. todo' = Tail(todo) /\ N + Change("newline") = N
  BY <1>1, <1>2, <1>3, ThenNothing
<1>5. Like(N, m, m')
  <2>1. 0 \in Tokens(N) /\ RCX \in Reg /\ R11 \in Reg
    BY <1>2, RcxIsReg DEF Tokens
  <2>2. Like(N, m, Set(m, RCX, 0))
    BY <1>2, <2>1, LikeSteps
  <2> QED
    BY <1>2, <1>3, <2>1, <2>2, LikeSteps
<1>6. Book(m', held, leaked, loops, Tail(todo), causes')
  <2>1. m' \in Machine(Tokens(Len(held))) /\ Keeps(m, m') /\ Fits(Tail(todo), Len(held))
    BY <1>2, <1>4, <1>5 DEF Like, N
  <2> QED
    BY <1>2, <1>3, <2>1, BookSame
<1> QED
  BY <1>2, <1>3, <1>4, <1>6 DEF Bookkeeping

LEMMA EndStmtsBooks == ASSUME Bookkeeping, EndStmts  PROVE Bookkeeping'
<1>1. At("stmts") /\ Change("stmts") = 0
  BY DEF EndStmts, Change, Operand, Type
<1>2. /\ Book(m, held, leaked, loops, todo, causes) /\ phase = "ok" /\ Like(N, m, m)
      /\ Tail(todo) \in Seq(Work) /\ Fits(Tail(todo), N + Change("stmts"))
      /\ Tests(Tail(todo), loops) /\ loops \in 0..MaxLoops /\ N \in Nat
  BY <1>1, AtIs
<1>3. UNCHANGED <<m, held, leaked, loops, phase, causes>> /\ Then(<<>>)
  BY DEF EndStmts
<1>4. todo' = Tail(todo) /\ N + Change("stmts") = N
  BY <1>1, <1>2, <1>3, ThenNothing
<1>5. Book(m, held, leaked, loops, Tail(todo), causes)
  <2>1. m \in Machine(Tokens(Len(held))) /\ Keeps(m, m) /\ Fits(Tail(todo), Len(held))
    BY <1>2, <1>4 DEF Like, N
  <2> QED
    BY <1>2, <2>1, BookSame
<1> QED
  BY <1>2, <1>3, <1>4, <1>5 DEF Bookkeeping

LEMMA StartForBooks == ASSUME Bookkeeping, StartFor  PROVE Bookkeeping'
<1> DEFINE w == <<"int", "int", "variable", "test", "stmts", "again", "stmts">>
<1>1. At("stmts") /\ loops < MaxLoops /\ Then(w)
      /\ UNCHANGED <<m, held, leaked, loops, phase, causes>>
  BY DEF StartFor, Stmt
<1>2. /\ Book(m, held, leaked, loops, todo, causes) /\ phase = "ok" /\ Like(N, m, m)
      /\ todo # <<>> /\ Head(todo) = "stmts" /\ Fits(todo, N)
      /\ Tail(todo) \in Seq(Work) /\ "test" \notin In(Tail(todo)) /\ loops \in 0..MaxLoops
  BY <1>1, AtIs
<1>3. Fits(w \o Tail(todo), N)
  BY <1>2, ForFits
<1>4. Tests(w \o Tail(todo), loops)
  BY <1>1, <1>2, TestsFor
<1>5. todo' = w \o Tail(todo)
  BY <1>1 DEF Then
<1> HIDE DEF w
<1>6. Book(m, held, leaked, loops, todo', causes)
  <2>1. m \in Machine(Tokens(Len(held))) /\ Keeps(m, m) /\ Fits(todo', Len(held))
    BY <1>2, <1>3, <1>5 DEF Like, N
  <2> QED
    BY <1>2, <1>4, <1>5, <2>1, BookSame
<1> QED
  BY <1>1, <1>2, <1>6 DEF Bookkeeping

(* Two operands are given back, the newer one first. *)
LEMMA BookGiveTwo ==
  ASSUME NEW mm, NEW h, NEW l, NEW k, NEW s, NEW c, Book(mm, h, l, k, s, c), Len(h) >= 2,
         NEW mid, Gives(mm, mid, h[Len(h)]),
         NEW mn \in Machine(Tokens(Len(h) - 2)), Gives(mid, mn, h[Len(h) - 1]),
         NEW t, Fits(t, Len(h) - 2), Tests(t, k), NEW d, c \subseteq d
  PROVE  Book(mn, Front(Front(h)), l, k, t, d)
<1> DEFINE f == Front(h)
<1>1. h \in Seq(Handle) /\ l \in Seq(Handle) /\ mm.overflow = 6 + Spills(h) + Spills(l) /\ h # <<>>
  BY DEF Book
<1>2. /\ f \in Seq(Handle) /\ Len(f) = Len(h) - 1 /\ Len(h) \in Nat
      /\ \A i \in 1..(Len(h) - 1) : f[i] = h[i]
  BY <1>1, FrontIs
<1> HIDE DEF f
<1>3. f # <<>> /\ Len(f) - 1 = Len(h) - 2
  BY <1>2
<1>4. f[Len(f)] = h[Len(h) - 1]
  <2>1. Len(h) - 1 \in 1..(Len(h) - 1)
    BY <1>2
  <2> QED
    BY <1>2, <2>1
<1>5. Front(f) \in Seq(Handle) /\ Len(Front(f)) = Len(h) - 2
  BY <1>2, <1>3, FrontIs
<1>6. /\ Spills(h) = Spills(f) + Spill(h[Len(h)]) /\ Spills(f) \in Nat
      /\ Spills(f) = Spills(Front(f)) + Spill(h[Len(h) - 1]) /\ Spills(Front(f)) \in Nat
      /\ Spills(l) \in Nat
  <2>1. Spills(f) \in Nat /\ Spills(h) = Spills(f) + Spill(h[Len(h)])
    BY <1>1, SpillsFront DEF f
  <2>2. Spills(Front(f)) \in Nat /\ Spills(f) = Spills(Front(f)) + Spill(f[Len(f)])
    BY <1>2, <1>3, SpillsFront
  <2> QED
    BY <1>1, <1>4, <2>1, <2>2, SpillsNat
<1>7. mn.overflow = 6 + Spills(Front(f)) + Spills(l)
  <2>1. Spill(h[Len(h)]) \in {0, 1} /\ Spill(h[Len(h) - 1]) \in {0, 1}
    BY DEF Spill
  <2>2. /\ mid.overflow = mm.overflow - Spill(h[Len(h)])
        /\ mn.overflow = mid.overflow - Spill(h[Len(h) - 1])
    BY DEF Gives
  <2>3. mid.overflow = 6 + Spills(f) + Spills(l)
    BY <1>1, <1>6, <2>1, <2>2
  <2> QED
    BY <1>6, <2>1, <2>2, <2>3
<1>8. ASSUME "write_in_a_loop" \notin d  PROVE Owned(mn.used, Front(f), l)
  <2>1. Owned(mm.used, h, l)
    BY <1>8 DEF Book
  <2>2. Owned(mid.used, f, l)
    BY <1>1, <2>1, OwnGive DEF Gives, f
  <2>3. Owned(UsedWithout(mid.used, f[Len(f)]), Front(f), l)
    BY <1>1, <1>2, <1>3, <2>2, OwnGive
  <2> QED
    BY <1>4, <2>3 DEF Gives
<1>9. Book(mn, Front(f), l, k, t, d)
  BY <1>1, <1>5, <1>7, <1>8 DEF Book
<1> QED
  BY <1>9 DEF f

LEMMA TwoGone ==
  ASSUME Bookkeeping, NEW task \in {"assign", "again"}, At(task), NEW mid,
         Gives(m, mid, R), Gives(mid, m', L), m' \in Machine(Tokens(N - 2)),
         held' = Shorter(2), Then(<<>>), UNCHANGED <<leaked, loops, phase, causes>>
  PROVE  Bookkeeping'
<1>1. Change(task) = -2 /\ Needs(task) = 2
  BY DEF Change, Needs, Operand, Type
<1>2. /\ Book(m, held, leaked, loops, todo, causes) /\ phase = "ok" /\ held \in Seq(Handle)
      /\ N \in Nat /\ N >= 2 /\ Tail(todo) \in Seq(Work)
      /\ Fits(Tail(todo), N + Change(task)) /\ Tests(Tail(todo), loops)
  BY <1>1, AtIs
<1>3. todo' = Tail(todo) /\ N + Change(task) = N - 2
  BY <1>1, <1>2, ThenNothing
<1>4. held' = Front(Front(held))
  <2> DEFINE f == Front(held)
             g == Front(f)
             e == Shorter(2)
  <2>1. held # <<>> /\ Len(held) = N
    BY <1>2 DEF N
  <2>2. f \in Seq(Handle) /\ Len(f) = N - 1 /\ \A i \in 1..(N - 1) : f[i] = held[i]
    BY <1>2, <2>1, FrontIs
  <2> HIDE DEF f
  <2>3. f # <<>>
    BY <1>2, <2>2
  <2>4. g \in Seq(Handle) /\ Len(g) = Len(f) - 1 /\ \A i \in 1..(Len(f) - 1) : g[i] = f[i]
    BY <2>2, <2>3, FrontIs
  <2>5. e \in Seq(Handle) /\ Len(e) = N - 2 /\ \A i \in 1..(N - 2) : e[i] = held[i]
    <3>1. 1 \in Int /\ N - 2 \in Int /\ \A i \in 1..(N - 2) : held[i] \in Handle
      BY <1>2, <2>1
    <3>2. /\ e \in Seq(Handle) /\ Len(e) = IF 1 <= N - 2 THEN (N - 2) - 1 + 1 ELSE 0
          /\ \A i \in 1..((N - 2) - 1 + 1) : e[i] = held[1 + i - 1]
      BY <3>1, SubSeqProperties DEF Shorter
    <3> HIDE DEF e
    <3>3. Len(e) = N - 2
      BY <1>2, <3>2
    <3>4. ASSUME NEW i \in 1..(N - 2)  PROVE e[i] = held[i]
      <4>1. i \in 1..((N - 2) - 1 + 1) /\ 1 + i - 1 = i
        BY <1>2
      <4> QED
        BY <3>2, <4>1
    <3> QED
      BY <3>2, <3>3, <3>4
  <2> HIDE DEF e, g
  <2>6. \A i \in 1..Len(e) : e[i] = g[i]
    BY <1>2, <2>2, <2>4, <2>5
  <2>7. e = g
    BY <1>2, <2>2, <2>4, <2>5, <2>6, SeqEqual
  <2> QED
    BY <2>7 DEF e, g, f
<1>5. Book(m', Front(Front(held)), leaked, loops, Tail(todo), causes)
  <2>1. /\ Len(held) >= 2 /\ m' \in Machine(Tokens(Len(held) - 2)) /\ Gives(m, mid, held[Len(held)])
        /\ Gives(mid, m', held[Len(held) - 1]) /\ Fits(Tail(todo), Len(held) - 2)
    BY <1>2, <1>3 DEF N, L, R
  <2> QED
    BY <1>2, <2>1, BookGiveTwo
<1> QED
  BY <1>2, <1>3, <1>4, <1>5 DEF Bookkeeping

LEMMA AssignBooks == ASSUME Bookkeeping, Assign  PROVE Bookkeeping'
<1>1. At("assign") /\ Needs("assign") = 2
  BY DEF Assign, Needs
<1>2. /\ held \in Seq(Handle) /\ N \in Nat /\ N >= 2 /\ m \in Machine(Tokens(N)) /\ m.overflow >= 6
  BY <1>1, AtIs
<1>3. L \in Handle /\ R \in Handle /\ 0 \in Tokens(N) /\ N - 1 \in 1..(N + 1)
  BY <1>2, TwoAlive DEF Tokens
<1> DEFINE a == Takeback(m, R)
           b == Takeback(a, L)
<1>4. a \in Machine(Tokens(N)) /\ Gives(m, a, R)
  <2>1. m.overflow > 0
    BY <1>2 DEF Machine
  <2> QED
    BY <1>2, <1>3, <2>1, TakebackGives
<1> HIDE DEF a
<1>5. b \in Machine(Tokens(N)) /\ Gives(a, b, L)
  <2>1. a.overflow > 0
    BY <1>2, <1>4 DEF Gives, Spill, Machine
  <2> QED
    BY <1>3, <1>4, <2>1, TakebackGives
<1>6. /\ m' = Forget(b, (N - 1)..N) /\ held' = Shorter(2) /\ Then(<<>>)
      /\ UNCHANGED <<leaked, loops, phase, causes>>
  BY DEF Assign, Drop, a
<1> HIDE DEF b
<1>7. m' \in Machine(Tokens(N - 2)) /\ Keeps(b, m')
  <2>1. (N - 1) - 1 = N - 2
    BY <1>2
  <2> QED
    BY <1>2, <1>3, <1>5, <1>6, <2>1, DropType
<1>8. Gives(a, m', L)
  BY <1>5, <1>7 DEF Gives, Keeps
<1> QED
  BY <1>1, <1>4, <1>6, <1>7, <1>8, TwoGone

LEMMA AgainBooks == ASSUME Bookkeeping, Again  PROVE Bookkeeping'
<1>1. At("again") /\ Needs("again") = 2
  BY DEF Again, Needs
<1>2. /\ held \in Seq(Handle) /\ N \in Nat /\ N >= 2 /\ m \in Machine(Tokens(N)) /\ m.overflow >= 6
  BY <1>1, AtIs
<1>3. L \in Handle /\ R \in Handle /\ 0 \in Tokens(N) /\ 0 \in Tokens(N - 2) /\ N - 1 \in 1..(N + 1)
  BY <1>2, TwoAlive DEF Tokens
<1> DEFINE z == [m EXCEPT !.stack = IF @ = <<>> THEN @ ELSE [@ EXCEPT ![Len(@)] = 0]]
           a == Forget(z, (N - 1)..N)
           b == Takeback(a, R)
<1>4. z \in Machine(Tokens(N)) /\ Keeps(m, z)
  <2> DEFINE st == m.stack
             w == IF st = <<>> THEN st ELSE [st EXCEPT ![Len(st)] = 0]
  <2>1. st \in Seq(Tokens(N))
    BY <1>2 DEF Machine
  <2> HIDE DEF st
  <2>2. w \in Seq(Tokens(N))
    BY <1>3, <2>1
  <2>3. z = [used |-> m.used, overflow |-> m.overflow, regs |-> m.regs, stack |-> w]
    <3>1. z = [m EXCEPT !.stack = w]
      BY DEF st
    <3> HIDE DEF w, z
    <3> QED
      BY <1>2, <3>1 DEF Machine
  <2> HIDE DEF w
  <2> QED
    BY <1>2, <2>2, <2>3 DEF Machine, Keeps
<1>5. /\ m' = Takeback(b, L) /\ held' = Shorter(2) /\ Then(<<>>)
      /\ UNCHANGED <<leaked, loops, phase, causes>>
  BY DEF Again, Drop
<1> HIDE DEF z
<1>6. a \in Machine(Tokens(N - 2)) /\ Keeps(z, a)
  <2>1. (N - 1) - 1 = N - 2
    BY <1>2
  <2> QED
    BY <1>2, <1>3, <1>4, <2>1, DropType
<1> HIDE DEF a
<1>7. b \in Machine(Tokens(N - 2)) /\ Gives(a, b, R)
  <2>1. a.overflow > 0
    BY <1>2, <1>4, <1>6 DEF Keeps, Machine
  <2> QED
    BY <1>3, <1>6, <2>1, TakebackGives
<1> HIDE DEF b
<1>8. m' \in Machine(Tokens(N - 2)) /\ Gives(b, m', L)
  <2>1. b.overflow > 0
    BY <1>2, <1>4, <1>6, <1>7 DEF Keeps, Gives, Spill, Machine
  <2> QED
    BY <1>3, <1>5, <1>7, <2>1, TakebackGives
<1>9. Gives(m, b, R)
  BY <1>4, <1>6, <1>7 DEF Gives, Keeps
<1> QED
  BY <1>1, <1>5, <1>8, <1>9, TwoGone

LEMMA StackType ==
  ASSUME NEW T, NEW s \in Machine(T), NEW w \in Seq(T)
  PROVE  /\ [s EXCEPT !.stack = w] \in Machine(T) /\ Keeps(s, [s EXCEPT !.stack = w])
         /\ [s EXCEPT !.stack = w].regs = s.regs /\ [s EXCEPT !.stack = w].stack = w
BY DEF Machine, Keeps

LEMMA RegsType ==
  ASSUME NEW T, NEW s \in Machine(T), NEW f \in [Reg -> T]
  PROVE  /\ [s EXCEPT !.regs = f] \in Machine(T) /\ Keeps(s, [s EXCEPT !.regs = f])
         /\ [s EXCEPT !.regs = f].regs = f /\ [s EXCEPT !.regs = f].stack = s.stack
BY DEF Machine, Keeps

(* A word over the top of the stack. *)
LEMMA TopType ==
  ASSUME NEW T, NEW s \in Seq(T), NEW x \in T
  PROVE  /\ [s EXCEPT ![Len(s)] = x] \in Seq(T) /\ Len([s EXCEPT ![Len(s)] = x]) = Len(s)
         /\ s # <<>> => [s EXCEPT ![Len(s)] = x][Len(s)] = x
         /\ \A i \in 1..(Len(s) - 1) : [s EXCEPT ![Len(s)] = x][i] = s[i]
<1>1. Len(s) \in Nat /\ DOMAIN s = 1..Len(s) /\ s \in [1..Len(s) -> T]
  OBVIOUS
<1> DEFINE w == [s EXCEPT ![Len(s)] = x]
<1>2. w \in [1..Len(s) -> T]
  BY <1>1
<1>3. w \in Seq(T) /\ Len(w) = Len(s)
  <2> HIDE DEF w
  <2> QED
    BY <1>1, <1>2
<1>4. s # <<>> => w[Len(s)] = x
  <2>1. s # <<>> => Len(s) \in 1..Len(s)
    BY <1>1
  <2> QED
    BY <1>1, <2>1
<1>5. \A i \in 1..(Len(s) - 1) : w[i] = s[i]
  <2>1. \A n \in Nat : \A i \in 1..(n - 1) : i \in 1..n /\ i # n
    OBVIOUS
  <2>2. \A i \in 1..(Len(s) - 1) : i \in 1..Len(s) /\ i # Len(s)
    BY <1>1, <2>1
  <2> QED
    BY <1>1, <2>2
<1> HIDE DEF w
<1> QED
  BY <1>3, <1>4, <1>5 DEF w

LEMMA ReturnBooks == ASSUME Bookkeeping, NEW args \in BOOLEAN, Return(args)  PROVE Bookkeeping'
<1> DEFINE task == IF args THEN "call_with_args" ELSE "call"
           h == GimmeReg(m)
           g == Gimme(m, 0)
           framed == Push(g, RBP)
           slotted == IF args THEN framed ELSE Push(framed, 0)
           result == [slotted EXCEPT !.stack[Len(slotted.stack)] = N + 1]
           back(k) == [result EXCEPT !.regs = [r \in Reg |-> IF r < k THEN 0 ELSE @[r]]]
           popped(k) == Pop(back(k), Name(h))
           left(k) == [popped(k) EXCEPT !.stack = SubSeq(@, 1, Len(@) - 1)]
<1>1. /\ At(task) /\ held' = Append(held, h) /\ Then(<<>>) /\ UNCHANGED <<leaked, loops>>
      /\ causes \subseteq causes' /\ phase' \in {"ok", "frame"}
      /\ \E k \in Clobbers : m' = IF popped(k).stack = <<>> THEN popped(k) ELSE RestoreExcept(left(k), h)
  BY DEF Return
<1>2. PICK k \in Clobbers : m' = IF popped(k).stack = <<>> THEN popped(k) ELSE RestoreExcept(left(k), h)
  BY <1>1
<1>3. Change(task) = 1 /\ k \in Int
  BY CodegenAssumption DEF Change, Operand, Type
<1> HIDE DEF task
<1>4. /\ Book(m, held, leaked, loops, todo, causes) /\ phase = "ok"
      /\ Tail(todo) \in Seq(Work) /\ Fits(Tail(todo), N + Change(task))
      /\ Tests(Tail(todo), loops) /\ m \in Machine(Tokens(N)) /\ N \in Nat
  BY <1>1, AtIs
<1>5. /\ 0 \in Tokens(N) /\ RBP \in Tokens(N) /\ 0 \in Tokens(N + 1) /\ N + 1 \in Tokens(N + 1)
      /\ Tokens(N) \subseteq Tokens(N + 1)
  BY <1>4 DEF Tokens, RBP
<1>6. /\ g \in Machine(Tokens(N)) /\ Takes(m, g, h)
      /\ h \in Handle /\ (~h.spilled => h.which \notin m.used) /\ Name(h) \in Reg
  BY <1>4, <1>5, GimmeTakes, NameIsReg
<1> HIDE DEF g, h
<1>7. Like(N, g, framed)
  <2>1. Like(N, g, g) /\ RCX \in Reg
    BY <1>6, RcxIsReg DEF Like, Keeps
  <2> QED
    BY <1>4, <1>5, <2>1, LikeSteps
<1> HIDE DEF framed
<1>8. Like(N, g, slotted)
  <2>1. Like(N, g, Push(framed, 0))
    <3>1. RCX \in Reg
      BY RcxIsReg
    <3> QED
      BY <1>4, <1>5, <1>7, <3>1, LikeSteps
  <2> QED
    BY <1>7, <2>1
<1> HIDE DEF slotted
<1>9. Like(N + 1, g, result)
  <2> DEFINE st == slotted.stack
             w == [st EXCEPT ![Len(st)] = N + 1]
  <2>1. slotted \in Machine(Tokens(N + 1)) /\ Keeps(g, slotted)
    BY <1>5, <1>8, MachineMono DEF Like
  <2>2. st \in Seq(Tokens(N + 1)) /\ slotted.regs \in [Reg -> Tokens(N + 1)]
    BY <2>1 DEF Machine
  <2>3. result = [slotted EXCEPT !.stack = w]
    OBVIOUS
  <2> HIDE DEF st, result
  <2>4. w \in Seq(Tokens(N + 1))
    BY <1>5, <2>2, TopType
  <2> HIDE DEF w
  <2>5. result \in Machine(Tokens(N + 1)) /\ Keeps(slotted, result)
    BY <2>1, <2>2, <2>3, <2>4, StackType
  <2> QED
    BY <2>1, <2>5 DEF Like, Keeps
<1> HIDE DEF result
<1>10. Like(N + 1, g, back(k))
  <2> DEFINE f == [r \in Reg |-> IF r < k THEN 0 ELSE result.regs[r]]
  <2>1. result \in Machine(Tokens(N + 1)) /\ Keeps(g, result)
    BY <1>9 DEF Like
  <2>2. f \in [Reg -> Tokens(N + 1)] /\ result.stack \in Seq(Tokens(N + 1))
    BY <1>5, <2>1 DEF Machine
  <2>3. back(k) = [result EXCEPT !.regs = f]
    OBVIOUS
  <2> HIDE DEF f, back
  <2>4. back(k) \in Machine(Tokens(N + 1)) /\ Keeps(result, back(k))
    BY <2>1, <2>2, <2>3, RegsType
  <2> QED
    BY <2>1, <2>4 DEF Like, Keeps
<1> HIDE DEF back
<1>11. Like(N + 1, g, popped(k))
  BY <1>4, <1>5, <1>6, <1>10, LikeSteps
<1> HIDE DEF popped
<1>12. popped(k).stack # <<>> => Like(N + 1, g, left(k))
  <2> HAVE popped(k).stack # <<>>
  <2> DEFINE st == popped(k).stack
             w == SubSeq(st, 1, Len(st) - 1)
  <2>1. popped(k) \in Machine(Tokens(N + 1)) /\ Keeps(g, popped(k))
    BY <1>11 DEF Like
  <2>2. st \in Seq(Tokens(N + 1)) /\ popped(k).regs \in [Reg -> Tokens(N + 1)] /\ st # <<>>
    BY <2>1 DEF Machine
  <2>3. left(k) = [popped(k) EXCEPT !.stack = w]
    OBVIOUS
  <2> HIDE DEF st, left
  <2>4. w \in Seq(Tokens(N + 1))
    BY <2>2, FrontIs DEF Front
  <2> HIDE DEF w
  <2>5. left(k) \in Machine(Tokens(N + 1)) /\ Keeps(popped(k), left(k))
    BY <2>1, <2>2, <2>3, <2>4, StackType
  <2> QED
    BY <2>1, <2>5 DEF Like, Keeps
<1> HIDE DEF left
<1>13. m' \in Machine(Tokens(N + 1)) /\ Keeps(g, m')
  <2>1. CASE popped(k).stack = <<>>
    BY <1>2, <1>11, <2>1 DEF Like
  <2>2. CASE popped(k).stack # <<>>
    <3>1. left(k) \in Machine(Tokens(N + 1)) /\ Keeps(g, left(k)) /\ m' = RestoreExcept(left(k), h)
      BY <1>2, <1>12, <2>2 DEF Like
    <3> QED
      BY <1>5, <3>1, RestoreExceptType DEF Keeps
  <2> QED
    BY <2>1, <2>2
<1>14. Takes(m, m', h)
  BY <1>6, <1>13 DEF Takes, Keeps
<1>15. todo' = Tail(todo)
  BY <1>1, <1>4, ThenNothing
<1>16. Book(m', Append(held, h), leaked, loops, Tail(todo), causes')
  <2>1. m' \in Machine(Tokens(Len(held) + 1)) /\ Fits(Tail(todo), Len(held) + 1)
    BY <1>3, <1>4, <1>13 DEF N
  <2> QED
    BY <1>1, <1>4, <1>6, <1>14, <2>1, BookTake
<1> QED
  BY <1>1, <1>15, <1>16 DEF Bookkeeping

LEMMA WrittenBooks == ASSUME Bookkeeping, Written  PROVE Bookkeeping'
<1>1. At("written") /\ Change("written") = 0
  BY DEF Written, Change, Operand, Type
<1>2. /\ Book(m, held, leaked, loops, todo, causes) /\ phase = "ok"
      /\ Tail(todo) \in Seq(Work) /\ Fits(Tail(todo), N + Change("written"))
      /\ Tests(Tail(todo), loops) /\ loops \in 0..MaxLoops /\ N \in Nat
      /\ m \in Machine(Tokens(N)) /\ m.overflow >= 6
      /\ held \in Seq(Handle) /\ leaked \in Seq(Handle)
  BY <1>1, AtIs
<1>3. /\ m' = Takeback(m, Magic) /\ Then(<<>>) /\ UNCHANGED <<held, loops, phase>>
      /\ causes \subseteq causes'
      /\ "write_in_a_loop" \notin causes' => \A i \in DOMAIN held : held[i] # Magic
      /\ \/ \E i \in DOMAIN leaked : leaked[i] = Magic /\ leaked' = Without(leaked, i)
         \/ (\A i \in DOMAIN leaked : leaked[i] # Magic) /\ leaked' = leaked
  BY DEF Written
<1>4. todo' = Tail(todo) /\ N + Change("written") = N
  BY <1>1, <1>2, <1>3, ThenNothing
<1>5. Magic \in Handle /\ ~Magic.spilled /\ Magic.which = 0
  BY DEF Magic, Handle, Reg
<1>6. m' \in Machine(Tokens(N)) /\ m'.used = m.used \ {0} /\ m'.overflow = m.overflow
  <2>1. 0 \in Tokens(N) /\ m.overflow > 0
    BY <1>2 DEF Tokens, Machine
  <2>2. m' \in Machine(Tokens(N)) /\ Gives(m, m', Magic)
    BY <1>2, <1>3, <1>5, <2>1, TakebackGives
  <2>3. m.overflow \in Nat
    BY <1>2 DEF Machine
  <2> QED
    BY <1>5, <2>2, <2>3 DEF Gives, UsedWithout, Spill
<1>7. m.overflow = 6 + Spills(held) + Spills(leaked)
      /\ ("write_in_a_loop" \notin causes' => Owned(m.used, held, leaked))
  BY <1>2, <1>3 DEF Book
<1>8. /\ leaked' \in Seq(Handle) /\ Spills(leaked') = Spills(leaked)
      /\ "write_in_a_loop" \notin causes' => Owned(m.used \ {0}, held, leaked')
  <2>1. ASSUME NEW i \in DOMAIN leaked, leaked[i] = Magic, leaked' = Without(leaked, i)
        PROVE  /\ leaked' \in Seq(Handle) /\ Spills(leaked') = Spills(leaked)
               /\ "write_in_a_loop" \notin causes' => Owned(m.used \ {0}, held, leaked')
    <3>1. i \in 1..Len(leaked)
      BY <1>2
    <3>2. Without(leaked, i) \in Seq(Handle)
      <4>1. leaked \in Seq(Handle) /\ i \in 1..Len(leaked)
        BY <1>2, <3>1
      <4> QED
        BY ONLY <4>1, WithoutIs
    <3>3. Spills(Without(leaked, i)) = Spills(leaked)
      BY <1>2, <1>5, <2>1, <3>1, SpillsWithout
    <3>4. "write_in_a_loop" \notin causes' => Owned(m.used \ {0}, held, Without(leaked, i))
      BY <1>2, <1>3, <1>7, <2>1, OwnMagic
    <3> QED
      BY <2>1, <3>2, <3>3, <3>4
  <2>2. ASSUME \A i \in DOMAIN leaked : leaked[i] # Magic, leaked' = leaked
        PROVE  /\ leaked' \in Seq(Handle) /\ Spills(leaked') = Spills(leaked)
               /\ "write_in_a_loop" \notin causes' => Owned(m.used \ {0}, held, leaked')
    BY <1>2, <1>3, <1>7, <2>2, OwnMagic
  <2> QED
    BY <1>3, <2>1, <2>2
<1>9. Book(m', held, leaked', loops, Tail(todo), causes')
  <2>1. m' \in Machine(Tokens(Len(held))) /\ Fits(Tail(todo), Len(held))
    BY <1>2, <1>4, <1>6 DEF N
  <2> QED
    BY <1>2, <1>6, <1>7, <1>8, <2>1 DEF Book
<1> QED
  BY <1>2, <1>3, <1>4, <1>9 DEF Bookkeeping

-----------------------------------------------------------------------------
LEMMA InitBooks == Init => Bookkeeping
<1> SUFFICES ASSUME Init  PROVE Bookkeeping
  OBVIOUS
<1>1. /\ m = [used |-> {}, overflow |-> 6, regs |-> [r \in Reg |-> 0], stack |-> <<>>]
      /\ held = <<>> /\ leaked = <<>> /\ loops = 0 /\ todo = <<"stmts">>
      /\ phase = "ok" /\ causes = {}
  BY DEF Init
<1>2. Len(held) = 0 /\ DOMAIN held = {} /\ DOMAIN leaked = {} /\ held \in Seq(Handle)
      /\ leaked \in Seq(Handle)
  BY <1>1
<1>3. m \in Machine(Tokens(0))
  <2>1. 0 \in Tokens(0)
    BY DEF Tokens
  <2> QED
    BY <1>1, <2>1 DEF Machine
<1>4. Spills(held) = 0 /\ Spills(leaked) = 0
  BY <1>2, FS_EmptySet DEF Spills
<1>5. Fits(todo, 0)
  <2>1. Fits(<<>>, 0)
    <3>1. <<>> \in Seq(Work) /\ DOMAIN <<>> = {}
      OBVIOUS
    <3>2. Shape(<<>>)
      BY <3>1 DEF Shape
    <3>3. Agains(<<>>) = 0
      <4>1. {i \in DOMAIN <<>> : <<>>[i] = "again"} = {}
        BY <3>1
      <4> QED
        BY <4>1, FS_EmptySet DEF Agains
    <3> QED
      BY <3>1, <3>2, <3>3, RunsEmpty DEF Fits
  <2>2. /\ "stmts" \in Work /\ 0 \in Nat /\ Change("stmts") = 0 /\ Needs("stmts") = 0
        /\ "stmts" \notin Operand
    BY DEF Work, Type, Change, Needs, Operand
  <2>3. "call" \notin In(<<>>) /\ "call_with_args" \notin In(<<>>)
    BY DEF In
  <2>4. Agains(<<>>) = 0
    <3>1. {i \in DOMAIN <<>> : <<>>[i] = "again"} = {}
      OBVIOUS
    <3> QED
      BY <3>1, FS_EmptySet DEF Agains
  <2>5. /\ "stmts" \in Work /\ 0 \in Nat /\ Fits(<<>>, 0)
        /\ 0 = 0 + Change("stmts") /\ 0 >= Needs("stmts")
    BY <2>1, <2>2
  <2>6. "stmts" = "stmts" => 0 = 2 * Agains(<<>>)
    BY <2>4
  <2>7. Fits(<<"stmts">> \o <<>>, 0)
    BY <2>2, <2>3, <2>5, <2>6, FitsCons
  <2>8. <<"stmts">> \o <<>> = <<"stmts">>
    OBVIOUS
  <2> QED
    BY <1>1, <2>7, <2>8
<1>6. Tests(todo, loops)
  BY <1>1 DEF Tests
<1>7. loops \in 0..MaxLoops
  <2>1. MaxLoops \in Nat
    BY CodegenAssumption
  <2> QED
    BY <1>1, <2>1
<1>8. Owned(m.used, held, leaked)
  BY <1>1, <1>2 DEF Owned
<1> QED
  BY <1>1, <1>2, <1>3, <1>4, <1>5, <1>6, <1>7, <1>8 DEF Bookkeeping, Book

LEMMA NextBooks == Bookkeeping /\ [Next]_cg => Bookkeeping'
<1> SUFFICES ASSUME Bookkeeping, [Next]_cg  PROVE Bookkeeping'
  OBVIOUS
<1>1. CASE UNCHANGED cg
  BY <1>1 DEF cg, Bookkeeping
<1>2. CASE Leaf \/ Index \/ Binary
  BY <1>2, LeafBooks, IndexBooks, BinaryBooks
<1>3. CASE Arith \/ Divide \/ Compare
  BY <1>3, ArithBooks, DivideBooks, CompareBooks
<1>4. CASE CompareFails \/ Misread
  BY <1>4, StopBooks
<1>5. ASSUME NEW args \in BOOLEAN, Call(args) \/ StartProc(args)  PROVE Bookkeeping'
  BY <1>5, CallBooks, StartProcBooks
<1>6. CASE Argument
  BY <1>6, ArgumentBooks
<1>7. ASSUME NEW args \in BOOLEAN, Return(args)  PROVE Bookkeeping'
  BY <1>7, ReturnBooks
<1>8. CASE StartAssign \/ Assign
  BY <1>8, StartAssignBooks, AssignBooks
<1>9. CASE StartConditional
  BY <1>9, StartConditionalBooks
<1>10. CASE Condition
  BY <1>10, DiscardBooks DEF Condition
<1>11. CASE StartFor \/ Variable \/ Test \/ Again
  BY <1>11, StartForBooks, VariableBooks, TestBooks, AgainBooks
<1>12. CASE Discard
  BY <1>12, DiscardBooks DEF Discard
<1>13. CASE StartWrite
  BY <1>13, StartWriteBooks
<1>14. CASE Write
  BY <1>14, DiscardBooks DEF Write
<1>15. CASE Newline \/ Written \/ EndStmts
  BY <1>15, NewlineBooks, WrittenBooks, EndStmtsBooks
<1> QED
  BY <1>1, <1>2, <1>3, <1>4, <1>5, <1>6, <1>7, <1>8, <1>9, <1>10, <1>11, <1>12, <1>13,
     <1>14, <1>15 DEF Next

(* The inductive invariant: types, the pending work that the operands fit, *)
(* the owners of the registers and the overflow counter (reg_gimme and     *)
(* reg_takeitback, and every function that calls them).                    *)
THEOREM BooksKept == Spec => []Bookkeeping
<1>1. Init => Bookkeeping
  BY InitBooks
<1>2. Bookkeeping /\ [Next]_cg => Bookkeeping'
  BY NextBooks
<1> QED
  BY <1>1, <1>2, PTL DEF Spec

(* The types: registers and stack words never hold the value of an operand *)
(* that is gone, the counter of reg_takeitback never goes below zero, and  *)
(* no more FOR loops are compiled than the bound.                          *)
THEOREM TypesKept == Spec => []TypeOK
<1>1. Bookkeeping => TypeOK
  BY DEF Bookkeeping, Book, TypeOK, Fits, Tokens, Token, N
<1> QED
  BY <1>1, BooksKept, PTL

(* The owners in one list: the operands, then the leaked. *)
LEMMA OwnersAre ==
  ASSUME held \in Seq(Handle), leaked \in Seq(Handle)
  PROVE  /\ N \in Nat /\ Len(leaked) \in Nat /\ DOMAIN held = 1..N
         /\ DOMAIN leaked = 1..Len(leaked) /\ DOMAIN Owners = 1..(N + Len(leaked))
         /\ \A i \in DOMAIN held : i \in DOMAIN Owners /\ Owners[i] = held[i]
         /\ \A j \in DOMAIN leaked : N + j \in DOMAIN Owners /\ Owners[N + j] = leaked[j]
         /\ \A i \in DOMAIN Owners : i \notin DOMAIN held =>
              i - N \in DOMAIN leaked /\ i = N + (i - N)
         /\ \A i \in DOMAIN held, j \in DOMAIN leaked : i # N + j
         /\ \A i, j \in DOMAIN leaked : N + i = N + j => i = j
<1>1. /\ N \in Nat /\ Len(leaked) \in Nat /\ DOMAIN held = 1..N
      /\ DOMAIN leaked = 1..Len(leaked) /\ DOMAIN Owners = 1..(N + Len(leaked))
  BY DEF N, Owners
<1>2. \A i \in DOMAIN held : i \in DOMAIN Owners /\ Owners[i] = held[i]
  BY <1>1 DEF Owners
<1>3. ASSUME NEW j \in DOMAIN leaked
      PROVE  N + j \in DOMAIN Owners /\ Owners[N + j] = leaked[j]
  <2>1. N + j \in 1..(N + Len(leaked)) /\ ~(N + j <= N) /\ (N + j) - N = j
    BY <1>1
  <2> QED
    BY <1>1, <2>1 DEF Owners
<1>4. \A i \in DOMAIN Owners : i \notin DOMAIN held => i - N \in DOMAIN leaked /\ i = N + (i - N)
  BY <1>1
<1>5. \A i \in DOMAIN held, j \in DOMAIN leaked : i # N + j
  BY <1>1
<1>6. \A i, j \in DOMAIN leaked : N + i = N + j => i = j
  BY <1>1
<1> QED
  BY <1>1, <1>2, <1>3, <1>4, <1>5, <1>6

LEMMA SpilledOwners ==
  ASSUME held \in Seq(Handle), leaked \in Seq(Handle)
  PROVE  Cardinality({i \in DOMAIN Owners : Owners[i].spilled}) = Spills(held) + Spills(leaked)
<1> DEFINE A == {i \in DOMAIN held : held[i].spilled}
           J == {j \in DOMAIN leaked : leaked[j].spilled}
           B == {N + j : j \in J}
           C == {i \in DOMAIN Owners : Owners[i].spilled}
           f == [j \in J |-> N + j]
<1>1. /\ N \in Nat /\ Len(leaked) \in Nat /\ DOMAIN held = 1..N
      /\ DOMAIN leaked = 1..Len(leaked)
      /\ \A i \in DOMAIN held : i \in DOMAIN Owners /\ Owners[i] = held[i]
      /\ \A j \in DOMAIN leaked : N + j \in DOMAIN Owners /\ Owners[N + j] = leaked[j]
      /\ \A i \in DOMAIN Owners : i \notin DOMAIN held =>
           i - N \in DOMAIN leaked /\ i = N + (i - N)
      /\ \A i \in DOMAIN held, j \in DOMAIN leaked : i # N + j
      /\ \A i, j \in DOMAIN leaked : N + i = N + j => i = j
  BY OwnersAre
<1>2. C = A \cup B /\ A \cap B = {}
  <2>1. ASSUME NEW i \in C  PROVE i \in A \cup B
    <3>1. CASE i \in DOMAIN held
      BY <1>1, <3>1
    <3>2. CASE i \notin DOMAIN held
      <4>1. i - N \in J /\ i = N + (i - N)
        BY <1>1, <3>2
      <4> QED
        BY <4>1
    <3> QED
      BY <3>1, <3>2
  <2>2. A \cup B \subseteq C
    BY <1>1
  <2>3. A \cap B = {}
    BY <1>1
  <2> QED
    BY <2>1, <2>2, <2>3
<1>3. IsFiniteSet(A) /\ IsFiniteSet(J)
  <2>1. IsFiniteSet(1..N) /\ IsFiniteSet(1..Len(leaked))
    BY <1>1, FS_Interval
  <2> QED
    BY <1>1, <2>1, FS_Subset
<1>4. f \in Bijection(J, B)
  BY <1>1 DEF Bijection, Injection, Surjection, IsInjective
<1>5. IsFiniteSet(B) /\ Cardinality(B) = Cardinality(J)
  <2>1. ExistsBijection(J, B)
    BY <1>4 DEF ExistsBijection
  <2> QED
    BY <1>3, <2>1, FS_Bijection
<1>6. Cardinality(A) = Spills(held) /\ Cardinality(J) = Spills(leaked)
  BY DEF Spills
<1>7. Spills(held) \in Nat /\ Spills(leaked) \in Nat
  BY SpillsNat
<1> HIDE DEF A, B, C, J, f
<1>8. Cardinality(C) = Cardinality(A) + Cardinality(B) - Cardinality({})
  BY <1>2, <1>3, <1>5, FS_Union
<1>9. Cardinality({}) = 0
  BY FS_EmptySet
<1>10. Cardinality(C) = Spills(held) + Spills(leaked)
  BY <1>5, <1>6, <1>7, <1>8, <1>9
<1> QED
  BY <1>10 DEF C

(* No register of reg_gimme has two owners, a register is marked in use    *)
(* exactly while an operand or a leaked handle owns it, and the overflow   *)
(* counter counts the spilled, for any program, unless write gave back     *)
(* register 0 while an operand was in it.                                  *)
THEOREM OwnersKept == Spec => []OwnedOnce
<1>1. Bookkeeping => OwnedOnce
  <2> SUFFICES ASSUME Bookkeeping, "write_in_a_loop" \notin causes
               PROVE  LET own == {i \in DOMAIN Owners : ~Owners[i].spilled}
                      IN  /\ m.used = {Owners[i].which : i \in own}
                          /\ \A i, j \in own : Owners[i].which = Owners[j].which => i = j
                          /\ m.overflow = 6 + Cardinality(DOMAIN Owners \ own)
    BY DEF OwnedOnce
  <2> DEFINE own == {i \in DOMAIN Owners : ~Owners[i].spilled}
  <2>1. /\ held \in Seq(Handle) /\ leaked \in Seq(Handle) /\ Owned(m.used, held, leaked)
        /\ m.overflow = 6 + Spills(held) + Spills(leaked)
    BY DEF Bookkeeping, Book
  <2>2. /\ \A i \in DOMAIN held : i \in DOMAIN Owners /\ Owners[i] = held[i]
        /\ \A j \in DOMAIN leaked : N + j \in DOMAIN Owners /\ Owners[N + j] = leaked[j]
        /\ \A i \in DOMAIN Owners : i \notin DOMAIN held =>
             i - N \in DOMAIN leaked /\ i = N + (i - N)
    BY <2>1, OwnersAre
  <2>3. \A i \in DOMAIN Owners : i \in DOMAIN held \/ \E j \in DOMAIN leaked : i = N + j
    BY <2>2
  <2>4. m.used = {Owners[i].which : i \in own}
    <3>1. ASSUME NEW r \in m.used  PROVE \E i \in own : Owners[i].which = r
      <4>1. CASE \E i \in DOMAIN held : ~held[i].spilled /\ held[i].which = r
        BY <2>2, <4>1
      <4>2. CASE \E j \in DOMAIN leaked : ~leaked[j].spilled /\ leaked[j].which = r
        BY <2>2, <4>2
      <4> QED
        BY <2>1, <4>1, <4>2 DEF Owned
    <3>2. ASSUME NEW i \in own  PROVE Owners[i].which \in m.used
      <4>1. CASE i \in DOMAIN held
        BY <2>1, <2>2, <4>1 DEF Owned
      <4>2. CASE \E j \in DOMAIN leaked : i = N + j
        BY <2>1, <2>2, <4>2 DEF Owned
      <4> QED
        BY <2>3, <4>1, <4>2
    <3> QED
      BY <3>1, <3>2
  <2>5. ASSUME NEW i \in own, NEW j \in own, Owners[i].which = Owners[j].which  PROVE i = j
    <3>1. CASE i \in DOMAIN held /\ j \in DOMAIN held
      BY <2>1, <2>2, <2>5, <3>1 DEF Owned
    <3>2. ASSUME i \in DOMAIN held, NEW q \in DOMAIN leaked, j = N + q  PROVE FALSE
      BY <2>1, <2>2, <2>5, <3>2 DEF Owned
    <3>3. ASSUME j \in DOMAIN held, NEW p \in DOMAIN leaked, i = N + p  PROVE FALSE
      BY <2>1, <2>2, <2>5, <3>3 DEF Owned
    <3>4. ASSUME NEW p \in DOMAIN leaked, i = N + p, NEW q \in DOMAIN leaked, j = N + q
          PROVE  i = j
      <4>1. p = q
        BY <2>1, <2>2, <2>5, <3>4 DEF Owned
      <4> QED
        BY <3>4, <4>1
    <3> QED
      BY <2>3, <3>1, <3>2, <3>3, <3>4
  <2>6. m.overflow = 6 + Cardinality(DOMAIN Owners \ own)
    <3>1. DOMAIN Owners \ own = {i \in DOMAIN Owners : Owners[i].spilled}
      OBVIOUS
    <3>2. Spills(held) \in Nat /\ Spills(leaked) \in Nat
      BY <2>1, SpillsNat
    <3> HIDE DEF own
    <3>3. Cardinality(DOMAIN Owners \ own) = Spills(held) + Spills(leaked)
      BY <2>1, <3>1, SpilledOwners
    <3> QED
      BY <2>1, <3>2, <3>3
  <2> QED
    BY <2>4, <2>5, <2>6
<1> QED
  BY <1>1, BooksKept, PTL

-----------------------------------------------------------------------------
(* Registers and stack, as long as no use was made that the allocator is   *)
(* not made for.                                                           *)

First(s) == IF s = <<>> THEN "end" ELSE Head(s)
Newest(h) == h # <<>> /\ h[Len(h)].spilled
Extra(h) == IF Newest(h) THEN 1 ELSE 0

(* Only the newest operand may be spilled; then no register is free, the   *)
(* operand before it is not in rcx, and it is to be read before anything   *)
(* else is given a register.                                               *)
SpillLast(mm, h, s) ==
  /\ \A i \in 1..(Len(h) - 1) : ~h[i].spilled
  /\ Newest(h) =>
       /\ mm.used = Reg /\ (Len(h) > 1 => h[Len(h) - 1].which # RCX)
       /\ First(s) \in Follower \cup {"call"}

(* Every operand is in its register, but the one that lent rcx to the      *)
(* newest: that one is on top of the stack.                                *)
Values(mm, h, s) ==
  First(s) # "call_with_args" =>
    /\ \A i \in 1..Len(h) : \/ mm.regs[Name(h[i])] = i
                            \/ Newest(h) /\ i < Len(h) /\ h[i].which = RCX
    /\ Newest(h) /\ First(s) \in Consumer =>
         /\ mm.stack # <<>>
         /\ \A i \in 1..(Len(h) - 1) : h[i].which = RCX => mm.stack[Len(mm.stack)] = i

(* The stack holds the words of FOR loops, the rcx saved for the newest    *)
(* operand, and what save_registers pushed for the call to come.           *)
Words(mm, h, k, s) ==
  /\ First(s) # "call" /\ "call_with_args" \notin In(s) => Len(mm.stack) = k + Extra(h)
  /\ First(s) = "call" =>
       \E z \in Machine(Int) :
         /\ z.used = mm.used /\ z.regs = mm.regs /\ mm.stack = Save(z).stack
         /\ "call_with_args" \notin In(s) => Len(z.stack) = k + Extra(h)

Safe(mm, h, k, s) == SpillLast(mm, h, s) /\ Values(mm, h, s) /\ Words(mm, h, k, s)

Undisturbed ==
  causes = {} => phase \in {"ok", "asm"} /\ (phase = "ok" => Safe(m, held, loops, todo))

(* The first p operands are in registers of their own, whatever follows.   *)
Kept(mm, h, p) == \A i \in 1..p : ~h[i].spilled /\ mm.regs[h[i].which] = i

LEMMA KeptSafe ==
  ASSUME NEW g \in Seq(Handle), NEW mm, Kept(mm, g, Len(g)), NEW k, NEW s, Words(mm, g, k, s)
  PROVE  Safe(mm, g, k, s)
<1>1. Len(g) \in Nat /\ \A i \in 1..Len(g) : ~g[i].spilled /\ mm.regs[Name(g[i])] = i
  BY DEF Kept, Name
<1>2. ~Newest(g)
  <2>1. g # <<>> => Len(g) \in 1..Len(g)
    BY <1>1
  <2> QED
    BY <1>1, <2>1 DEF Newest
<1>3. \A i \in 1..(Len(g) - 1) : ~g[i].spilled
  BY <1>1
<1> QED
  BY <1>1, <1>2, <1>3 DEF Safe, SpillLast, Values

LEMMA KeptPrefix ==
  ASSUME NEW h \in Seq(Handle), NEW p \in 0..Len(h), NEW mm, Kept(mm, h, p),
         NEW g, g = SubSeq(h, 1, p)
  PROVE  g \in Seq(Handle) /\ Len(g) = p /\ Kept(mm, g, Len(g)) /\ ~Newest(g) /\ Extra(g) = 0
<1>1. g \in Seq(Handle) /\ Len(g) = p /\ \A i \in 1..p : g[i] = h[i]
  <2>1. 1 \in Int /\ p \in Int /\ \A i \in 1..p : h[i] \in Handle
    OBVIOUS
  <2>2. /\ g \in Seq(Handle) /\ Len(g) = IF 1 <= p THEN p - 1 + 1 ELSE 0
        /\ \A i \in 1..(p - 1 + 1) : g[i] = h[1 + i - 1]
    BY <2>1, SubSeqProperties
  <2>3. p - 1 + 1 = p /\ Len(g) = p
    BY <2>2
  <2>4. ASSUME NEW i \in 1..p  PROVE g[i] = h[i]
    <3>1. i \in 1..(p - 1 + 1) /\ 1 + i - 1 = i
      OBVIOUS
    <3> QED
      BY <2>2, <3>1
  <2> QED
    BY <2>2, <2>3, <2>4
<1>2. Kept(mm, g, Len(g))
  BY <1>1 DEF Kept
<1>3. ~Newest(g)
  <2>1. g # <<>> => Len(g) \in 1..p
    BY <1>1
  <2> QED
    BY <1>1, <1>2, <2>1 DEF Newest, Kept
<1> QED
  BY <1>1, <1>2, <1>3 DEF Extra

(* What a register holds once the newest operand is given back. *)
Under(mm, h, q) ==
  IF Newest(h) /\ q = RCX THEN mm.stack[Len(mm.stack)] ELSE mm.regs[q]

(* Every operand can be read, or will be once the newest is given back.    *)
Ready(mm, h) ==
  /\ \A i \in 1..(Len(h) - 1) : ~h[i].spilled /\ Under(mm, h, h[i].which) = i
  /\ h # <<>> => mm.regs[Name(h[Len(h)])] = Len(h)
  /\ Newest(h) => mm.stack # <<>> /\ (Len(h) > 1 => h[Len(h) - 1].which # RCX)

LEMMA SafeReady ==
  ASSUME NEW h \in Seq(Handle), NEW mm, NEW k, NEW s, Safe(mm, h, k, s),
         First(s) # "call_with_args", Newest(h) => First(s) \in Consumer
  PROVE  Ready(mm, h) /\ (~Newest(h) => Kept(mm, h, Len(h)))
<1>1. Len(h) \in Nat
  OBVIOUS
<1>2. ASSUME NEW i \in 1..(Len(h) - 1)  PROVE ~h[i].spilled /\ Under(mm, h, h[i].which) = i
  <2>1. ~h[i].spilled /\ i \in 1..Len(h) /\ Name(h[i]) = h[i].which
    BY <1>1 DEF Safe, SpillLast, Name
  <2>2. CASE Newest(h) /\ h[i].which = RCX
    BY <2>1, <2>2 DEF Safe, Values, Under
  <2>3. CASE ~(Newest(h) /\ h[i].which = RCX)
    BY <2>1, <2>3 DEF Safe, Values, Under
  <2> QED
    BY <2>1, <2>2, <2>3
<1>3. h # <<>> => mm.regs[Name(h[Len(h)])] = Len(h)
  <2>1. h # <<>> => Len(h) \in 1..Len(h) /\ ~(Len(h) < Len(h))
    BY <1>1
  <2> QED
    BY <2>1 DEF Safe, Values
<1>4. Newest(h) => mm.stack # <<>> /\ (Len(h) > 1 => h[Len(h) - 1].which # RCX)
  BY DEF Safe, Values, SpillLast
<1>5. ~Newest(h) => Kept(mm, h, Len(h))
  <2> SUFFICES ASSUME ~Newest(h), NEW i \in 1..Len(h)
               PROVE  ~h[i].spilled /\ mm.regs[h[i].which] = i
    BY DEF Kept
  <2>1. ~h[i].spilled
    <3>1. i \in 1..(Len(h) - 1) \/ (i = Len(h) /\ h # <<>>)
      BY <1>1
    <3> QED
      BY <1>2, <3>1 DEF Newest
  <2>2. mm.regs[Name(h[i])] = i
    BY DEF Safe, Values
  <2> QED
    BY <2>1, <2>2 DEF Name
<1> QED
  BY <1>2, <1>3, <1>4, <1>5 DEF Ready

(* What forgetting leaves. *)
Forgot(s, t, S) ==
  /\ Len(t.stack) = Len(s.stack)
  /\ \A q \in Reg : t.regs[q] = IF s.regs[q] \in S THEN 0 ELSE s.regs[q]
  /\ \A j \in 1..Len(s.stack) : t.stack[j] = IF s.stack[j] \in S THEN 0 ELSE s.stack[j]

LEMMA ForgetIs ==
  ASSUME NEW n \in Nat, NEW s \in Machine(Tokens(n)), NEW S
  PROVE  Forgot(s, Forget(s, S), S)
<1> DEFINE rg == [r \in Reg |-> IF s.regs[r] \in S THEN 0 ELSE s.regs[r]]
           st == [i \in DOMAIN s.stack |-> IF s.stack[i] \in S THEN 0 ELSE s.stack[i]]
           f == Forget(s, S)
<1>1. s.stack \in Seq(Tokens(n)) /\ DOMAIN s.stack = 1..Len(s.stack) /\ Len(s.stack) \in Nat
  BY DEF Machine
<1>2. f = [s EXCEPT !.regs = rg, !.stack = st]
  BY DEF Forget
<1>3. f.regs = rg /\ f.stack = st
  BY <1>2 DEF Machine
<1>4. Len(st) = Len(s.stack)
  <2>1. DOMAIN st = 1..Len(s.stack)
    BY <1>1
  <2> QED
    BY <1>1, <2>1
<1> QED
  BY <1>1, <1>3, <1>4 DEF Forgot

LEMMA GivesBack ==
  ASSUME NEW T, NEW mm \in Machine(T), 0 \in T, NEW h \in Seq(Handle), h # <<>>,
         mm.overflow > 0, Newest(h) => mm.stack # <<>>
  PROVE  /\ \A q \in Reg : Takeback(mm, h[Len(h)]).regs[q] = Under(mm, h, q)
         /\ Len(Takeback(mm, h[Len(h)]).stack) = Len(mm.stack) - Extra(h)
<1> DEFINE x == h[Len(h)]
           t == Takeback(mm, x)
<1>1. x \in Handle /\ (Newest(h) <=> x.spilled)
  <2>1. Len(h) \in 1..Len(h)
    OBVIOUS
  <2> QED
    BY <2>1 DEF Newest
<1> HIDE DEF x
<1>2. /\ x.spilled => t.regs = Pop(mm, RCX).regs /\ t.stack = Pop(mm, RCX).stack
      /\ ~x.spilled => t.regs = mm.regs /\ t.stack = mm.stack
  BY <1>1, TakebackType
<1> HIDE DEF t
<1>3. mm.stack \in Seq(T) /\ mm.regs \in [Reg -> T] /\ RCX \in Reg /\ Len(mm.stack) \in Nat
  BY RcxIsReg DEF Machine
<1>4. CASE x.spilled
  <2>1. mm.stack # <<>> /\ Extra(h) = 1
    BY <1>1, <1>4 DEF Extra
  <2>2. /\ Pop(mm, RCX).regs = [mm.regs EXCEPT ![RCX] = mm.stack[Len(mm.stack)]]
        /\ Pop(mm, RCX).stack = SubSeq(mm.stack, 1, Len(mm.stack) - 1)
    BY <1>3, <2>1, PopWord
  <2>3. Len(t.stack) = Len(mm.stack) - 1
    <3>1. Len(Front(mm.stack)) = Len(mm.stack) - 1
      BY <1>3, <2>1, FrontIs
    <3> QED
      BY <1>2, <1>4, <2>2, <3>1 DEF Front
  <2>4. ASSUME NEW q \in Reg  PROVE t.regs[q] = Under(mm, h, q)
    <3>1. t.regs = [mm.regs EXCEPT ![RCX] = mm.stack[Len(mm.stack)]]
      BY <1>2, <1>4, <2>2
    <3>2. CASE q = RCX
      BY <1>1, <1>3, <1>4, <3>1, <3>2 DEF Under
    <3>3. CASE q # RCX
      BY <1>3, <3>1, <3>3 DEF Under
    <3> QED
      BY <3>2, <3>3
  <2> QED
    BY <2>1, <2>3, <2>4 DEF t, x
<1>5. CASE ~x.spilled
  <2>1. Extra(h) = 0 /\ ~Newest(h)
    BY <1>1, <1>5 DEF Extra
  <2>2. Len(t.stack) = Len(mm.stack) - Extra(h)
    BY <1>2, <1>3, <1>5, <2>1
  <2>3. \A q \in Reg : t.regs[q] = Under(mm, h, q)
    BY <1>2, <1>5, <2>1 DEF Under
  <2> QED
    BY <2>2, <2>3 DEF t, x
<1> QED
  BY <1>4, <1>5

(* What giving operands back leaves: the first p, and nothing of the rest. *)
Leaves(mm, h, t, p) == Kept(t, h, p) /\ Len(t.stack) = Len(mm.stack) - Extra(h)

(* The newest operand is read and given back. *)
LEMMA OneRead ==
  ASSUME NEW n \in Nat, n >= 1, NEW mm \in Machine(Tokens(n)), mm.overflow > 0,
         NEW h \in Seq(Handle), Len(h) = n, Ready(mm, h),
         NEW b, b = Takeback(mm, h[n]), NEW t, t = Forget(b, n..n)
  PROVE  Leaves(mm, h, t, n - 1)
<1>1. 0 \in Tokens(n) /\ h # <<>> /\ h[n] \in Handle
  BY DEF Tokens
<1>2. b \in Machine(Tokens(n)) 
  BY <1>1, TakebackGives
<1>3. (\A q \in Reg : b.regs[q] = Under(mm, h, q)) /\ Len(b.stack) = Len(mm.stack) - Extra(h)
  BY <1>1, GivesBack DEF Ready
<1>4. /\ Len(t.stack) = Len(b.stack)
      /\ \A q \in Reg : t.regs[q] = IF b.regs[q] \in n..n THEN 0 ELSE b.regs[q]
  <2> DEFINE S == n..n
  <2>1. t = Forget(b, S)
    OBVIOUS
  <2> HIDE DEF S
  <2>2. Forgot(b, t, S)
    BY <1>2, <2>1, ForgetIs
  <2> QED
    BY <2>2 DEF S, Forgot
<1>5. ASSUME NEW i \in 1..(n - 1)  PROVE ~h[i].spilled /\ t.regs[h[i].which] = i
  <2>1. h[i] \in Handle
    OBVIOUS
  <2>2. h[i].which \in Reg
    BY <2>1 DEF Handle
  <2>3. ~h[i].spilled /\ Under(mm, h, h[i].which) = i
    BY DEF Ready
  <2>4. b.regs[h[i].which] = i /\ i \notin n..n
    BY <1>3, <2>2, <2>3
  <2> QED
    BY <1>4, <2>2, <2>3, <2>4
<1> QED
  BY <1>3, <1>4, <1>5 DEF Kept, Leaves

(* ... and the one before it. *)
LEMMA TwoRead ==
  ASSUME NEW n \in Nat, n >= 2, NEW mm \in Machine(Tokens(n)), mm.overflow > 5,
         NEW h \in Seq(Handle), Len(h) = n, Ready(mm, h),
         NEW t, t = Forget(Takeback(Takeback(mm, h[n]), h[n - 1]), (n - 1)..n)
  PROVE  Leaves(mm, h, t, n - 2)
<1> DEFINE a == Takeback(mm, h[n])
           b == Takeback(a, h[n - 1])
<1>1. /\ 0 \in Tokens(n) /\ h # <<>> /\ h[n] \in Handle /\ h[n - 1] \in Handle
      /\ n - 1 \in 1..(n - 1) /\ n \in Nat \ {0} /\ mm.overflow > 0 /\ mm.overflow \in Nat
  BY DEF Tokens, Machine
<1>2. a \in Machine(Tokens(n)) /\ Gives(mm, a, h[n])
  BY <1>1, TakebackGives
<1>3. (\A q \in Reg : a.regs[q] = Under(mm, h, q)) /\ Len(a.stack) = Len(mm.stack) - Extra(h)
  BY <1>1, GivesBack DEF Ready
<1> HIDE DEF a
<1>a. t = Forget(b, (n - 1)..n)
  BY DEF a
<1>4. a.overflow > 0
  BY <1>1, <1>2 DEF Gives, Spill
<1>5. ~h[n - 1].spilled
  BY <1>1 DEF Ready
<1>6. b \in Machine(Tokens(n)) /\ b.regs = a.regs /\ b.stack = a.stack
  BY <1>1, <1>2, <1>4, <1>5, TakebackType
<1> HIDE DEF b
<1>7. /\ Len(t.stack) = Len(b.stack)
      /\ \A q \in Reg : t.regs[q] = IF b.regs[q] \in (n - 1)..n THEN 0 ELSE b.regs[q]
  <2> DEFINE S == (n - 1)..n
  <2>1. t = Forget(b, S)
    BY <1>a
  <2> HIDE DEF S
  <2>2. Forgot(b, t, S)
    BY <1>6, <2>1, ForgetIs
  <2> QED
    BY <2>2 DEF S, Forgot
<1>8. ASSUME NEW i \in 1..(n - 2)  PROVE ~h[i].spilled /\ t.regs[h[i].which] = i
  <2>1. h[i] \in Handle /\ i \in 1..(n - 1)
    OBVIOUS
  <2>2. h[i].which \in Reg
    BY <2>1 DEF Handle
  <2>3. ~h[i].spilled /\ Under(mm, h, h[i].which) = i
    BY <2>1 DEF Ready
  <2>4. b.regs[h[i].which] = i /\ i \notin (n - 1)..n
    BY <1>3, <1>6, <2>2, <2>3
  <2> QED
    BY <1>7, <2>2, <2>3, <2>4
<1> QED
  BY <1>3, <1>6, <1>7, <1>8 DEF Kept, Leaves

(* The left operand gets the result of an operation. *)
Result(mm, h, s) ==
  /\ s.regs[Name(h[Len(h) - 1])] = Len(h) - 1
  /\ \A q \in Reg :
       q \notin {Name(h[Len(h) - 1]), Name(h[Len(h)])} /\ mm.regs[q] \in 1..(Len(h) - 2)
         => s.regs[q] = mm.regs[q]
  /\ Len(s.stack) = Len(mm.stack)
  /\ \A j \in 1..Len(mm.stack) :
       mm.stack[j] \in 1..(Len(h) - 2) => s.stack[j] = mm.stack[j]

LEMMA ResultKept ==
  ASSUME NEW n \in Nat, n >= 2, NEW mm \in Machine(Tokens(n)),
         NEW h \in Seq(Handle), Len(h) = n, Ready(mm, h),
         NEW s \in Machine(Tokens(n)), s.overflow > 0, Result(mm, h, s),
         NEW t, t = Takeback(Forget(s, n..n), h[n])
  PROVE  Leaves(mm, h, t, n - 1)
<1> DEFINE f == Forget(s, n..n)
           x == h[n]
           y == h[n - 1]
<1>1. /\ 0 \in Tokens(n) /\ h # <<>> /\ x \in Handle /\ y \in Handle
      /\ n - 1 \in 1..(n - 1) /\ n \in Nat \ {0} /\ n \in 1..n
  BY DEF Tokens
<1>2. /\ f \in Machine(Tokens(n)) /\ f.overflow > 0 /\ Len(f.stack) = Len(mm.stack)
      /\ \A q \in Reg : f.regs[q] = IF s.regs[q] \in n..n THEN 0 ELSE s.regs[q]
      /\ \A j \in 1..Len(mm.stack) : f.stack[j] = IF s.stack[j] \in n..n THEN 0 ELSE s.stack[j]
  <2> DEFINE S == n..n
  <2>1. f = Forget(s, S)
    OBVIOUS
  <2> HIDE DEF S, f
  <2>2. f \in Machine(Tokens(n)) /\ f.overflow = s.overflow
    BY <1>1, <2>1, ForgetKeeps DEF Keeps
  <2>3. Forgot(s, f, S)
    BY <2>1, ForgetIs
  <2>4. Len(s.stack) = Len(mm.stack)
    BY DEF Result
  <2> QED
    BY <2>2, <2>3, <2>4 DEF S, Forgot
<1>3. t = Takeback(f, x) /\ (Newest(h) <=> x.spilled)
  BY DEF Newest
<1>4. /\ ~y.spilled /\ y.which \in Reg /\ Name(y) = y.which /\ Under(mm, h, y.which) = n - 1
      /\ mm.regs[Name(x)] = n /\ Name(x) \in Reg
      /\ Newest(h) => Name(x) = RCX /\ mm.stack # <<>> /\ y.which # RCX
  <2>1. ~y.spilled /\ Under(mm, h, y.which) = n - 1 /\ mm.regs[Name(x)] = n
    BY <1>1 DEF Ready
  <2>2. Newest(h) => mm.stack # <<>> /\ y.which # RCX
    BY DEF Ready
  <2>3. y.which \in Reg /\ Name(y) = y.which
    BY <1>1, <2>1 DEF Name, Handle
  <2> QED
    BY <1>1, <1>3, <2>1, <2>2, <2>3, NameIsReg
<1>5. /\ s.regs[Name(y)] = n - 1
      /\ \A q \in Reg : q \notin {Name(y), Name(x)} /\ mm.regs[q] \in 1..(n - 2) => s.regs[q] = mm.regs[q]
      /\ \A j \in 1..Len(mm.stack) : mm.stack[j] \in 1..(n - 2) => s.stack[j] = mm.stack[j]
  BY DEF Result
<1> HIDE DEF f, x, y
<1>6. /\ \A q \in Reg : t.regs[q] = Under(f, h, q)
      /\ Len(t.stack) = Len(f.stack) - Extra(h)
  <2>1. Newest(h) => f.stack # <<>>
    <3>1. mm.stack \in Seq(Tokens(n)) /\ f.stack \in Seq(Tokens(n))
      BY <1>2 DEF Machine
    <3>2. mm.stack # <<>> => Len(mm.stack) # 0
      BY <3>1
    <3> QED
      BY <1>2, <1>4, <3>1, <3>2
  <2>2. x = h[Len(h)]
    BY DEF x
  <2> QED
    BY <1>1, <1>2, <1>3, <2>1, <2>2, GivesBack
<1>7. ASSUME NEW i \in 1..(n - 1)  PROVE ~h[i].spilled /\ t.regs[h[i].which] = i
  <2> DEFINE w == h[i].which
  <2>1. ~h[i].spilled /\ Under(mm, h, w) = i
    BY DEF Ready
  <2>2. w \in Reg
    <3>1. h[i] \in Handle
      OBVIOUS
    <3> QED
      BY <3>1 DEF Handle
  <2>3. i \notin n..n
    OBVIOUS
  <2> HIDE DEF w
  <2>4. CASE Newest(h) /\ w = RCX
    <3> DEFINE e == Len(mm.stack)
    <3>1. mm.stack[e] = i
      BY <2>1, <2>4 DEF Under
    <3>2. e \in 1..e
      <4>1. mm.stack \in Seq(Tokens(n)) /\ mm.stack # <<>>
        BY <1>4, <2>4 DEF Machine
      <4> QED
        BY <4>1
    <3>3. i # n - 1
      <4> SUFFICES ASSUME i = n - 1  PROVE FALSE
        OBVIOUS
      <4>1. w = y.which
        BY DEF w, y
      <4> QED
        BY <1>4, <2>4, <4>1
    <3>4. i \in 1..(n - 2)
      BY <3>3
    <3>5. f.stack[e] = i
      BY <1>2, <1>5, <2>3, <3>1, <3>2, <3>4
    <3> QED
      BY <1>2, <1>6, <2>1, <2>2, <2>4, <3>5 DEF Under, w
  <2>5. CASE ~(Newest(h) /\ w = RCX)
    <3>1. mm.regs[w] = i /\ Under(f, h, w) = f.regs[w]
      BY <2>1, <2>5 DEF Under
    <3>2. CASE i = n - 1
      <4>1. w = Name(y)
        BY <1>4, <3>2 DEF w, y
      <4>2. s.regs[w] = i
        BY <1>5, <3>2, <4>1
      <4>3. f.regs[w] = i
        BY <1>2, <2>2, <2>3, <4>2
      <4>4. t.regs[w] = i
        BY <1>6, <2>2, <3>1, <4>3
      <4> QED
        BY <2>1, <4>4 DEF w
    <3>3. CASE i # n - 1
      <4>1. i \in 1..(n - 2) /\ i # n
        BY <3>3
      <4>2. w # Name(x)
        BY <1>4, <3>1, <4>1
      <4>3. w # Name(y)
        <5> SUFFICES ASSUME w = Name(y)  PROVE FALSE
          OBVIOUS
        <5>1. Under(mm, h, w) = n - 1
          BY <1>4
        <5> QED
          BY <2>1, <3>3, <5>1 DEF w
      <4>4. s.regs[w] = i
        BY <1>5, <2>2, <3>1, <4>1, <4>2, <4>3
      <4> QED
        BY <1>2, <1>6, <2>1, <2>2, <2>3, <3>1, <4>4 DEF w
    <3> QED
      BY <3>2, <3>3
  <2> QED
    BY <2>4, <2>5
<1> QED
  BY <1>2, <1>6, <1>7 DEF Kept, Leaves

(* Work done leaves the stack as the next piece of work finds it. *)
LEMMA WordsTail ==
  ASSUME NEW s, NEW n, s # <<>>, Fits(s, n), Head(s) \notin {"call", "call_with_args"},
         NEW mm, NEW h, NEW k \in Int, Words(mm, h, k, s), NEW mn, NEW g, NEW q \in Int,
         Len(mm.stack) \in Int,
         Len(mn.stack) = Len(mm.stack) + (Extra(g) - Extra(h)) + (q - k)
  PROVE  Words(mn, g, q, Tail(s))
<1>1. /\ "call" \notin In(Tail(s)) /\ In(s) = {Head(s)} \cup In(Tail(s)) /\ s \in Seq(Work)
  BY FitsTail DEF Fits
<1>2. First(Tail(s)) # "call"
  <2>1. Tail(s) \in Seq(Work)
    BY <1>1
  <2> DEFINE t == Tail(s)
  <2> HIDE DEF t
  <2>2. ASSUME t \in Seq(Work), t # <<>>  PROVE Head(t) \in In(t)
    <3>1. 1 \in DOMAIN t /\ Head(t) = t[1]
      BY <2>2
    <3> QED
      BY <3>1 DEF In
  <2> QED
    BY <1>1, <2>1, <2>2 DEF First, t
<1>3. First(s) = Head(s)
  BY DEF First
<1>4. "call_with_args" \notin In(Tail(s)) => Len(mm.stack) = k + Extra(h)
  BY <1>1, <1>3 DEF Words
<1>5. Extra(h) \in Int /\ Extra(g) \in Int
  BY DEF Extra
<1>6. "call_with_args" \notin In(Tail(s)) => Len(mn.stack) = q + Extra(g)
  BY <1>4, <1>5
<1> QED
  BY <1>2, <1>6 DEF Words

(* What is known when the next piece of work is done. *)
LEMMA SafeAt ==
  ASSUME Bookkeeping, Undisturbed, causes = {}, NEW task, At(task)
  PROVE  /\ Safe(m, held, loops, todo) /\ First(todo) = task /\ N = Len(held)
         /\ Owned(m.used, held, leaked) /\ Len(m.stack) \in Nat /\ loops \in Nat
         /\ task \notin Follower \cup {"call"} => ~Newest(held) /\ Extra(held) = 0
         /\ task # "call_with_args" /\ (Newest(held) => task \in Consumer) =>
              Ready(m, held) /\ (~Newest(held) => Kept(m, held, N))
<1>1. /\ Book(m, held, leaked, loops, todo, causes) /\ phase = "ok" /\ todo # <<>>
      /\ Head(todo) = task /\ held \in Seq(Handle) /\ m \in Machine(Tokens(N))
      /\ loops \in 0..MaxLoops
  BY AtIs
<1>2. Safe(m, held, loops, todo) /\ First(todo) = task /\ N = Len(held)
  BY <1>1 DEF Undisturbed, First, N
<1>3. Owned(m.used, held, leaked)
  BY <1>1 DEF Book
<1>4. Len(m.stack) \in Nat
  BY <1>1 DEF Machine
<1>5. task \notin Follower \cup {"call"} => ~Newest(held) /\ Extra(held) = 0
  BY <1>2 DEF Safe, SpillLast, Extra
<1>6. task # "call_with_args" /\ (Newest(held) => task \in Consumer) =>
        Ready(m, held) /\ (~Newest(held) => Kept(m, held, N))
  BY <1>1, <1>2, SafeReady
<1> QED
  BY <1>1, <1>2, <1>3, <1>4, <1>5, <1>6

(* The newest p operands stay, in their registers. *)
LEMMA LeavesSafe ==
  ASSUME Bookkeeping, Undisturbed, causes = {}, NEW task, At(task),
         task \notin {"call", "call_with_args"}, todo' = Tail(todo),
         NEW p \in 0..N, held' = SubSeq(held, 1, p), Kept(m', held, p),
         Len(m'.stack) = Len(m.stack) - Extra(held) + (loops' - loops), loops' \in Int
  PROVE  Safe(m', held', loops', todo')
<1>1. /\ Safe(m, held, loops, todo) /\ N = Len(held) /\ Len(m.stack) \in Nat /\ loops \in Nat
  BY SafeAt
<1>2. /\ todo # <<>> /\ Head(todo) = task /\ Fits(todo, N) /\ held \in Seq(Handle)
  BY AtIs
<1>3. held' \in Seq(Handle) /\ Kept(m', held', Len(held')) /\ Extra(held') = 0
  BY <1>1, <1>2, KeptPrefix
<1>4. Words(m, held, loops, todo) /\ Extra(held) \in Int
  BY <1>1 DEF Safe, Extra
<1>5. Len(m'.stack) = Len(m.stack) + (Extra(held') - Extra(held)) + (loops' - loops)
  BY <1>1, <1>3, <1>4
<1>6. Words(m', held', loops', todo')
  BY <1>1, <1>2, <1>4, <1>5, WordsTail
<1> QED
  BY <1>3, <1>6, KeptSafe

(* cond, write, discard: the newest operand is read and given back. *)
LEMMA GiveSafe ==
  ASSUME Bookkeeping, Undisturbed, NEW task \in {"cond", "discard", "write"}, At(task),
         m' = Drop(Takeback(m, R), N), held' = Shorter(1), Then(<<>>),
         UNCHANGED <<leaked, loops, phase, causes>>
  PROVE  Undisturbed'
<1> SUFFICES ASSUME causes' = {}
             PROVE  phase' \in {"ok", "asm"} /\ (phase' = "ok" => Safe(m', held', loops', todo'))
  BY DEF Undisturbed
<1>1. causes = {} /\ Needs(task) = 1 /\ task \notin {"call", "call_with_args"}
  BY DEF Needs
<1>2. /\ phase = "ok" /\ held \in Seq(Handle) /\ N \in Nat /\ N >= 1 /\ m \in Machine(Tokens(N))
      /\ m.overflow > 0 /\ Tail(todo) \in Seq(Work)
  <2>1. /\ phase = "ok" /\ held \in Seq(Handle) /\ N \in Nat /\ N >= Needs(task)
        /\ m \in Machine(Tokens(N)) /\ m.overflow >= 6 /\ Tail(todo) \in Seq(Work)
    BY AtIs
  <2>2. m.overflow \in Nat
    BY <2>1 DEF Machine
  <2> QED
    BY <1>1, <2>1, <2>2
<1>3. todo' = Tail(todo)
  BY <1>2, ThenNothing
<1>4. /\ N = Len(held) /\ Len(m.stack) \in Nat /\ loops \in Nat
      /\ task \notin Follower \cup {"call"} => ~Newest(held)
  BY <1>1, SafeAt
<1>5. Ready(m, held)
  <2>1. Newest(held) => task \in Consumer
    BY <1>4 DEF Consumer, Follower, Type
  <2> QED
    BY <1>1, <2>1, SafeAt
<1>6. Kept(m', held, N - 1) /\ Len(m'.stack) = Len(m.stack) - Extra(held)
  <2>1. m' = Forget(Takeback(m, held[N]), N..N)
    BY DEF Drop, R
  <2> DEFINE b == Takeback(m, held[N])
  <2>2. b = Takeback(m, held[N]) /\ m' = Forget(b, N..N)
    BY <2>1
  <2> HIDE DEF b
  <2>3. Leaves(m, held, m', N - 1)
    BY <1>2, <1>4, <1>5, <2>2, OneRead
  <2> QED
    BY <2>3 DEF Leaves
<1>7. N - 1 \in 0..N /\ held' = SubSeq(held, 1, N - 1)
  BY <1>2 DEF Shorter
<1>8. loops' \in Int /\ Len(m'.stack) = Len(m.stack) - Extra(held) + (loops' - loops)
  <2>1. Extra(held) \in Int
    BY DEF Extra
  <2> QED
    BY <1>4, <1>6, <2>1
<1>9. Safe(m', held', loops', todo')
  BY <1>1, <1>3, <1>6, <1>7, <1>8, LeavesSafe
<1> QED
  BY <1>2, <1>9

LEMMA AssignSafe == ASSUME Bookkeeping, Undisturbed, Assign  PROVE Undisturbed'
<1> SUFFICES ASSUME causes' = {}
             PROVE  phase' \in {"ok", "asm"} /\ (phase' = "ok" => Safe(m', held', loops', todo'))
  BY DEF Undisturbed
<1>1. /\ causes = {} /\ Needs("assign") = 2 /\ At("assign") /\ Then(<<>>)
      /\ UNCHANGED <<leaked, loops, phase>>
  BY DEF Needs, Assign
<1>2. /\ phase = "ok" /\ held \in Seq(Handle) /\ N \in Nat /\ N >= 2 /\ m \in Machine(Tokens(N))
      /\ m.overflow > 5 /\ Tail(todo) \in Seq(Work)
  <2>1. /\ phase = "ok" /\ held \in Seq(Handle) /\ N \in Nat /\ N >= Needs("assign")
        /\ m \in Machine(Tokens(N)) /\ m.overflow >= 6 /\ Tail(todo) \in Seq(Work)
    BY <1>1, AtIs
  <2>2. m.overflow \in Nat
    BY <2>1 DEF Machine
  <2> QED
    BY <1>1, <2>1, <2>2
<1>3. todo' = Tail(todo)
  BY <1>1, <1>2, ThenNothing
<1>4. N = Len(held) /\ Len(m.stack) \in Nat /\ loops \in Nat
  BY <1>1, SafeAt
<1>5. Ready(m, held)
  <2>1. "assign" \in Consumer /\ "assign" # "call_with_args"
    BY DEF Consumer
  <2> QED
    BY <1>1, <2>1, SafeAt
<1>6. Kept(m', held, N - 2) /\ Len(m'.stack) = Len(m.stack) - Extra(held)
  <2>1. m' = Forget(Takeback(Takeback(m, held[N]), held[N - 1]), (N - 1)..N)
    BY DEF Assign, Drop, R, L
  <2> QED
    BY <1>2, <1>4, <1>5, <2>1, TwoRead DEF Leaves
<1>7. N - 2 \in 0..N /\ held' = SubSeq(held, 1, N - 2)
  BY <1>2 DEF Assign, Shorter
<1>8. loops' \in Int /\ Len(m'.stack) = Len(m.stack) - Extra(held) + (loops' - loops)
  <2>1. Extra(held) \in Int
    BY DEF Extra
  <2> QED
    BY <1>1, <1>4, <1>6, <2>1
<1>9. Safe(m', held', loops', todo')
  BY <1>1, <1>3, <1>6, <1>7, <1>8, LeavesSafe
<1> QED
  BY <1>1, <1>2, <1>9

(* An operation of two operands: what is left to show is that the register *)
(* of the left one has the result and no other operand lost its register.  *)
LEMMA ComputesSafe ==
  ASSUME Bookkeeping, Undisturbed, causes = {}, NEW task \in {"op", "rel"}, At(task),
         NEW s, Like(N, m, s), Result(m, held, s), m' = Takeback(Drop(s, N), R),
         held' = Shorter(1), Then(<<>>), loops' = loops
  PROVE  Safe(m', held', loops', todo')
<1>1. Needs(task) = 2 /\ task \notin {"call", "call_with_args"} /\ task \in Consumer
  BY DEF Needs, Consumer
<1>2. /\ held \in Seq(Handle) /\ N \in Nat /\ N >= 2 /\ m \in Machine(Tokens(N))
      /\ s \in Machine(Tokens(N)) /\ s.overflow > 0 /\ Tail(todo) \in Seq(Work)
  <2>1. /\ held \in Seq(Handle) /\ N \in Nat /\ N >= Needs(task)
        /\ m \in Machine(Tokens(N)) /\ m.overflow >= 6 /\ Tail(todo) \in Seq(Work)
    BY AtIs
  <2>2. m.overflow \in Nat
    BY <2>1 DEF Machine
  <2> QED
    BY <1>1, <2>1, <2>2 DEF Like, Keeps
<1>3. todo' = Tail(todo)
  BY <1>2, ThenNothing
<1>4. N = Len(held) /\ Len(m.stack) \in Nat /\ loops \in Nat /\ Ready(m, held)
  BY <1>1, SafeAt
<1>5. Kept(m', held, N - 1) /\ Len(m'.stack) = Len(m.stack) - Extra(held)
  <2>1. m' = Takeback(Forget(s, N..N), held[N])
    BY DEF Drop, R
  <2> QED
    BY <1>2, <1>4, <2>1, ResultKept DEF Leaves
<1>6. N - 1 \in 0..N /\ held' = SubSeq(held, 1, N - 1)
  BY <1>2 DEF Shorter
<1>7. loops' \in Int /\ Len(m'.stack) = Len(m.stack) - Extra(held) + (loops' - loops)
  <2>1. Extra(held) \in Int
    BY DEF Extra
  <2> QED
    BY <1>4, <1>5, <2>1
<1> QED
  BY <1>1, <1>3, <1>5, <1>6, <1>7, LeavesSafe

(* The other operands keep their registers and words. *)
Untouched(mm, h, s) ==
  /\ \A q \in Reg :
       q \notin {Name(h[Len(h) - 1]), Name(h[Len(h)])} /\ mm.regs[q] \in 1..(Len(h) - 2)
         => s.regs[q] = mm.regs[q]
  /\ Len(s.stack) = Len(mm.stack)
  /\ \A j \in 1..Len(mm.stack) :
       mm.stack[j] \in 1..(Len(h) - 2) => s.stack[j] = mm.stack[j]

LEMMA UntouchedForget ==
  ASSUME NEW n \in Nat, NEW h, Len(h) = n, NEW mm, NEW s \in Machine(Tokens(n)), Untouched(mm, h, s)
  PROVE  Untouched(mm, h, Forget(s, {n - 1}))
<1> DEFINE f == Forget(s, {n - 1})
<1>1. Forgot(s, f, {n - 1})
  BY ForgetIs
<1> HIDE DEF f
<1>2. \A x : x \in 1..(n - 2) => x \notin {n - 1}
  OBVIOUS
<1>3. Len(f.stack) = Len(mm.stack) /\ Len(s.stack) = Len(mm.stack)
  BY <1>1 DEF Forgot, Untouched
<1>4. ASSUME NEW q \in Reg, q \notin {Name(h[Len(h) - 1]), Name(h[Len(h)])},
             mm.regs[q] \in 1..(Len(h) - 2)
      PROVE  f.regs[q] = mm.regs[q]
  <2>1. s.regs[q] = mm.regs[q]
    BY <1>4 DEF Untouched
  <2>2. s.regs[q] \notin {n - 1}
    BY <1>2, <1>4, <2>1
  <2> QED
    BY <1>1, <2>1, <2>2 DEF Forgot
<1>5. ASSUME NEW j \in 1..Len(mm.stack), mm.stack[j] \in 1..(Len(h) - 2)
      PROVE  f.stack[j] = mm.stack[j]
  <2>1. s.stack[j] = mm.stack[j]
    BY <1>5 DEF Untouched
  <2>2. s.stack[j] \notin {n - 1}
    BY <1>2, <1>5, <2>1
  <2> QED
    BY <1>1, <1>3, <2>1, <2>2 DEF Forgot
<1> QED
  BY <1>3, <1>4, <1>5 DEF Untouched, f

LEMMA UntouchedSet ==
  ASSUME NEW T, NEW s \in Machine(T), NEW h, NEW mm, Untouched(mm, h, s),
         NEW r \in Reg, NEW tok \in T
  PROVE  /\ r \in {Name(h[Len(h) - 1]), Name(h[Len(h)])} => Untouched(mm, h, Set(s, r, tok))
         /\ r = Name(h[Len(h) - 1]) /\ tok = Len(h) - 1 => Result(mm, h, Set(s, r, tok))
<1> DEFINE f == Set(s, r, tok)
<1>1. f.regs = [s.regs EXCEPT ![r] = tok] /\ f.stack = s.stack
  BY SetType
<1>2. s.regs \in [Reg -> T]
  BY DEF Machine
<1> HIDE DEF f
<1>3. f.regs[r] = tok /\ \A q \in Reg : q # r => f.regs[q] = s.regs[q]
  BY <1>1, <1>2
<1>4. ASSUME r \in {Name(h[Len(h) - 1]), Name(h[Len(h)])}  PROVE Untouched(mm, h, f)
  <2>1. ASSUME NEW q \in Reg, q \notin {Name(h[Len(h) - 1]), Name(h[Len(h)])},
               mm.regs[q] \in 1..(Len(h) - 2)
        PROVE  f.regs[q] = mm.regs[q]
    BY <1>3, <1>4, <2>1 DEF Untouched
  <2> QED
    BY <1>1, <2>1 DEF Untouched
<1>5. ASSUME r = Name(h[Len(h) - 1]), tok = Len(h) - 1  PROVE Result(mm, h, f)
  <2>1. Untouched(mm, h, f)
    BY <1>4, <1>5
  <2>2. f.regs[Name(h[Len(h) - 1])] = Len(h) - 1
    BY <1>3, <1>5
  <2> QED
    BY <2>1, <2>2 DEF Untouched, Result
<1> QED
  BY <1>4, <1>5 DEF f

LEMMA ArithSafe == ASSUME Bookkeeping, Undisturbed, Arith  PROVE Undisturbed'
<1> SUFFICES ASSUME causes' = {}
             PROVE  phase' \in {"ok", "asm"} /\ (phase' = "ok" => Safe(m', held', loops', todo'))
  BY DEF Undisturbed
<1> DEFINE f == Forget(m, {N - 1})
           s == Set(f, Name(L), N - 1)
<1>1. /\ causes = {} /\ Needs("op") = 2 /\ At("op") /\ Then(<<>>)
      /\ UNCHANGED <<leaked, loops, phase>>
      /\ m' = Takeback(Drop(s, N), R) /\ held' = Shorter(1)
  BY DEF Needs, Arith
<1>2. /\ phase = "ok" /\ held \in Seq(Handle) /\ N \in Nat /\ N >= 2 /\ Like(N, m, m)
      /\ m \in Machine(Tokens(N)) /\ N = Len(held)
  BY <1>1, AtIs DEF N
<1>3. N - 1 \in Tokens(N) /\ L = held[N - 1] /\ Name(L) \in Reg
  BY <1>2, TwoAlive DEF Tokens, L
<1>4. Untouched(m, held, m)
  BY DEF Untouched
<1>5. Untouched(m, held, f)
  BY <1>2, <1>4, UntouchedForget
<1>6. Like(N, m, f)
  BY <1>2, <1>3, LikeSteps
<1> HIDE DEF f
<1>7. Result(m, held, s)
  BY <1>2, <1>3, <1>5, <1>6, UntouchedSet DEF Like
<1>8. Like(N, m, s)
  BY <1>2, <1>3, <1>6, LikeSteps
<1> HIDE DEF s
<1>9. Safe(m', held', loops', todo')
  BY <1>1, <1>7, <1>8, ComputesSafe
<1> QED
  BY <1>1, <1>2, <1>9

LEMMA CompareSafe == ASSUME Bookkeeping, Undisturbed, Compare  PROVE Undisturbed'
<1> SUFFICES ASSUME causes' = {}
             PROVE  phase' \in {"ok", "asm"} /\ (phase' = "ok" => Safe(m', held', loops', todo'))
  BY DEF Undisturbed
<1> DEFINE f == Forget(m, {N - 1})
           g == Set(f, Name(R), 0)
           s == Set(g, Name(L), N - 1)
<1>1. /\ causes = {} /\ Needs("rel") = 2 /\ At("rel") /\ Then(<<>>)
      /\ UNCHANGED <<leaked, loops, phase>> /\ held' = Shorter(1)
  BY DEF Needs, Compare
<1>2. m' = Takeback(Drop(s, N), R)
  <2>1. EightBit(Name(R)) = Name(R)
    BY DEF Compare
  <2> QED
    BY <2>1 DEF Compare
<1>3. /\ phase = "ok" /\ held \in Seq(Handle) /\ N \in Nat /\ N >= 2 /\ Like(N, m, m)
      /\ m \in Machine(Tokens(N)) /\ N = Len(held)
  BY <1>1, AtIs DEF N
<1>4. /\ N - 1 \in Tokens(N) /\ 0 \in Tokens(N) /\ L = held[N - 1] /\ R = held[N]
      /\ Name(L) \in Reg /\ Name(R) \in Reg
  BY <1>3, TwoAlive DEF Tokens, L, R
<1>5. Untouched(m, held, m)
  BY DEF Untouched
<1>6. Untouched(m, held, f)
  BY <1>3, <1>5, UntouchedForget
<1>7. Like(N, m, f)
  BY <1>3, <1>4, LikeSteps
<1> HIDE DEF f
<1>8. Untouched(m, held, g)
  BY <1>3, <1>4, <1>6, <1>7, UntouchedSet DEF Like
<1>9. Like(N, m, g)
  BY <1>3, <1>4, <1>7, LikeSteps
<1> HIDE DEF g
<1>10. Result(m, held, s)
  BY <1>3, <1>4, <1>8, <1>9, UntouchedSet DEF Like
<1>11. Like(N, m, s)
  BY <1>3, <1>4, <1>9, LikeSteps
<1> HIDE DEF s
<1>12. Safe(m', held', loops', todo')
  BY <1>1, <1>2, <1>10, <1>11, ComputesSafe
<1> QED
  BY <1>1, <1>3, <1>12

(* What pop takes from a stack of k + 1 words. *)
Popped(s, r, k, t) ==
  /\ Len(t.stack) = k /\ \A j \in 1..k : t.stack[j] = s.stack[j]
  /\ t.regs[r] = s.stack[k + 1] /\ \A q \in Reg : q # r => t.regs[q] = s.regs[q]

LEMMA PopIs ==
  ASSUME NEW T, NEW s \in Machine(T), 0 \in T, NEW r \in Reg, NEW k \in Nat, Len(s.stack) = k + 1
  PROVE  Pop(s, r) \in Machine(T) /\ Popped(s, r, k, Pop(s, r))
<1> DEFINE t == Pop(s, r)
<1>1. s.stack \in Seq(T) /\ s.regs \in [Reg -> T] /\ s.stack # <<>>
  BY DEF Machine
<1>2. t.regs = [s.regs EXCEPT ![r] = s.stack[Len(s.stack)]] /\ t.stack = Front(s.stack)
  BY <1>1, PopWord DEF Front
<1>3. t \in Machine(T)
  BY PopType
<1> HIDE DEF t
<1>4. Len(t.stack) = k /\ \A j \in 1..k : t.stack[j] = s.stack[j]
  <2>1. /\ Len(Front(s.stack)) = Len(s.stack) - 1
        /\ \A j \in 1..(Len(s.stack) - 1) : Front(s.stack)[j] = s.stack[j]
    BY <1>1, FrontIs
  <2>2. Len(s.stack) - 1 = k
    OBVIOUS
  <2> QED
    BY <1>2, <2>1, <2>2
<1>5. t.regs[r] = s.stack[k + 1] /\ \A q \in Reg : q # r => t.regs[q] = s.regs[q]
  BY <1>1, <1>2
<1> QED
  BY <1>3, <1>4, <1>5 DEF Popped, t

(* The division: rax and rdx come back, the left register has the result.  *)
LEMMA DivideResult ==
  ASSUME NEW n \in Nat, n >= 2, NEW mm \in Machine(Tokens(n)), NEW h, Len(h) = n,
         NEW x \in Reg, x = Name(h[n - 1]), x \notin {RAX, RDX},
         NEW ready \in Machine(Tokens(n)),
         \A q \in Reg : q \notin {RAX, RDX} => ready.regs[q] = mm.regs[q],
         ready.stack = Append(Append(mm.stack, mm.regs[RDX]), mm.regs[RAX])
  PROVE  Result(mm, h, Pop(Pop(Set(Forget(ready, {n - 1}), x, n - 1), RAX), RDX))
<1> DEFINE f == Forget(ready, {n - 1})
           done == Set(f, x, n - 1)
           a == Pop(done, RAX)
           b == Pop(a, RDX)
           e == Len(mm.stack)
<1>1. /\ e \in Nat /\ mm.stack \in Seq(Tokens(n)) /\ RAX \in Reg /\ RDX \in Reg /\ RAX # RDX
      /\ mm.regs[RDX] \in Tokens(n) /\ mm.regs[RAX] \in Tokens(n)
      /\ 0 \in Tokens(n) /\ n - 1 \in Tokens(n)
  <2>1. RAX \in Reg /\ RDX \in Reg /\ RAX # RDX
    BY RcxIsReg DEF RAX, RDX
  <2>2. mm.stack \in Seq(Tokens(n)) /\ mm.regs \in [Reg -> Tokens(n)]
    BY DEF Machine
  <2>3. 0 \in Tokens(n) /\ n - 1 \in Tokens(n)
    BY DEF Tokens
  <2> QED
    BY <2>1, <2>2, <2>3
<1>2. /\ Len(ready.stack) = e + 2 /\ \A j \in 1..e : ready.stack[j] = mm.stack[j]
      /\ ready.stack[e + 1] = mm.regs[RDX] /\ ready.stack[e + 2] = mm.regs[RAX]
  <2> DEFINE v == Append(mm.stack, mm.regs[RDX])
  <2>1. /\ v \in Seq(Tokens(n)) /\ Len(v) = e + 1 /\ v[e + 1] = mm.regs[RDX]
        /\ \A j \in 1..e : v[j] = mm.stack[j]
    BY <1>1
  <2> HIDE DEF v
  <2>2. ready.stack = Append(v, mm.regs[RAX])
    BY DEF v
  <2>3. /\ Len(ready.stack) = e + 2 /\ ready.stack[e + 2] = mm.regs[RAX]
        /\ \A j \in 1..(e + 1) : ready.stack[j] = v[j]
    BY <1>1, <2>1, <2>2
  <2> QED
    BY <1>1, <2>1, <2>3
<1> HIDE DEF e
<1>3. Forgot(ready, f, {n - 1}) /\ f \in Machine(Tokens(n))
  BY ForgetIs, ForgetKeeps
<1> HIDE DEF f
<1>4. /\ done \in Machine(Tokens(n)) /\ done.regs = [f.regs EXCEPT ![x] = n - 1]
      /\ done.stack = f.stack
  BY <1>1, <1>3, SetType
<1>5. f.regs \in [Reg -> Tokens(n)] /\ done.regs \in [Reg -> Tokens(n)] /\ done.stack \in Seq(Tokens(n))
  BY <1>3, <1>4 DEF Machine
<1> HIDE DEF done
<1>6. /\ Len(done.stack) = e + 2 /\ done.stack # <<>>
      /\ \A j \in 1..e : mm.stack[j] \in 1..(n - 2) => done.stack[j] = mm.stack[j]
      /\ mm.regs[RDX] \in 1..(n - 2) => done.stack[e + 1] = mm.regs[RDX]
      /\ mm.regs[RAX] \in 1..(n - 2) => done.stack[e + 2] = mm.regs[RAX]
  <2>1. \A z : z \in 1..(n - 2) => z \notin {n - 1}
    OBVIOUS
  <2>2. /\ Len(done.stack) = e + 2
        /\ \A j \in 1..(e + 2) : done.stack[j] = IF ready.stack[j] \in {n - 1} THEN 0 ELSE ready.stack[j]
    BY <1>2, <1>3, <1>4 DEF Forgot
  <2>3. /\ e + 1 \in 1..(e + 2) /\ e + 2 \in 1..(e + 2) /\ \A j \in 1..e : j \in 1..(e + 2)
    BY <1>1
  <2>4. done.stack # <<>>
    BY <1>1, <1>5, <2>2
  <2> QED
    BY <1>2, <2>1, <2>2, <2>3, <2>4
<1>7. /\ done.regs[x] = n - 1
      /\ \A q \in Reg : q \notin {RAX, RDX, x} /\ mm.regs[q] \in 1..(n - 2) => done.regs[q] = mm.regs[q]
  <2>1. done.regs[x] = n - 1
    BY <1>4, <1>5
  <2>2. ASSUME NEW q \in Reg, q \notin {RAX, RDX, x}, mm.regs[q] \in 1..(n - 2)
        PROVE  done.regs[q] = mm.regs[q]
    <3>1. mm.regs[q] \notin {n - 1}
      BY <2>2
    <3>2. f.regs[q] = mm.regs[q]
      BY <1>3, <2>2, <3>1 DEF Forgot
    <3> QED
      BY <1>4, <1>5, <2>2, <3>2
  <2> QED
    BY <2>1, <2>2
<1>8. a \in Machine(Tokens(n)) /\ Popped(done, RAX, e + 1, a)
  <2>1. Len(done.stack) = (e + 1) + 1 /\ e + 1 \in Nat
    BY <1>1, <1>6
  <2> QED
    BY <1>1, <1>4, <2>1, PopIs
<1> HIDE DEF a
<1>9. Popped(a, RDX, e, b)
  <2>1. Len(a.stack) = e + 1
    BY <1>8 DEF Popped
  <2> QED
    BY <1>1, <1>8, <2>1, PopIs
<1> HIDE DEF b
<1>10. e + 1 \in 1..(e + 1) /\ (e + 1) + 1 = e + 2 /\ \A j \in 1..e : j \in 1..(e + 1)
  BY <1>1
<1>11. /\ Len(b.stack) = e /\ \A j \in 1..e : b.stack[j] = done.stack[j]
  BY <1>8, <1>9, <1>10 DEF Popped
<1>12. /\ b.regs[RAX] = done.stack[e + 2] /\ b.regs[RDX] = done.stack[e + 1]
       /\ \A q \in Reg : q \notin {RAX, RDX} => b.regs[q] = done.regs[q]
  BY <1>1, <1>8, <1>9, <1>10 DEF Popped
<1>13. ASSUME NEW q \in Reg, q # x, mm.regs[q] \in 1..(n - 2)  PROVE b.regs[q] = mm.regs[q]
  <2>1. CASE q = RAX
    BY <1>6, <1>12, <1>13, <2>1
  <2>2. CASE q = RDX
    BY <1>6, <1>12, <1>13, <2>2
  <2>3. CASE q \notin {RAX, RDX}
    BY <1>7, <1>12, <1>13, <2>3
  <2> QED
    BY <2>1, <2>2, <2>3
<1>14. b.regs[x] = n - 1
  BY <1>7, <1>12
<1>15. \A j \in 1..e : mm.stack[j] \in 1..(n - 2) => b.stack[j] = mm.stack[j]
  BY <1>6, <1>11
<1>16. Result(mm, h, b)
  BY <1>11, <1>13, <1>14, <1>15 DEF Result, e
<1> QED
  BY <1>16 DEF b, a, done, f

LEMMA DivideSafe == ASSUME Bookkeeping, Undisturbed, Divide  PROVE Undisturbed'
<1> SUFFICES ASSUME causes' = {}
             PROVE  phase' \in {"ok", "asm"} /\ (phase' = "ok" => Safe(m', held', loops', todo'))
  BY DEF Undisturbed
<1> DEFINE one == Push(m, m.regs[RDX])
           saved == Push(one, m.regs[RAX])
           half == Set(saved, RAX, m.regs[Name(L)])
           ready == Set(half, RDX, 0)
           done == Set(Forget(ready, {N - 1}), Name(L), N - 1)
           s == Pop(Pop(done, RAX), RDX)
<1>1. /\ causes = {} /\ Needs("op") = 2 /\ At("op") /\ Then(<<>>)
      /\ UNCHANGED <<leaked, loops>>
      /\ m' = Takeback(Drop(s, N), R) /\ held' = Shorter(1)
      /\ phase' = IF ~Intact(ready, N) THEN "wrong" ELSE "ok"
      /\ Name(L) \notin {RAX, RDX} /\ Name(R) \notin {RAX, RDX}
  BY DEF Needs, Divide
<1>2. /\ held \in Seq(Handle) /\ N \in Nat /\ N >= 2 /\ Like(N, m, m)
      /\ m \in Machine(Tokens(N)) /\ N = Len(held)
  BY <1>1, AtIs DEF N
<1>3. /\ N - 1 \in Tokens(N) /\ 0 \in Tokens(N) /\ L = held[N - 1] /\ R = held[N]
      /\ Name(L) \in Reg /\ Name(R) \in Reg
  BY <1>2, TwoAlive DEF Tokens, L, R
<1>4. RAX \in Reg /\ RDX \in Reg /\ RAX # RDX
  BY RcxIsReg DEF RAX, RDX
<1>5. /\ m.regs \in [Reg -> Tokens(N)] /\ m.regs[RDX] \in Tokens(N)
      /\ m.regs[RAX] \in Tokens(N) /\ m.regs[Name(L)] \in Tokens(N)
  <2>1. m.regs \in [Reg -> Tokens(N)]
    BY <1>2 DEF Machine
  <2> QED
    BY <1>3, <1>4, <2>1
<1>6. /\ Like(N, m, one) /\ one.regs = m.regs /\ one.stack = Append(m.stack, m.regs[RDX])
      /\ one \in Machine(Tokens(N))
  BY <1>2, <1>4, <1>5, PushType DEF Like, Keeps
<1> HIDE DEF one
<1>7. /\ Like(N, m, saved) /\ saved.regs = m.regs
      /\ saved.stack = Append(Append(m.stack, m.regs[RDX]), m.regs[RAX])
      /\ saved \in Machine(Tokens(N))
  BY <1>4, <1>5, <1>6, PushType DEF Like, Keeps
<1> HIDE DEF saved
<1>8. /\ Like(N, m, half) /\ half.regs = [m.regs EXCEPT ![RAX] = m.regs[Name(L)]]
      /\ half.stack = saved.stack /\ half \in Machine(Tokens(N))
  BY <1>4, <1>5, <1>7, SetType DEF Like, Keeps
<1> HIDE DEF half
<1>9. /\ Like(N, m, ready) /\ ready.regs = [half.regs EXCEPT ![RDX] = 0]
      /\ ready.stack = saved.stack /\ ready \in Machine(Tokens(N))
  BY <1>3, <1>4, <1>8, SetType DEF Like, Keeps
<1> HIDE DEF ready
<1>10. \A q \in Reg : q \notin {RAX, RDX} => ready.regs[q] = m.regs[q]
  BY <1>4, <1>5, <1>8, <1>9
<1>11. Result(m, held, s)
  BY <1>1, <1>2, <1>3, <1>7, <1>9, <1>10, DivideResult
<1>12. Like(N, m, s)
  <2>1. Like(N, m, Forget(ready, {N - 1}))
    BY <1>2, <1>3, <1>4, <1>9, LikeSteps
  <2>2. Like(N, m, done)
    BY <1>2, <1>3, <2>1, LikeSteps
  <2> HIDE DEF done
  <2>3. Like(N, m, Pop(done, RAX))
    BY <1>2, <1>3, <1>4, <2>2, LikeSteps
  <2> QED
    BY <1>2, <1>3, <1>4, <2>3, LikeSteps
<1>13. phase' = "ok"
  <2>1. "op" \in Consumer /\ "op" # "call_with_args"
    BY DEF Consumer
  <2>2. Ready(m, held)
    BY <1>1, <2>1, SafeAt
  <2>3. held # <<>>
    BY <1>2
  <2>4. m.regs[Name(R)] = N
    BY <1>2, <1>3, <2>2, <2>3 DEF Ready
  <2>5. Intact(ready, N)
    BY <1>1, <1>3, <1>10, <2>4 DEF Intact
  <2> QED
    BY <1>1, <2>5
<1> HIDE DEF s
<1>14. Safe(m', held', loops', todo')
  BY <1>1, <1>11, <1>12, ComputesSafe
<1> QED
  BY <1>13, <1>14

(* A register is taken only while one is free, or the newest is spilled. *)
LEMMA FreeSafe ==
  ASSUME NEW mm, NEW h, NEW s, SpillLast(mm, h, s), mm.used # Reg
  PROVE  ~Newest(h) /\ Extra(h) = 0
BY DEF SpillLast, Extra

(* The operands stay where they are, and all of them are in registers. *)
LEMMA StaysSafe ==
  ASSUME Bookkeeping, Undisturbed, causes = {}, NEW task, At(task),
         task \notin {"call", "call_with_args"}, todo' = Tail(todo), held' = held,
         Extra(held) = 0, Kept(m', held, N), loops' \in Int,
         Len(m'.stack) = Len(m.stack) + (loops' - loops)
  PROVE  Safe(m', held', loops', todo')
<1>1. /\ Safe(m, held, loops, todo) /\ N = Len(held) /\ Len(m.stack) \in Nat /\ loops \in Nat
  BY SafeAt
<1>2. /\ todo # <<>> /\ Head(todo) = task /\ Fits(todo, N) /\ held \in Seq(Handle)
  BY AtIs
<1>3. Words(m, held, loops, todo)
  BY <1>1 DEF Safe
<1>4. Len(m'.stack) = Len(m.stack) + (Extra(held') - Extra(held)) + (loops' - loops)
  BY <1>1
<1>5. Words(m', held', loops', todo')
  BY <1>1, <1>2, <1>3, <1>4, WordsTail
<1> QED
  BY <1>1, <1>2, <1>5, KeptSafe

LEMMA EndStmtsSafe == ASSUME Bookkeeping, Undisturbed, EndStmts  PROVE Undisturbed'
<1> SUFFICES ASSUME causes' = {}
             PROVE  phase' \in {"ok", "asm"} /\ (phase' = "ok" => Safe(m', held', loops', todo'))
  BY DEF Undisturbed
<1>1. /\ causes = {} /\ At("stmts") /\ Then(<<>>) /\ UNCHANGED <<m, held, leaked, loops, phase>>
      /\ "stmts" \notin Follower \cup {"call"} /\ "stmts" # "call_with_args"
  BY DEF EndStmts, Follower, Consumer, Type
<1>2. phase = "ok" /\ todo' = Tail(todo)
  BY <1>1, AtIs, ThenNothing
<1>3. Extra(held) = 0 /\ Kept(m, held, N) /\ loops \in Nat /\ Len(m.stack) \in Nat
  BY <1>1, SafeAt
<1>4. loops' \in Int /\ Len(m'.stack) = Len(m.stack) + (loops' - loops)
  BY <1>1, <1>3
<1>5. Safe(m', held', loops', todo')
  BY <1>1, <1>2, <1>3, <1>4, StaysSafe
<1> QED
  BY <1>1, <1>2, <1>5

LEMMA TestSafe == ASSUME Bookkeeping, Undisturbed, Test  PROVE Undisturbed'
<1> SUFFICES ASSUME causes' = {}
             PROVE  phase' \in {"ok", "asm"} /\ (phase' = "ok" => Safe(m', held', loops', todo'))
  BY DEF Undisturbed
<1>1. /\ causes = {} /\ At("test") /\ Then(<<>>) /\ UNCHANGED <<held, leaked, phase>>
      /\ m' = Push(m, 0) /\ loops' = loops + 1
      /\ "test" \notin Follower \cup {"call"} /\ "test" # "call_with_args"
  BY DEF Test, Follower, Consumer, Type
<1>2. phase = "ok" /\ todo' = Tail(todo) /\ m \in Machine(Tokens(N)) /\ N \in Nat
  BY <1>1, AtIs, ThenNothing
<1>3. Extra(held) = 0 /\ Kept(m, held, N) /\ loops \in Nat /\ Len(m.stack) \in Nat
  BY <1>1, SafeAt
<1>4. m'.regs = m.regs /\ Len(m'.stack) = Len(m.stack) + 1
  <2>1. 0 \in Tokens(N) /\ m.stack \in Seq(Tokens(N))
    BY <1>2 DEF Tokens, Machine
  <2> QED
    BY <1>1, <1>2, <2>1, PushType
<1>5. loops' \in Int /\ Len(m'.stack) = Len(m.stack) + (loops' - loops)
  BY <1>1, <1>3, <1>4
<1>6. Kept(m', held, N)
  BY <1>3, <1>4 DEF Kept
<1>7. Safe(m', held', loops', todo')
  BY <1>1, <1>2, <1>3, <1>5, <1>6, StaysSafe
<1> QED
  BY <1>1, <1>2, <1>7

LEMMA NewlineSafe == ASSUME Bookkeeping, Undisturbed, Newline  PROVE Undisturbed'
<1> SUFFICES ASSUME causes' = {}
             PROVE  phase' \in {"ok", "asm"} /\ (phase' = "ok" => Safe(m', held', loops', todo'))
  BY DEF Undisturbed
<1> DEFINE g == Set(m, RCX, 0)
<1>1. /\ causes = {} /\ At("newline") /\ Then(<<>>) /\ UNCHANGED <<held, leaked, loops, phase>>
      /\ m' = Set(g, R11, 0)
      /\ "newline" \notin Follower \cup {"call"} /\ "newline" # "call_with_args"
      /\ \A i \in DOMAIN held : Name(held[i]) \notin {RCX, R11}
  BY DEF Newline, Follower, Consumer, Type
<1>2. /\ phase = "ok" /\ todo' = Tail(todo) /\ m \in Machine(Tokens(N)) /\ N \in Nat
      /\ held \in Seq(Handle) /\ N = Len(held)
  BY <1>1, AtIs, ThenNothing DEF N
<1>3. Extra(held) = 0 /\ Kept(m, held, N) /\ loops \in Nat /\ Len(m.stack) \in Nat
  BY <1>1, SafeAt
<1>4. 0 \in Tokens(N) /\ RCX \in Reg /\ R11 \in Reg
  BY <1>2, RcxIsReg DEF Tokens
<1>5. g \in Machine(Tokens(N)) /\ g.regs = [m.regs EXCEPT ![RCX] = 0] /\ g.stack = m.stack
  BY <1>2, <1>4, SetType
<1> HIDE DEF g
<1>6. m'.regs = [g.regs EXCEPT ![R11] = 0] /\ m'.stack = m.stack
  BY <1>1, <1>4, <1>5, SetType
<1>7. ASSUME NEW i \in 1..N  PROVE ~held[i].spilled /\ m'.regs[held[i].which] = i
  <2>1. held[i] \in Handle /\ i \in DOMAIN held
    BY <1>2
  <2>2. ~held[i].spilled /\ m.regs[held[i].which] = i
    BY <1>3 DEF Kept
  <2>3. held[i].which \in Reg /\ held[i].which \notin {RCX, R11}
    BY <1>1, <2>1, <2>2 DEF Handle, Name
  <2>4. m.regs \in [Reg -> Tokens(N)]
    BY <1>2 DEF Machine
  <2> QED
    BY <1>4, <1>5, <1>6, <2>2, <2>3, <2>4
<1>8. loops' \in Int /\ Len(m'.stack) = Len(m.stack) + (loops' - loops)
  BY <1>1, <1>3, <1>6
<1>9. Kept(m', held, N)
  BY <1>7 DEF Kept
<1>10. Safe(m', held', loops', todo')
  BY <1>1, <1>2, <1>3, <1>8, <1>9, StaysSafe
<1> QED
  BY <1>1, <1>2, <1>10

LEMMA WrittenSafe == ASSUME Bookkeeping, Undisturbed, Written  PROVE Undisturbed'
<1> SUFFICES ASSUME causes' = {}
             PROVE  phase' \in {"ok", "asm"} /\ (phase' = "ok" => Safe(m', held', loops', todo'))
  BY DEF Undisturbed
<1>1. /\ causes = {} /\ At("written") /\ Then(<<>>) /\ UNCHANGED <<held, loops, phase>>
      /\ m' = Takeback(m, Magic)
      /\ "written" \notin Follower \cup {"call"} /\ "written" # "call_with_args"
  BY DEF Written, Follower, Consumer, Type
<1>2. /\ phase = "ok" /\ todo' = Tail(todo) /\ m \in Machine(Tokens(N)) /\ N \in Nat
  BY <1>1, AtIs, ThenNothing
<1>3. Extra(held) = 0 /\ Kept(m, held, N) /\ loops \in Nat /\ Len(m.stack) \in Nat
  BY <1>1, SafeAt
<1>4. m'.regs = m.regs /\ m'.stack = m.stack
  <2>1. Magic \in Handle /\ ~Magic.spilled /\ 0 \in Tokens(N)
    BY <1>2 DEF Magic, Handle, Reg, Tokens
  <2> QED
    BY <1>1, <1>2, <2>1, TakebackType
<1>5. loops' \in Int /\ Len(m'.stack) = Len(m.stack) + (loops' - loops)
  BY <1>1, <1>3, <1>4
<1>6. Kept(m', held, N)
  BY <1>3, <1>4 DEF Kept
<1>7. Safe(m', held', loops', todo')
  BY <1>1, <1>2, <1>3, <1>5, <1>6, StaysSafe
<1> QED
  BY <1>1, <1>2, <1>7

(* What the registers and the stack hold once a register is loaded. *)
Loaded(s, t, x, tok) ==
  /\ x.spilled => t.regs = [s.regs EXCEPT ![RCX] = tok] /\ t.stack = Append(s.stack, s.regs[RCX])
  /\ ~x.spilled => t.regs = [s.regs EXCEPT ![x.which] = tok] /\ t.stack = s.stack

LEMMA GimmeLoads ==
  ASSUME NEW T, NEW s \in Machine(T), NEW tok \in T
  PROVE  Loaded(s, Gimme(s, tok), GimmeReg(s), tok)
<1> DEFINE x == GimmeReg(s)
<1> HIDE DEF x
<1>1. CASE x.spilled
  BY <1>1 DEF Loaded, Gimme, Set, Push, Machine, x
<1>2. CASE ~x.spilled
  BY <1>2 DEF Loaded, Gimme, Set, Push, Machine, x
<1> QED
  BY <1>1, <1>2 DEF x

Gains(mm, h, mn, x, tok) ==
  Kept(mn, h, Len(h)) /\ mn.stack = mm.stack /\ mn.regs[x.which] = tok

(* A register loaded: the operands keep theirs, and the new one has its    *)
(* value, if a register was free.                                          *)
LEMMA TakenKept ==
  ASSUME NEW n \in Nat, NEW mm \in Machine(Tokens(n)), NEW h \in Seq(Handle), Len(h) = n,
         Kept(mm, h, n), NEW l, Owned(mm.used, h, l), ~GimmeReg(mm).spilled,
         NEW tok \in Tokens(n + 1)
  PROVE  Gains(mm, h, Gimme(mm, tok), GimmeReg(mm), tok)
<1> DEFINE x == GimmeReg(mm)
           g == Gimme(mm, tok)
<1>1. Tokens(n) \subseteq Tokens(n + 1)
  BY DEF Tokens
<1>2. mm \in Machine(Tokens(n + 1)) /\ mm.regs \in [Reg -> Tokens(n + 1)]
  <2>1. mm \in Machine(Tokens(n + 1))
    BY <1>1, MachineMono
  <2> QED
    BY <2>1 DEF Machine
<1>3. g.regs = [mm.regs EXCEPT ![x.which] = tok] /\ g.stack = mm.stack
  <2>1. Loaded(mm, Gimme(mm, tok), GimmeReg(mm), tok)
    BY <1>2, GimmeLoads
  <2> QED
    BY <2>1 DEF Loaded
<1>4. x \in Handle /\ x.which \notin mm.used
  BY GimmeRegType
<1> HIDE DEF x, g
<1>5. x.which \in Reg
  BY <1>4 DEF Handle
<1>6. ASSUME NEW i \in 1..n  PROVE ~h[i].spilled /\ g.regs[h[i].which] = i
  <2>1. ~h[i].spilled /\ mm.regs[h[i].which] = i /\ h[i] \in Handle
    BY DEF Kept
  <2>2. h[i].which \in mm.used /\ h[i].which \in Reg
    BY <2>1 DEF Owned, Handle
  <2>3. h[i].which # x.which
    BY <1>4, <2>2
  <2> QED
    BY <1>2, <1>3, <1>5, <2>1, <2>2, <2>3
<1>7. g.regs[x.which] = tok
  BY <1>2, <1>3, <1>5
<1> QED
  BY <1>3, <1>6, <1>7 DEF Kept, Gains, x, g

(* ... and the new one is spilled, if none was. *)
LEMMA SpilledSafe ==
  ASSUME NEW n \in Nat, NEW mm \in Machine(Tokens(n)), NEW h \in Seq(Handle), Len(h) = n,
         Kept(mm, h, n), GimmeReg(mm).spilled, n > 0 => Name(h[n]) # RCX,
         NEW k, NEW s, First(s) \in Follower,
         NEW g, g = Append(h, GimmeReg(mm)), NEW mn, mn = Gimme(mm, n + 1), Words(mn, g, k, s)
  PROVE  Safe(mn, g, k, s)
<1> DEFINE x == GimmeReg(mm)
<1>1. /\ Tokens(n) \subseteq Tokens(n + 1) /\ n + 1 \in Tokens(n + 1)
  BY DEF Tokens
<1>2. mm \in Machine(Tokens(n + 1)) /\ mm.regs \in [Reg -> Tokens(n + 1)] /\ mm.stack \in Seq(Tokens(n + 1))
  <2>1. mm \in Machine(Tokens(n + 1))
    BY <1>1, MachineMono
  <2> QED
    BY <2>1 DEF Machine
<1>3. /\ mn.used = mm.used /\ mn.regs = [mm.regs EXCEPT ![RCX] = n + 1]
      /\ mn.stack = Append(mm.stack, mm.regs[RCX])
  <2>1. Loaded(mm, mn, GimmeReg(mm), n + 1) /\ Takes(mm, mn, GimmeReg(mm))
    BY <1>1, <1>2, GimmeLoads, GimmeTakes
  <2> QED
    BY <2>1 DEF Loaded, Takes, UsedWith
<1>4. x \in Handle /\ mm.used = Reg /\ RCX \in Reg
  BY GimmeRegType, RcxIsReg
<1> HIDE DEF x
<1>5. /\ g \in Seq(Handle) /\ g # <<>> /\ Len(g) = n + 1 /\ g[n + 1] = x
      /\ \A i \in 1..n : g[i] = h[i]
  BY <1>4, AppendIs DEF x
<1>6. Newest(g) /\ x.spilled
  BY <1>5 DEF Newest, x
<1>7. \A i \in 1..n : ~g[i].spilled /\ mm.regs[g[i].which] = i /\ Name(g[i]) = g[i].which
  BY <1>5 DEF Kept, Name
<1>8. SpillLast(mn, g, s)
  <2>1. n > 0 => g[n].which # RCX
    <3> HAVE n > 0
    <3>1. n \in 1..n
      OBVIOUS
    <3> QED
      BY <1>5, <1>7, <3>1
  <2>2. Len(g) - 1 = n /\ (Len(g) > 1 => n > 0)
    BY <1>5
  <2> QED
    BY <1>3, <1>4, <1>7, <2>1, <2>2 DEF SpillLast
<1>9. mn.regs[RCX] = n + 1 /\ \A q \in Reg : q # RCX => mn.regs[q] = mm.regs[q]
  BY <1>2, <1>3, <1>4
<1>10. mn.stack # <<>> /\ mn.stack[Len(mn.stack)] = mm.regs[RCX]
  BY <1>2, <1>3, <1>4
<1>11. ASSUME NEW i \in 1..(n + 1)
       PROVE  mn.regs[Name(g[i])] = i \/ (Newest(g) /\ i < n + 1 /\ g[i].which = RCX)
  <2>1. CASE i = n + 1
    BY <1>5, <1>6, <1>9, <2>1 DEF Name
  <2>2. CASE i # n + 1
    <3>1. i \in 1..n /\ i < n + 1 /\ g[i] \in Handle
      BY <1>5, <2>2
    <3>2. g[i].which \in Reg
      BY <3>1 DEF Handle
    <3> QED
      BY <1>6, <1>7, <1>9, <3>1, <3>2
  <2> QED
    BY <2>1, <2>2
<1>12. \A i \in 1..n : g[i].which = RCX => mn.stack[Len(mn.stack)] = i
  BY <1>7, <1>10
<1>13. Values(mn, g, s)
  <2>1. Len(g) - 1 = n
    BY <1>5
  <2> QED
    BY <1>5, <1>10, <1>11, <1>12, <2>1 DEF Values
<1> QED
  BY <1>8, <1>13 DEF Safe

LEMMA LeafSafe == ASSUME Bookkeeping, Undisturbed, Leaf  PROVE Undisturbed'
<1> SUFFICES ASSUME causes' = {}
             PROVE  phase' \in {"ok", "asm"} /\ (phase' = "ok" => Safe(m', held', loops', todo'))
  BY DEF Undisturbed
<1> DEFINE x == GimmeReg(m)
<1>1. PICK task \in Operand : At(task)
  BY DEF Leaf, Operand
<1>2. /\ causes = {} /\ Then(<<>>) /\ UNCHANGED <<leaked, loops, phase>>
      /\ held' = Append(held, x) /\ m' = Gimme(m, N + 1) /\ SharesRcx(x) = {}
  BY DEF Leaf
<1>3. task \notin {"call", "call_with_args"} /\ task \notin Consumer
  BY DEF Operand, Type, Consumer
<1>4. /\ phase = "ok" /\ todo # <<>> /\ Head(todo) = task /\ Fits(todo, N)
      /\ held \in Seq(Handle) /\ m \in Machine(Tokens(N)) /\ N \in Nat /\ Tail(todo) \in Seq(Work)
  BY <1>1, AtIs
<1>5. todo' = Tail(todo) /\ First(todo') \in Follower
  <2>1. todo' = Tail(todo)
    BY <1>2, <1>4, ThenNothing
  <2>2. Tail(todo) # <<>> /\ Head(Tail(todo)) \in Follower
    BY <1>1, <1>4, FitsTail
  <2> QED
    BY <2>1, <2>2 DEF First
<1>6. /\ Safe(m, held, loops, todo) /\ N = Len(held) /\ Owned(m.used, held, leaked)
      /\ Len(m.stack) \in Nat /\ loops \in Nat
  BY <1>1, <1>2, SafeAt
<1>7. x \in Handle /\ (x.spilled <=> m.used = Reg)
  BY <1>4, GimmeRegType
<1> HIDE DEF x
<1>8. ~Newest(held) /\ Extra(held) = 0
  <2>1. CASE x.spilled
    <3>1. ~(N > 0 /\ Name(R) = RCX)
      BY <1>2, <2>1 DEF SharesRcx
    <3>2. ASSUME Newest(held)  PROVE FALSE
      <4>1. N > 0 /\ R.spilled
        BY <1>4, <1>6, <3>2 DEF Newest, R
      <4> QED
        BY <3>1, <4>1 DEF Name
    <3> QED
      BY <3>2 DEF Extra
  <2>2. CASE ~x.spilled
    BY <1>6, <1>7, <2>2, FreeSafe DEF Safe
  <2> QED
    BY <2>1, <2>2
<1>9. Kept(m, held, N)
  BY <1>1, <1>2, <1>3, <1>8, SafeAt
<1>10. /\ held' \in Seq(Handle) /\ held' # <<>> /\ Len(held') = N + 1 /\ held'[N + 1] = x
       /\ \A i \in 1..N : held'[i] = held[i]
  BY <1>2, <1>4, <1>6, <1>7, AppendIs
<1>11. Loaded(m, m', x, N + 1)
  <2>1. Tokens(N) \subseteq Tokens(N + 1) /\ N + 1 \in Tokens(N + 1)
    BY <1>4 DEF Tokens
  <2>2. m \in Machine(Tokens(N + 1))
    BY <1>4, <2>1, MachineMono
  <2> QED
    BY <1>2, <2>1, <2>2, GimmeLoads DEF x
<1>12. Len(m'.stack) = Len(m.stack) + Spill(x) /\ Extra(held') = Spill(x)
  <2>1. m.stack \in Seq(Tokens(N)) /\ m.regs \in [Reg -> Tokens(N)]
    BY <1>4 DEF Machine
  <2>2. RCX \in Reg
    BY RcxIsReg
  <2>3. Len(m'.stack) = Len(m.stack) + Spill(x)
    <3>1. CASE x.spilled
      BY <1>6, <1>11, <2>1, <2>2, <3>1 DEF Loaded, Spill
    <3>2. CASE ~x.spilled
      BY <1>6, <1>11, <3>2 DEF Loaded, Spill
    <3> QED
      BY <3>1, <3>2
  <2> QED
    BY <1>10, <2>3 DEF Extra, Newest, Spill
<1>13. Words(m', held', loops', todo')
  <2>1. Len(m'.stack) = Len(m.stack) + (Extra(held') - Extra(held)) + (loops - loops)
    BY <1>6, <1>8, <1>12 DEF Spill
  <2>2. Words(m, held, loops, todo)
    BY <1>6 DEF Safe
  <2> QED
    BY <1>2, <1>3, <1>4, <1>5, <1>6, <2>1, <2>2, WordsTail
<1>14. Safe(m', held', loops', todo')
  <2>1. CASE x.spilled
    <3>1. N > 0 => Name(held[N]) # RCX
      BY <1>2, <2>1 DEF SharesRcx, R
    <3> QED
      BY <1>2, <1>4, <1>5, <1>6, <1>9, <1>13, <2>1, <3>1, SpilledSafe DEF x
  <2>2. CASE ~x.spilled
    <3>1. N + 1 \in Tokens(N + 1)
      BY <1>4 DEF Tokens
    <3>2. Kept(m', held, N) /\ m'.regs[x.which] = N + 1
      <4>1. Gains(m, held, Gimme(m, N + 1), GimmeReg(m), N + 1)
        BY <1>4, <1>6, <1>9, <2>2, <3>1, TakenKept DEF x
      <4> QED
        BY <1>2, <1>6, <4>1 DEF Gains, x
    <3>3. ASSUME NEW i \in 1..Len(held')  PROVE ~held'[i].spilled /\ m'.regs[held'[i].which] = i
      <4>1. i \in 1..N \/ i = N + 1
        BY <1>4, <1>10
      <4> QED
        BY <1>10, <2>2, <3>2, <4>1 DEF Kept
    <3>4. Kept(m', held', Len(held'))
      BY <3>3 DEF Kept
    <3> QED
      BY <1>10, <1>13, <3>4, KeptSafe
  <2> QED
    BY <2>1, <2>2
<1> QED
  BY <1>2, <1>4, <1>14

LEMMA VariableSafe == ASSUME Bookkeeping, Undisturbed, Variable  PROVE Undisturbed'
<1> SUFFICES ASSUME causes' = {}
             PROVE  phase' \in {"ok", "asm"} /\ (phase' = "ok" => Safe(m', held', loops', todo'))
  BY DEF Undisturbed
<1>1. /\ causes = {} /\ At("variable") /\ Then(<<>>) /\ UNCHANGED <<held, loops, phase>>
      /\ m' = Gimme(m, 0) /\ ~GimmeReg(m).spilled
      /\ "variable" \notin {"call", "call_with_args"}
  BY DEF Variable, LeaksSpilled
<1>2. /\ phase = "ok" /\ todo' = Tail(todo) /\ m \in Machine(Tokens(N)) /\ N \in Nat
      /\ held \in Seq(Handle)
  BY <1>1, AtIs, ThenNothing
<1>3. /\ Safe(m, held, loops, todo) /\ N = Len(held) /\ Owned(m.used, held, leaked)
      /\ Len(m.stack) \in Nat /\ loops \in Nat
  BY <1>1, SafeAt
<1>4. ~Newest(held) /\ Extra(held) = 0
  <2>1. m.used # Reg
    BY <1>1, <1>2, GimmeRegType
  <2> QED
    BY <1>3, <2>1, FreeSafe DEF Safe
<1>5. Kept(m, held, N)
  BY <1>1, <1>4, SafeAt
<1>6. Kept(m', held, N) /\ m'.stack = m.stack
  <2>1. 0 \in Tokens(N + 1)
    BY <1>2 DEF Tokens
  <2>2. Gains(m, held, Gimme(m, 0), GimmeReg(m), 0)
    BY <1>1, <1>2, <1>3, <1>5, <2>1, TakenKept
  <2> QED
    BY <1>1, <1>3, <2>2 DEF Gains
<1>7. loops' \in Int /\ Len(m'.stack) = Len(m.stack) + (loops' - loops)
  BY <1>1, <1>3, <1>6
<1>8. Safe(m', held', loops', todo')
  BY <1>1, <1>2, <1>4, <1>6, <1>7, StaysSafe
<1> QED
  BY <1>1, <1>2, <1>8

LEMMA ArgumentSafe == ASSUME Bookkeeping, Undisturbed, Argument  PROVE Undisturbed'
<1> SUFFICES ASSUME causes' = {}
             PROVE  phase' \in {"ok", "asm"} /\ (phase' = "ok" => Safe(m', held', loops', todo'))
  BY DEF Undisturbed
<1>1. /\ causes = {} /\ At("arg") /\ UNCHANGED <<loops, phase>> /\ ~R.spilled
      /\ held' = Shorter(1) /\ Needs("arg") = 1 /\ m' = Forget(Push(m, 0), N..N)
      /\ Then(<<>>) \/ Then(<<"int", "arg">>)
  BY DEF Argument, Needs, Drop, LeaksSpilled
<1>2. /\ phase = "ok" /\ todo # <<>> /\ Head(todo) = "arg" /\ Fits(todo, N) /\ N \in Nat
      /\ held \in Seq(Handle) /\ N >= 1 /\ Tail(todo) \in Seq(Work) /\ m \in Machine(Tokens(N))
  BY <1>1, AtIs
<1>3. todo' \in Seq(Work) /\ todo' # <<>> /\ Head(todo') # "call" /\ "call_with_args" \in In(todo')
  <2>1. CASE Then(<<>>)
    <3>1. todo' = Tail(todo) /\ Tail(todo) # <<>> /\ Head(Tail(todo)) = "call_with_args"
      BY <1>2, <2>1, ThenNothing, FitsTail
    <3> DEFINE t == todo'
    <3>2. t \in Seq(Work) /\ t # <<>> /\ Head(t) = "call_with_args"
      BY <1>2, <3>1
    <3> HIDE DEF t
    <3>3. 1 \in DOMAIN t /\ t[1] = "call_with_args"
      BY <3>2
    <3> QED
      BY <3>2, <3>3 DEF In, t
  <2>2. CASE Then(<<"int", "arg">>)
    <3>1. todo' = <<"int", "arg">> \o Tail(todo)
      BY <2>2 DEF Then
    <3> QED
      BY <1>2, <3>1, MoreFits DEF Fits
  <2> QED
    BY <1>1, <2>1, <2>2
<1>4. First(todo') # "call"
  BY <1>3 DEF First
<1>5. Safe(m, held, loops, todo) /\ N = Len(held) /\ First(todo) = "arg"
  BY <1>1, SafeAt
<1>6. held' = Front(held) /\ held # <<>> /\ ~Newest(held)
  BY <1>1, <1>2, <1>5 DEF Shorter, Front, Newest, R, N
<1>7. /\ held' \in Seq(Handle) /\ Len(held') = N - 1
      /\ \A i \in 1..(N - 1) : held'[i] = held[i] /\ ~held[i].spilled
  BY <1>2, <1>5, <1>6, FrontIs DEF Safe, SpillLast
<1>8. ~Newest(held') /\ \A i \in 1..(Len(held') - 1) : ~held'[i].spilled
  <2> DEFINE g == held'
  <2>1. g \in Seq(Handle) /\ Len(g) = N - 1 /\ \A i \in 1..(N - 1) : ~g[i].spilled
    BY <1>7
  <2> HIDE DEF g
  <2>2. g # <<>> => Len(g) \in 1..(N - 1)
    BY <2>1
  <2>3. \A i \in 1..(Len(g) - 1) : i \in 1..(N - 1)
    BY <1>2, <2>1
  <2> QED
    BY <2>1, <2>2, <2>3 DEF Newest, g
<1>9. ASSUME NEW i \in 1..Len(held') PROVE m'.regs[Name(held'[i])] = i
  <2>1. i \in 1..(N - 1) /\ i \in 1..N /\ i # N
    BY <1>2, <1>7
  <2>2. held'[i] = held[i] /\ m.regs[Name(held[i])] = i
    BY <1>5, <1>6, <1>7, <2>1 DEF Safe, Values
  <2>3. Name(held[i]) \in Reg
    <3>1. held[i] \in Handle
      BY <1>2, <1>5, <2>1
    <3> QED
      BY <3>1, RcxIsReg DEF Name, Handle
  <2>4. m'.regs[Name(held[i])] = IF m.regs[Name(held[i])] \in N..N THEN 0 ELSE m.regs[Name(held[i])]
    BY <1>1, <1>2, <2>3 DEF Forget, Push, Machine
  <2>5. i \notin N..N
    BY <2>1
  <2> QED
    BY <2>2, <2>4, <2>5
<1>10. Safe(m', held', loops', todo')
  BY <1>3, <1>4, <1>8, <1>9 DEF Safe, SpillLast, Values, Words
<1> QED
  BY <1>1, <1>2, <1>10

(* An instruction about to read its operands finds them: see Misread. *)
LEMMA NoMisread ==
  ASSUME Bookkeeping, Undisturbed, causes = {}, phase = "ok", todo # <<>>
  PROVE  ~Misreads
<1>1. /\ held \in Seq(Handle) /\ N \in Nat /\ N = Len(held) /\ Fits(todo, N)
      /\ Safe(m, held, loops, todo) /\ First(todo) = Head(todo)
  BY DEF Bookkeeping, Book, Undisturbed, First, N
<1>2. N >= Needs(Head(todo))
  BY <1>1, FitsTail
<1> SUFFICES ASSUME NEW i \in Operands  PROVE Intact(m, i)
  BY DEF Misreads
<1>3. /\ Head(todo) \in {"op", "rel", "assign", "test", "again", "cond", "arg", "write"}
      /\ i \in {N - 1, N} /\ (i = N - 1 => Needs(Head(todo)) = 2) /\ Needs(Head(todo)) >= 1
  <2> DEFINE w == Head(todo)
  <2>1. CASE w \in {"op", "rel", "assign", "test", "again"}
    BY <2>1 DEF Operands, Needs
  <2>2. CASE w \notin {"op", "rel", "assign", "test", "again"} /\ w \in {"cond", "arg", "write"}
    <3>1. Operands = {N} /\ Needs(w) = 1 /\ N # N - 1
      BY <1>1, <2>2 DEF Operands, Needs
    <3> QED
      BY <2>2, <3>1
  <2>3. CASE w \notin {"op", "rel", "assign", "test", "again"} /\ w \notin {"cond", "arg", "write"}
    <3>1. Operands = {}
      BY <2>3 DEF Operands
    <3> QED
      BY <3>1
  <2> QED
    BY <2>1, <2>2, <2>3
<1>4. Newest(held) => Head(todo) \in Consumer
  <2>1. Head(todo) \in {"test", "again"} => Head(todo) \notin Follower \cup {"call"}
    BY DEF Follower, Consumer, Type
  <2>2. Newest(held) => Head(todo) \in Follower \cup {"call"}
    BY <1>1 DEF Safe, SpillLast
  <2> QED
    BY <1>3, <2>1, <2>2 DEF Consumer
<1>5. Ready(m, held)
  <2>1. First(todo) # "call_with_args"
    BY <1>1, <1>3
  <2> QED
    BY <1>1, <1>4, <2>1, SafeReady
<1>6. CASE i = N
  <2>1. held # <<>>
    <3>1. N >= 1
      <4>1. Needs(Head(todo)) \in Nat
        BY DEF Needs
      <4> QED
        BY <1>1, <1>2, <1>3, <4>1
    <3> QED
      BY <1>1, <3>1
  <2> QED
    BY <1>1, <1>5, <1>6, <2>1 DEF Ready, Intact
<1>7. CASE i = N - 1
  <2>1. N >= 2 /\ N > 1 /\ N - 1 \in 1..(N - 1)
    BY <1>1, <1>2, <1>3, <1>7
  <2>2. ~held[N - 1].spilled /\ Under(m, held, held[N - 1].which) = N - 1
    BY <1>1, <1>5, <2>1 DEF Ready
  <2>3. Newest(held) => held[N - 1].which # RCX
    BY <1>1, <1>5, <2>1 DEF Ready
  <2> QED
    BY <1>7, <2>2, <2>3 DEF Under, Intact, Name
<1> QED
  BY <1>3, <1>6, <1>7

LEMMA StopSafe == ASSUME Bookkeeping, Undisturbed, Misread \/ CompareFails  PROVE Undisturbed'
<1>1. CASE Misread
  BY <1>1, NoMisread DEF Misread, Undisturbed
<1>2. CASE CompareFails
  BY <1>2 DEF CompareFails, Undisturbed
<1> QED
  BY <1>1, <1>2

(* A construct begun: its operands are to come, and the operands alive     *)
(* stay; before a call, the registers are saved.                           *)
LEMMA BeginSafe ==
  ASSUME Bookkeeping, Undisturbed, causes = {}, NEW task \in Operand \cup {"stmts"}, At(task),
         held' = held, loops' = loops, todo' # <<>>,
         Head(todo') \in Type \cup {"lvalue", "newline", "written", "call"},
         task # "stmts" => Head(todo') \in Type \cup {"call"},
         "call_with_args" \in In(Tail(todo)) => "call_with_args" \in In(todo'),
         \/ m' = m /\ Head(todo') # "call"
         \/ m' = Save(m) /\ (Head(todo') = "call" \/ "call_with_args" \in In(todo'))
  PROVE  Safe(m', held', loops', todo')
<1>1. /\ Safe(m, held, loops, todo) /\ First(todo) = task /\ N = Len(held)
      /\ task \notin Follower \cup {"call"} => ~Newest(held)
  BY SafeAt
<1>2. /\ todo # <<>> /\ Head(todo) = task /\ Fits(todo, N) /\ m \in Machine(Tokens(N)) /\ N \in Nat
  BY AtIs
<1>3. First(todo') = Head(todo')
  BY DEF First
<1>4. m'.used = m.used /\ m'.regs = m.regs
  BY <1>2, SaveType
<1>5. SpillLast(m', held', todo')
  <2>1. task = "stmts" => ~Newest(held)
    BY <1>1 DEF Follower, Consumer, Type
  <2>2. task # "stmts" => First(todo') \in Follower \cup {"call"}
    BY <1>3 DEF Follower
  <2> QED
    BY <1>1, <1>4, <2>1, <2>2 DEF Safe, SpillLast
<1>6. Values(m', held', todo')
  <2>1. First(todo) # "call_with_args" /\ First(todo') \notin Consumer
    BY <1>1, <1>3 DEF Operand, Type, Consumer
  <2> QED
    BY <1>1, <1>4, <2>1 DEF Safe, Values
<1>7. First(todo) # "call" /\ ("call_with_args" \in In(todo) => "call_with_args" \in In(todo'))
  <2>1. In(todo) = {task} \cup In(Tail(todo))
    BY <1>2, FitsTail
  <2>2. task \notin {"call", "call_with_args"}
    BY DEF Operand, Type
  <2> QED
    BY <1>1, <2>1, <2>2
<1>8. Words(m, held, loops, todo)
  BY <1>1 DEF Safe
<1>9. Words(m', held', loops', todo')
  <2>1. CASE First(todo') = "call"
    <3>1. m' = Save(m)
      BY <1>3, <2>1
    <3>2. m \in Machine(Int)
      <4>1. Tokens(N) \subseteq Int
        BY <1>2 DEF Tokens, RBP
      <4> QED
        BY <1>2, <4>1, MachineMono
    <3>3. "call_with_args" \notin In(todo') => Len(m.stack) = loops + Extra(held)
      BY <1>7, <1>8 DEF Words
    <3> QED
      BY <1>4, <2>1, <3>1, <3>2, <3>3 DEF Words
  <2>2. CASE First(todo') # "call"
    <3>1. "call_with_args" \notin In(todo') => m' = m
      BY <1>3, <2>2
    <3> QED
      BY <1>7, <1>8, <2>2, <3>1 DEF Words
  <2> QED
    BY <2>1, <2>2
<1> QED
  BY <1>5, <1>6, <1>9 DEF Safe

LEMMA BinarySafe == ASSUME Bookkeeping, Undisturbed, Binary  PROVE Undisturbed'
<1> SUFFICES ASSUME causes' = {}
             PROVE  phase' \in {"ok", "asm"} /\ (phase' = "ok" => Safe(m', held', loops', todo'))
  BY DEF Undisturbed
<1>1. causes = {} /\ UNCHANGED <<m, held, loops, phase>>
  BY DEF Binary
<1>2. PICK task \in Type, t \in Type, o \in {"op", "rel"} : At(task) /\ Then(<<t, t, o>>)
  BY DEF Binary, Type
<1>3. /\ phase = "ok" /\ todo # <<>> /\ Head(todo) = task /\ Fits(todo, N)
  BY <1>2, AtIs
<1>4. /\ todo' # <<>> /\ Head(todo') = t /\ In(todo') = {t, o} \cup In(Tail(todo))
  BY <1>2, <1>3, BinaryFits DEF Then
<1>5. /\ task \in Operand \cup {"stmts"} /\ t \in Type \cup {"call"} /\ t # "call"
      /\ t \in Type \cup {"lvalue", "newline", "written", "call"}
  BY DEF Operand, Type
<1>6. Safe(m', held', loops', todo')
  BY <1>1, <1>2, <1>4, <1>5, BeginSafe
<1> QED
  BY <1>1, <1>3, <1>6

LEMMA CallSafe ==
  ASSUME Bookkeeping, Undisturbed, NEW args \in BOOLEAN, Call(args)  PROVE Undisturbed'
<1> SUFFICES ASSUME causes' = {}
             PROVE  phase' \in {"ok", "asm"} /\ (phase' = "ok" => Safe(m', held', loops', todo'))
  BY DEF Undisturbed
<1>1. causes = {} /\ UNCHANGED <<held, loops, phase>> /\ m' = Save(m) /\ Then(CallWork(args))
  BY DEF Call
<1>2. PICK task \in Type : At(task)
  BY DEF Call
<1>3. phase = "ok" /\ todo # <<>> /\ Head(todo) = task /\ Fits(todo, N)
  BY <1>2, AtIs
<1>4. /\ todo' # <<>> /\ Head(todo') \in {"int", "call"}
      /\ Head(todo') = "call" \/ "call_with_args" \in In(todo')
      /\ "call_with_args" \in In(Tail(todo)) => "call_with_args" \in In(todo')
  <2>1. CASE ~args
    <3>1. todo' = <<"call">> \o Tail(todo)
      BY <1>1, <2>1 DEF Then, CallWork
    <3> QED
      BY <1>2, <1>3, <3>1, CallFits
  <2>2. CASE args
    <3>1. todo' = <<"int", "arg", "call_with_args">> \o Tail(todo)
      BY <1>1, <2>2 DEF Then, CallWork
    <3> QED
      BY <1>2, <1>3, <3>1, CallFits
  <2> QED
    BY <2>1, <2>2
<1>5. /\ task \in Operand \cup {"stmts"} /\ Head(todo') \in Type \cup {"call"}
      /\ Head(todo') \in Type \cup {"lvalue", "newline", "written", "call"}
  BY <1>4 DEF Operand, Type
<1>6. Safe(m', held', loops', todo')
  BY <1>1, <1>2, <1>4, <1>5, BeginSafe
<1> QED
  BY <1>1, <1>3, <1>6

(* Statements. *)
LEMMA StmtSafe ==
  ASSUME Bookkeeping, Undisturbed, At("stmts"), NEW w, Then(w),
         w \o Tail(todo) # <<>>,
         Head(w \o Tail(todo)) \in Type \cup {"lvalue", "newline", "written", "call"},
         \/ m' = m /\ Head(w \o Tail(todo)) # "call"
         \/ /\ m' = Save(m)
            /\ \/ Head(w \o Tail(todo)) = "call"
               \/ "call_with_args" \in In(w \o Tail(todo)),
         UNCHANGED <<held, leaked, loops, phase, causes>>
  PROVE  Undisturbed'
<1> SUFFICES ASSUME causes' = {}
             PROVE  phase' \in {"ok", "asm"} /\ (phase' = "ok" => Safe(m', held', loops', todo'))
  BY DEF Undisturbed
<1>1. causes = {} /\ todo' = w \o Tail(todo) /\ held' = held /\ loops' = loops /\ phase' = phase
  BY DEF Then
<1>2. phase = "ok" /\ todo # <<>> /\ Head(todo) = "stmts" /\ Fits(todo, N)
  BY AtIs
<1>3. "call_with_args" \notin In(Tail(todo)) /\ "stmts" \in Operand \cup {"stmts"}
  BY <1>2, StmtsFits
<1>4. Safe(m', held', loops', todo')
  BY <1>1, <1>3, BeginSafe
<1> QED
  BY <1>1, <1>2, <1>4

LEMMA IndexSafe == ASSUME Bookkeeping, Undisturbed, Index  PROVE Undisturbed'
<1> SUFFICES ASSUME causes' = {}
             PROVE  phase' \in {"ok", "asm"} /\ (phase' = "ok" => Safe(m', held', loops', todo'))
  BY DEF Undisturbed
<1>1. PICK task \in Operand : At(task)
  BY DEF Index, Operand
<1>2. /\ causes = {} /\ Then(<<"int">>) /\ UNCHANGED <<held, loops, phase>>
      /\ m' = Gimme(m, 0) /\ ~GimmeReg(m).spilled
  BY DEF Index, LeaksSpilled
<1>3. task \notin {"call", "call_with_args"}
  BY DEF Operand, Type
<1>4. /\ phase = "ok" /\ todo # <<>> /\ Head(todo) = task /\ Fits(todo, N)
      /\ held \in Seq(Handle) /\ m \in Machine(Tokens(N)) /\ N \in Nat
  BY <1>1, AtIs
<1>5. /\ todo' # <<>> /\ Head(todo') = "int" /\ In(todo') = {"int"} \cup In(Tail(todo))
  BY <1>1, <1>2, <1>4, IndexFits DEF Then
<1>6. /\ Safe(m, held, loops, todo) /\ First(todo) = task /\ N = Len(held)
      /\ Owned(m.used, held, leaked)
  BY <1>1, <1>2, SafeAt
<1>7. ~Newest(held) /\ Extra(held) = 0
  <2>1. m.used # Reg
    BY <1>2, <1>4, GimmeRegType
  <2> QED
    BY <1>6, <2>1, FreeSafe DEF Safe
<1>8. Kept(m, held, N)
  BY <1>1, <1>2, <1>3, <1>7, SafeAt
<1>9. Kept(m', held, N) /\ m'.stack = m.stack
  <2>1. 0 \in Tokens(N + 1)
    BY <1>4 DEF Tokens
  <2>2. Gains(m, held, Gimme(m, 0), GimmeReg(m), 0)
    BY <1>2, <1>4, <1>6, <1>8, <2>1, TakenKept
  <2> QED
    BY <1>2, <1>6, <2>2 DEF Gains
<1>10. Words(m', held', loops', todo')
  <2>1. Words(m, held, loops, todo)
    BY <1>6 DEF Safe
  <2>2. First(todo') = "int"
    BY <1>5 DEF First
  <2>3. In(todo) = {task} \cup In(Tail(todo))
    BY <1>4, FitsTail
  <2> QED
    BY <1>2, <1>3, <1>5, <1>6, <1>9, <2>1, <2>2, <2>3 DEF Words
<1>11. Safe(m', held', loops', todo')
  BY <1>2, <1>4, <1>6, <1>9, <1>10, KeptSafe
<1> QED
  BY <1>2, <1>4, <1>11

LEMMA StartAssignSafe == ASSUME Bookkeeping, Undisturbed, StartAssign  PROVE Undisturbed'
<1>1. PICK t \in Type : Then(<<"lvalue", t, "assign", "stmts">>)
  BY DEF StartAssign
<1>2. At("stmts") /\ m' = m /\ UNCHANGED <<held, leaked, loops, phase, causes>>
  BY DEF StartAssign, Stmt
<1>3. todo # <<>> /\ Head(todo) = "stmts" /\ Fits(todo, N)
  BY <1>2, AtIs
<1>4. /\ <<"lvalue", t, "assign", "stmts">> \o Tail(todo) # <<>>
      /\ Head(<<"lvalue", t, "assign", "stmts">> \o Tail(todo)) = "lvalue"
  BY <1>3, AssignFits
<1> QED
  BY <1>1, <1>2, <1>4, StmtSafe

LEMMA StartConditionalSafe ==
  ASSUME Bookkeeping, Undisturbed, StartConditional  PROVE Undisturbed'
<1>1. PICK w \in {<<"bool", "cond", "stmts", "stmts">>, <<"bool", "cond", "stmts", "stmts", "stmts">>} :
        Then(w)
  BY DEF StartConditional
<1>2. At("stmts") /\ m' = m /\ UNCHANGED <<held, leaked, loops, phase, causes>>
  BY DEF StartConditional, Stmt
<1>3. todo # <<>> /\ Head(todo) = "stmts" /\ Fits(todo, N)
  BY <1>2, AtIs
<1>4. w \o Tail(todo) # <<>> /\ Head(w \o Tail(todo)) = "bool"
  BY <1>3, IfFits, IfElseFits
<1>5. "bool" \in Type \cup {"lvalue", "newline", "written", "call"}
  BY DEF Type
<1> QED
  BY <1>1, <1>2, <1>4, <1>5, StmtSafe

LEMMA StartForSafe == ASSUME Bookkeeping, Undisturbed, StartFor  PROVE Undisturbed'
<1>1. /\ At("stmts") /\ m' = m /\ UNCHANGED <<held, leaked, loops, phase, causes>>
      /\ Then(<<"int", "int", "variable", "test", "stmts", "again", "stmts">>)
  BY DEF StartFor, Stmt
<1>2. todo # <<>> /\ Head(todo) = "stmts" /\ Fits(todo, N)
  BY <1>1, AtIs
<1>3. /\ <<"int", "int", "variable", "test", "stmts", "again", "stmts">> \o Tail(todo) # <<>>
      /\ Head(<<"int", "int", "variable", "test", "stmts", "again", "stmts">> \o Tail(todo)) = "int"
  BY <1>2, ForFits
<1>4. "int" \in Type \cup {"lvalue", "newline", "written", "call"}
  BY DEF Type
<1> QED
  BY <1>1, <1>3, <1>4, StmtSafe

LEMMA StartProcSafe ==
  ASSUME Bookkeeping, Undisturbed, NEW args \in BOOLEAN, StartProc(args)  PROVE Undisturbed'
<1>1. /\ At("stmts") /\ m' = Save(m) /\ UNCHANGED <<held, leaked, loops, phase, causes>>
      /\ Then(CallWork(args) \o <<"discard", "stmts">>)
  BY DEF StartProc, Stmt
<1>2. todo # <<>> /\ Head(todo) = "stmts" /\ Fits(todo, N)
  BY <1>1, AtIs
<1>3. CASE ~args
  <2>1. Then(<<"call", "discard", "stmts">>)
    BY <1>1, <1>3, ProcWork DEF CallWork
  <2>2. /\ <<"call", "discard", "stmts">> \o Tail(todo) # <<>>
        /\ Head(<<"call", "discard", "stmts">> \o Tail(todo)) = "call"
    BY <1>2, ProcFits
  <2> QED
    BY <1>1, <2>1, <2>2, StmtSafe
<1>4. CASE args
  <2>1. Then(<<"int", "arg", "call_with_args", "discard", "stmts">>)
    <3> DEFINE w == <<"int", "arg", "call_with_args", "discard", "stmts">>
    <3>1. CallWork(args) \o <<"discard", "stmts">> = w
      BY <1>4, ProcWork DEF CallWork
    <3> HIDE DEF w
    <3>2. Then(w)
      BY <1>1, <3>1
    <3> QED
      BY <3>2 DEF w
  <2>2. /\ <<"int", "arg", "call_with_args", "discard", "stmts">> \o Tail(todo) # <<>>
        /\ Head(<<"int", "arg", "call_with_args", "discard", "stmts">> \o Tail(todo)) = "int"
        /\ "call_with_args" \in In(<<"int", "arg", "call_with_args", "discard", "stmts">> \o Tail(todo))
    BY <1>2, ProcArgsFits
  <2>3. "int" \in Type \cup {"lvalue", "newline", "written", "call"}
    BY DEF Type
  <2> QED
    BY <1>1, <2>1, <2>2, <2>3, StmtSafe
<1> QED
  BY <1>3, <1>4

LEMMA StartWriteSafe == ASSUME Bookkeeping, Undisturbed, StartWrite  PROVE Undisturbed'
<1>1. PICK arg \in {<<>>, <<"int", "write">>, <<"bool", "write">>},
           end \in {<<"written">>, <<"newline", "written">>} : Then(arg \o end \o <<"stmts">>)
  BY DEF StartWrite
<1>2. At("stmts") /\ m' = m /\ UNCHANGED <<held, leaked, loops, phase, causes>>
  BY DEF StartWrite, Stmt
<1>3. todo # <<>> /\ Head(todo) = "stmts" /\ Fits(todo, N)
  BY <1>2, AtIs
<1>4. CASE arg = <<>> /\ end = <<"written">>
  <2> DEFINE w == <<"written", "stmts">>
  <2>1. arg \o end \o <<"stmts">> = w
    BY <1>4, WriteWork DEF Type
  <2>2. w \o Tail(todo) # <<>> /\ Head(w \o Tail(todo)) = "written"
    BY <1>3, WriteFits
  <2> HIDE DEF w
  <2> QED
    BY <1>1, <1>2, <2>1, <2>2, StmtSafe
<1>5. CASE arg = <<>> /\ end = <<"newline", "written">>
  <2> DEFINE w == <<"newline", "written", "stmts">>
  <2>1. arg \o end \o <<"stmts">> = w
    BY <1>5, WriteWork DEF Type
  <2>2. w \o Tail(todo) # <<>> /\ Head(w \o Tail(todo)) = "newline"
    BY <1>3, WritelnFits
  <2> HIDE DEF w
  <2> QED
    BY <1>1, <1>2, <2>1, <2>2, StmtSafe
<1>6. ASSUME NEW t \in Type, arg = <<t, "write">>, end = <<"written">>  PROVE Undisturbed'
  <2> DEFINE w == <<t, "write", "written", "stmts">>
  <2>1. arg \o end \o <<"stmts">> = w
    BY <1>6, WriteWork
  <2>2. w \o Tail(todo) # <<>> /\ Head(w \o Tail(todo)) = t
    BY <1>3, WriteValueFits
  <2>3. t \in Type \cup {"lvalue", "newline", "written", "call"} /\ t # "call"
    BY DEF Type
  <2> HIDE DEF w
  <2> QED
    BY <1>1, <1>2, <2>1, <2>2, <2>3, StmtSafe
<1>7. ASSUME NEW t \in Type, arg = <<t, "write">>, end = <<"newline", "written">>
      PROVE  Undisturbed'
  <2> DEFINE w == <<t, "write", "newline", "written", "stmts">>
  <2>1. arg \o end \o <<"stmts">> = w
    BY <1>7, WriteWork
  <2>2. w \o Tail(todo) # <<>> /\ Head(w \o Tail(todo)) = t
    BY <1>3, WritelnValueFits
  <2>3. t \in Type \cup {"lvalue", "newline", "written", "call"} /\ t # "call"
    BY DEF Type
  <2> HIDE DEF w
  <2> QED
    BY <1>1, <1>2, <2>1, <2>2, <2>3, StmtSafe
<1>8. arg = <<>> \/ \E t \in Type : arg = <<t, "write">>
  BY <1>1 DEF Type
<1> QED
  BY <1>1, <1>4, <1>5, <1>6, <1>7, <1>8

LEMMA AgainSafe == ASSUME Bookkeeping, Undisturbed, Again  PROVE Undisturbed'
<1> SUFFICES ASSUME causes' = {}
             PROVE  phase' \in {"ok", "asm"} /\ (phase' = "ok" => Safe(m', held', loops', todo'))
  BY DEF Undisturbed
<1> DEFINE stored == [m EXCEPT !.stack = IF @ = <<>> THEN @ ELSE [@ EXCEPT ![Len(@)] = 0]]
           st == IF m.stack = <<>> THEN m.stack ELSE [m.stack EXCEPT ![Len(m.stack)] = 0]
           f == Forget(stored, (N - 1)..N)
           a == Takeback(f, R)
<1>1. /\ causes = {} /\ At("again") /\ Then(<<>>) /\ UNCHANGED <<leaked, loops, phase>>
      /\ m' = Takeback(a, L) /\ held' = Shorter(2) /\ Needs("again") = 2
      /\ "again" \notin Follower \cup {"call"} /\ "again" \notin {"call", "call_with_args"}
  BY DEF Again, Drop, Needs, Follower, Consumer, Type
<1>2. /\ phase = "ok" /\ todo' = Tail(todo) /\ m \in Machine(Tokens(N)) /\ N \in Nat /\ N >= 2
      /\ held \in Seq(Handle) /\ N = Len(held)
  BY <1>1, AtIs, ThenNothing DEF N
<1>3. Extra(held) = 0 /\ Kept(m, held, N) /\ loops \in Nat /\ Len(m.stack) \in Nat
  BY <1>1, SafeAt
<1>4. L \in Handle /\ R \in Handle /\ ~L.spilled /\ ~R.spilled /\ 0 \in Tokens(N)
  <2>1. N - 1 \in 1..N /\ N \in 1..N
    BY <1>2
  <2> QED
    BY <1>2, <1>3, <2>1, TwoAlive DEF Kept, L, R, Tokens
<1>5. stored \in Machine(Tokens(N)) /\ stored.regs = m.regs /\ Len(stored.stack) = Len(m.stack)
  <2>1. m.stack \in Seq(Tokens(N))
    BY <1>2 DEF Machine
  <2>2. st \in Seq(Tokens(N)) /\ Len(st) = Len(m.stack)
    BY <1>4, <2>1, TopType
  <2>3. stored = [m EXCEPT !.stack = st]
    OBVIOUS
  <2> HIDE DEF st, stored
  <2> QED
    BY <1>2, <2>2, <2>3, StackType
<1> HIDE DEF stored
<1>6. f \in Machine(Tokens(N)) /\ Forgot(stored, f, (N - 1)..N)
  BY <1>2, <1>5, ForgetKeeps, ForgetIs
<1> HIDE DEF f
<1>7. a \in Machine(Tokens(N)) /\ a.regs = f.regs /\ a.stack = f.stack
  BY <1>4, <1>6, TakebackType
<1> HIDE DEF a
<1>8. m'.regs = f.regs /\ m'.stack = f.stack
  BY <1>1, <1>4, <1>7, TakebackType
<1>9. ASSUME NEW i \in 1..(N - 2)  PROVE ~held[i].spilled /\ m'.regs[held[i].which] = i
  <2>1. i \in 1..N /\ i \notin (N - 1)..N
    BY <1>2
  <2>2. ~held[i].spilled /\ m.regs[held[i].which] = i /\ held[i] \in Handle
    BY <1>2, <1>3, <2>1 DEF Kept
  <2>3. held[i].which \in Reg
    BY <2>2 DEF Handle
  <2> QED
    BY <1>5, <1>6, <1>8, <2>1, <2>2, <2>3 DEF Forgot
<1>10. Kept(m', held, N - 2)
  BY <1>9 DEF Kept
<1>11. N - 2 \in 0..N /\ held' = SubSeq(held, 1, N - 2)
  BY <1>1, <1>2 DEF Shorter
<1>12. loops' \in Int /\ Len(m'.stack) = Len(m.stack) - Extra(held) + (loops' - loops)
  BY <1>1, <1>3, <1>5, <1>6, <1>8 DEF Forgot
<1>13. Safe(m', held', loops', todo')
  BY <1>1, <1>2, <1>10, <1>11, <1>12, LeavesSafe
<1> QED
  BY <1>1, <1>2, <1>13

(* The word for the frame pointer, and above it the one for the result.    *)
Topped(g, s, tok) ==
  /\ s \in Machine(Int) /\ s.used = g.used /\ s.regs = g.regs
  /\ Len(s.stack) = Len(g.stack) + 2 /\ s.stack[Len(g.stack) + 2] = tok
  /\ s.stack[Len(g.stack) + 1] = RBP
  /\ \A j \in 1..Len(g.stack) : s.stack[j] = g.stack[j]

LEMMA ToppedIs ==
  ASSUME NEW g \in Machine(Int), NEW tok \in Int
  PROVE  LET s == Push(Push(g, RBP), 0)
         IN  Topped(g, [s EXCEPT !.stack[Len(s.stack)] = tok], tok)
<1> DEFINE f == Push(g, RBP)
           s == Push(f, 0)
           st == s.stack
           w == [st EXCEPT ![Len(st)] = tok]
           r == [s EXCEPT !.stack[Len(st)] = tok]
           e == Len(g.stack)
           v == Append(g.stack, RBP)
<1>1. r = [s EXCEPT !.stack = w]
  OBVIOUS
<1> HIDE DEF r, w
<1>2. RBP \in Int /\ g.stack \in Seq(Int) /\ e \in Nat
  BY DEF Machine, RBP
<1>3. f \in Machine(Int) /\ f.used = g.used /\ f.regs = g.regs /\ f.stack = v
  BY <1>2, PushType
<1> HIDE DEF f
<1>4. s \in Machine(Int) /\ s.used = g.used /\ s.regs = g.regs /\ st = Append(v, 0)
  BY <1>3, PushType
<1> HIDE DEF s
<1>5. v \in Seq(Int) /\ Len(v) = e + 1 /\ v[e + 1] = RBP /\ \A j \in 1..e : v[j] = g.stack[j]
  BY <1>2
<1> HIDE DEF v, st
<1>6. st \in Seq(Int) /\ Len(st) = e + 2 /\ \A j \in 1..(e + 1) : st[j] = v[j]
  BY <1>2, <1>4, <1>5
<1>7. st # <<>> /\ Len(st) - 1 = e + 1
  BY <1>2, <1>6
<1>8. w \in Seq(Int) /\ Len(w) = Len(st) /\ w[Len(st)] = tok
      /\ \A j \in 1..(Len(st) - 1) : w[j] = st[j]
  BY <1>6, <1>7, TopType DEF w
<1>9. r \in Machine(Int) /\ r.used = s.used /\ r.regs = s.regs /\ r.stack = w
  BY <1>1, <1>4, <1>8, StackType DEF Keeps
<1>10. w[e + 1] = RBP /\ \A j \in 1..e : w[j] = g.stack[j]
  <2>1. e + 1 \in 1..(e + 1) /\ \A j \in 1..e : j \in 1..(e + 1)
    BY <1>2
  <2> QED
    BY <1>5, <1>6, <1>7, <1>8, <2>1
<1>11. Topped(g, r, tok)
  BY <1>4, <1>6, <1>8, <1>9, <1>10 DEF Topped
<1> QED
  BY <1>11 DEF r, s, st, f

(* Registers below the number lost. *)
Cleared(s, b, k) ==
  /\ b \in Machine(Int) /\ b.used = s.used /\ b.stack = s.stack
  /\ \A q \in Reg : b.regs[q] = IF q < k THEN 0 ELSE s.regs[q]

LEMMA ClearedIs ==
  ASSUME NEW s \in Machine(Int), NEW k \in Int
  PROVE  Cleared(s, [s EXCEPT !.regs = [r \in Reg |-> IF r < k THEN 0 ELSE @[r]]], k)
<1> DEFINE f == [r \in Reg |-> IF r < k THEN 0 ELSE s.regs[r]]
           b == [s EXCEPT !.regs = [r \in Reg |-> IF r < k THEN 0 ELSE @[r]]]
<1>1. f \in [Reg -> Int] /\ \A q \in Reg : f[q] = IF q < k THEN 0 ELSE s.regs[q]
  BY DEF Machine
<1>2. b = [s EXCEPT !.regs = f]
  OBVIOUS
<1> HIDE DEF f, b
<1>3. b \in Machine(Int) /\ Keeps(s, b) /\ b.regs = f /\ b.stack = s.stack
  BY <1>1, <1>2, RegsType
<1>4. Cleared(s, b, k)
  BY <1>1, <1>3 DEF Cleared, Keeps
<1> QED
  BY <1>4 DEF b

(* The callee returns, without arguments: rbp is there to pop, the result  *)
(* is in the register taken for it, and then the stack is as before.       *)
Unwound(g, r, tok, k, p, u) ==
  /\ p.stack # <<>> /\ p.stack[Len(p.stack)] = RBP
  /\ u \in Machine(Int) /\ u.used = g.used /\ u.stack = g.stack /\ u.regs[r] = tok
  /\ \A q \in Reg : q # r /\ ~(q < k) => u.regs[q] = g.regs[q]

LEMMA UnwoundIs ==
  ASSUME NEW g \in Machine(Int), NEW r \in Reg, NEW tok \in Int, NEW k \in Int,
         NEW s, Topped(g, s, tok), NEW b, Cleared(s, b, k)
  PROVE  LET p == Pop(b, r)
         IN  Unwound(g, r, tok, k, p, [p EXCEPT !.stack = SubSeq(@, 1, Len(@) - 1)])
<1> DEFINE p == Pop(b, r)
           u == [p EXCEPT !.stack = SubSeq(@, 1, Len(@) - 1)]
           e == Len(g.stack)
<1>1. g.stack \in Seq(Int) /\ e \in Nat /\ e + 1 \in Nat /\ 0 \in Int
  BY DEF Machine
<1>2. u = [p EXCEPT !.stack = Front(p.stack)]
  BY DEF Front
<1> HIDE DEF u
<1>3. b \in Machine(Int) /\ b.used = g.used /\ Len(b.stack) = (e + 1) + 1
  BY <1>1 DEF Cleared, Topped
<1>4. p \in Machine(Int) /\ Popped(b, r, e + 1, p) /\ Keeps(b, p)
  <2> DEFINE c == e + 1
  <2>1. c \in Nat /\ b \in Machine(Int) /\ Len(b.stack) = c + 1 /\ 0 \in Int
    BY <1>1, <1>3
  <2> HIDE DEF c
  <2>2. p \in Machine(Int) /\ Popped(b, r, c, p)
    BY <2>1, PopIs
  <2>3. Keeps(b, p)
    BY <2>1, PopType DEF Keeps
  <2> QED
    BY <2>2, <2>3 DEF c
<1> HIDE DEF p
<1>5. /\ Len(p.stack) = e + 1 /\ p.regs[r] = b.stack[(e + 1) + 1]
      /\ \A j \in 1..(e + 1) : p.stack[j] = b.stack[j]
      /\ \A q \in Reg : q # r => p.regs[q] = b.regs[q]
  BY <1>4 DEF Popped
<1>6. /\ b.stack[e + 2] = tok /\ b.stack[e + 1] = RBP
      /\ \A j \in 1..e : b.stack[j] = g.stack[j]
      /\ \A q \in Reg : ~(q < k) => b.regs[q] = g.regs[q]
  BY DEF Cleared, Topped
<1>7. p.regs[r] = tok /\ p.stack[e + 1] = RBP /\ \A j \in 1..e : p.stack[j] = g.stack[j]
  <2>1. /\ (e + 1) + 1 = e + 2 /\ e + 1 \in 1..(e + 1) /\ \A j \in 1..e : j \in 1..(e + 1)
    BY <1>1
  <2> QED
    BY <1>5, <1>6, <2>1
<1>8. p.stack \in Seq(Int) /\ p.stack # <<>> /\ p.stack[Len(p.stack)] = RBP
  BY <1>1, <1>4, <1>5, <1>7 DEF Machine
<1>9. /\ Front(p.stack) \in Seq(Int) /\ Len(Front(p.stack)) = e
      /\ \A j \in 1..e : Front(p.stack)[j] = g.stack[j]
  <2>1. /\ Front(p.stack) \in Seq(Int) /\ Len(Front(p.stack)) = Len(p.stack) - 1
        /\ \A j \in 1..(Len(p.stack) - 1) : Front(p.stack)[j] = p.stack[j]
    BY <1>8, FrontIs
  <2>2. Len(p.stack) - 1 = e
    BY <1>1, <1>5
  <2> QED
    BY <1>7, <2>1, <2>2
<1>10. Front(p.stack) = g.stack
  <2> DEFINE w == Front(p.stack)
             v == g.stack
  <2>1. w \in Seq(Int) /\ v \in Seq(Int) /\ Len(w) = Len(v) /\ \A j \in 1..Len(v) : w[j] = v[j]
    BY <1>1, <1>9
  <2> HIDE DEF w, v
  <2>2. w = v
    BY <2>1, SeqEqual
  <2> QED
    BY <2>2 DEF w, v
<1>11. u \in Machine(Int) /\ u.used = p.used /\ u.regs = p.regs /\ u.stack = g.stack
  BY <1>2, <1>4, <1>9, <1>10, StackType DEF Keeps
<1>12. p.used = g.used
  BY <1>3, <1>4 DEF Keeps
<1>13. Unwound(g, r, tok, k, p, u)
  BY <1>5, <1>6, <1>7, <1>8, <1>11, <1>12 DEF Unwound
<1> QED
  BY <1>13 DEF u, p

(* The registers saved are restored, all but the one of the result.        *)
Returned(n, t, g, z) ==
  g \in Seq(Handle) /\ Len(g) = n + 1 /\ Kept(t, g, n + 1) /\ t.stack = z.stack

LEMMA ReturnKeeps ==
  ASSUME NEW n \in Nat, NEW mm \in Machine(Tokens(n)), NEW h \in Seq(Handle), Len(h) = n,
         Kept(mm, h, n), NEW l, Owned(mm.used, h, l),
         NEW x \in Handle, ~x.spilled, x.which \notin mm.used,
         NEW z \in Machine(Int), z.used = mm.used, z.regs = mm.regs, mm.stack = Save(z).stack,
         NEW k \in Int, \A i \in 1..n : h[i].which \notin 6..(k - 1),
         NEW u \in Machine(Int), u.used = mm.used \cup {x.which}, u.stack = mm.stack,
         u.regs[x.which] = n + 1,
         \A q \in Reg : q # x.which /\ ~(q < k) => u.regs[q] = mm.regs[q]
  PROVE  Returned(n, RestoreExcept(u, x), Append(h, x), z)
<1> DEFINE t == RestoreExcept(u, x)
           g == Append(h, x)
<1>1. /\ t.stack = z.stack
      /\ \A q \in Reg : t.regs[q] = IF q \in 0..5 /\ q \in z.used THEN z.regs[q] ELSE u.regs[q]
  <2>1. x.which \notin z.used /\ 0 \in Int /\ u.used = z.used \cup {x.which} /\ u.stack = Save(z).stack
    OBVIOUS
  <2> QED
    BY <2>1, RestoreUndoes
<1> HIDE DEF t
<1>2. x.which \in Reg
  BY DEF Handle
<1>3. g \in Seq(Handle) /\ Len(g) = n + 1 /\ g[n + 1] = x /\ \A i \in 1..n : g[i] = h[i]
  OBVIOUS
<1> HIDE DEF g
<1>4. ASSUME NEW i \in 1..n  PROVE ~h[i].spilled /\ t.regs[h[i].which] = i
  <2>1. ~h[i].spilled /\ mm.regs[h[i].which] = i /\ h[i] \in Handle
    BY DEF Kept
  <2> DEFINE q == h[i].which
  <2>2. q \in mm.used /\ q \in Reg /\ q \notin 6..(k - 1)
    BY <2>1 DEF Owned, Handle
  <2>3. q # x.which
    BY <2>2
  <2> HIDE DEF q
  <2>4. CASE q \in 0..5
    BY <1>1, <2>1, <2>2, <2>4 DEF q
  <2>5. CASE q \notin 0..5
    <3>1. ~(q < k)
      BY <2>2, <2>5 DEF Reg
    <3>2. t.regs[q] = u.regs[q] /\ u.regs[q] = mm.regs[q]
      BY <1>1, <2>2, <2>3, <2>5, <3>1
    <3> QED
      BY <2>1, <3>2 DEF q
  <2> QED
    BY <2>1, <2>4, <2>5 DEF q
<1>5. t.regs[x.which] = n + 1
  BY <1>1, <1>2
<1>6. Kept(t, g, n + 1)
  <2> SUFFICES ASSUME NEW i \in 1..(n + 1)  PROVE ~g[i].spilled /\ t.regs[g[i].which] = i
    BY DEF Kept
  <2>1. i \in 1..n \/ i = n + 1
    OBVIOUS
  <2> QED
    BY <1>3, <1>4, <1>5, <2>1
<1> QED
  BY <1>1, <1>3, <1>6 DEF Returned, t, g

LEMMA ReturnSafe == ASSUME Bookkeeping, Undisturbed, NEW args \in BOOLEAN, Return(args)  PROVE Undisturbed'
<1> SUFFICES ASSUME causes' = {}
             PROVE  phase' \in {"ok", "asm"} /\ (phase' = "ok" => Safe(m', held', loops', todo'))
  BY DEF Undisturbed
<1> DEFINE h == GimmeReg(m)
           g == Gimme(m, 0)
           slotted == Push(Push(g, RBP), 0)
           result == [slotted EXCEPT !.stack[Len(slotted.stack)] = N + 1]
           back(k) == [result EXCEPT !.regs = [r \in Reg |-> IF r < k THEN 0 ELSE @[r]]]
           popped(k) == Pop(back(k), Name(h))
           left(k) == [popped(k) EXCEPT !.stack = SubSeq(@, 1, Len(@) - 1)]
           frame(k) == popped(k).stack # <<>> /\ popped(k).stack[Len(popped(k).stack)] = RBP
<1>1. causes = {} /\ ~args /\ ~h.spilled
  BY DEF Return
<1>2. At("call") /\ held' = Append(held, h) /\ Then(<<>>) /\ UNCHANGED <<leaked, loops>>
  BY <1>1 DEF Return
<1>3. PICK k \in Clobbers :
        /\ phase' = IF frame(k) THEN "ok" ELSE "frame"
        /\ m' = IF popped(k).stack = <<>> THEN popped(k) ELSE RestoreExcept(left(k), h)
        /\ \A i \in DOMAIN held : held[i].which \notin 6..(k - 1)
  BY <1>1 DEF Return
<1> HIDE DEF back, popped, left, frame
<1>4. /\ phase = "ok" /\ todo # <<>> /\ Head(todo) = "call" /\ Fits(todo, N)
      /\ m \in Machine(Tokens(N)) /\ N \in Nat /\ held \in Seq(Handle)
      /\ todo' = Tail(todo) /\ N + 1 \in Int
  BY <1>2, AtIs, ThenNothing
<1>5. /\ Safe(m, held, loops, todo) /\ First(todo) = "call" /\ N = Len(held)
      /\ Owned(m.used, held, leaked) /\ loops \in Nat
  BY <1>1, <1>2, SafeAt
<1>6. h \in Handle /\ h.which \notin m.used /\ m.used # Reg /\ h.which \in Reg /\ Name(h) = h.which
  <2>1. h \in Handle /\ h.which \notin m.used /\ m.used # Reg
    BY <1>1, <1>4, GimmeRegType
  <2> QED
    BY <1>1, <2>1 DEF Handle, Name
<1>7. ~Newest(held) /\ Extra(held) = 0
  BY <1>5, <1>6, FreeSafe DEF Safe
<1>8. Kept(m, held, N)
  <2>1. "call" # "call_with_args"
    OBVIOUS
  <2> QED
    BY <1>1, <1>2, <1>5, <1>7, <2>1, SafeAt
<1>9. k \in Int
  BY CodegenAssumption
<1>10. m \in Machine(Int)
  <2>1. Tokens(N) \subseteq Int
    BY <1>4 DEF Tokens, RBP
  <2> QED
    BY <1>4, <2>1, MachineMono
<1>11. /\ g \in Machine(Int) /\ g.used = m.used \cup {h.which}
       /\ g.regs = [m.regs EXCEPT ![h.which] = 0] /\ g.stack = m.stack
  <2>1. 0 \in Int
    OBVIOUS
  <2>2. g \in Machine(Int) /\ Takes(m, g, h) /\ Loaded(m, g, h, 0)
    BY <1>10, <2>1, GimmeTakes, GimmeLoads
  <2> QED
    BY <1>1, <2>2 DEF Takes, UsedWith, Loaded
<1> HIDE DEF g, h
<1>12. Topped(g, result, N + 1)
  BY <1>4, <1>11, ToppedIs
<1> HIDE DEF result
<1>13. Cleared(result, back(k), k)
  BY <1>9, <1>12, ClearedIs DEF Topped, back
<1>14. Unwound(g, h.which, N + 1, k, popped(k), left(k))
  <2>1. popped(k) = Pop(back(k), h.which)
    BY <1>6 DEF popped
  <2>2. left(k) = [popped(k) EXCEPT !.stack = SubSeq(@, 1, Len(@) - 1)]
    BY DEF left
  <2> QED
    BY <1>4, <1>6, <1>9, <1>11, <1>12, <1>13, <2>1, <2>2, UnwoundIs
<1>15. phase' = "ok" /\ m' = RestoreExcept(left(k), h)
  BY <1>3, <1>14 DEF Unwound, frame
<1>16. PICK z \in Machine(Int) :
         /\ z.used = m.used /\ z.regs = m.regs /\ m.stack = Save(z).stack
         /\ "call_with_args" \notin In(todo) => Len(z.stack) = loops + Extra(held)
  BY <1>5 DEF Safe, Words
<1>17. /\ left(k) \in Machine(Int) /\ left(k).used = m.used \cup {h.which}
       /\ left(k).stack = m.stack /\ left(k).regs[h.which] = N + 1
       /\ \A q \in Reg : q # h.which /\ ~(q < k) => left(k).regs[q] = m.regs[q]
  <2>1. m.regs \in [Reg -> Int]
    BY <1>10 DEF Machine
  <2> QED
    BY <1>6, <1>11, <1>14, <2>1 DEF Unwound
<1>18. /\ held' \in Seq(Handle) /\ Len(held') = N + 1 /\ Kept(m', held', N + 1)
       /\ m'.stack = z.stack
  <2> DEFINE u == left(k)
  <2>1. \A i \in 1..N : held[i].which \notin 6..(k - 1)
    BY <1>3, <1>4, <1>5
  <2>2. m' = RestoreExcept(u, h)
    BY <1>15
  <2>3. /\ u \in Machine(Int) /\ u.used = m.used \cup {h.which}
        /\ u.stack = m.stack /\ u.regs[h.which] = N + 1
        /\ \A q \in Reg : q # h.which /\ ~(q < k) => u.regs[q] = m.regs[q]
    BY <1>17
  <2>4. /\ z \in Machine(Int) /\ z.used = m.used /\ z.regs = m.regs
        /\ m.stack = Save(z).stack
    BY <1>16
  <2> HIDE DEF u
  <2>5. Len(held) = N /\ m \in Machine(Tokens(N))
    BY <1>4, <1>5
  <2>6. Returned(N, RestoreExcept(u, h), Append(held, h), z)
    BY ONLY <1>1, <1>4, <1>5, <1>6, <1>8, <1>9, <2>1, <2>3, <2>4, <2>5, ReturnKeeps
  <2> QED
    BY <1>2, <2>2, <2>6 DEF Returned
<1>19. ~Newest(held') /\ Extra(held') = 0
  <2> DEFINE w == held'
  <2>1. Len(w) = N + 1 /\ N + 1 \in 1..(N + 1) /\ Kept(m', w, N + 1)
    BY <1>4, <1>18
  <2> HIDE DEF w
  <2>2. ~w[N + 1].spilled
    BY <2>1 DEF Kept
  <2> QED
    BY <2>1, <2>2 DEF Newest, Extra, w
<1>20. Words(m', held', loops', todo')
  <2>1. "call" \notin In(Tail(todo)) /\ In(todo) = {"call"} \cup In(Tail(todo))
    BY <1>4, FitsTail
  <2>2. First(Tail(todo)) # "call"
    <3> DEFINE t == Tail(todo)
    <3>1. t \in Seq(Work)
      BY <1>4 DEF Fits
    <3>2. "call" \notin In(t)
      BY <2>1
    <3> HIDE DEF t
    <3>3. t # <<>> => 1 \in DOMAIN t /\ Head(t) = t[1]
      BY <3>1
    <3>4. First(t) # "call"
      BY <3>2, <3>3 DEF First, In
    <3> QED
      BY <3>4 DEF t
  <2>3. "call_with_args" \notin In(Tail(todo)) => Len(m'.stack) = loops + 0
    BY <1>7, <1>16, <1>18, <2>1
  <2> QED
    BY <1>2, <1>4, <1>19, <2>2, <2>3 DEF Words
<1>21. Safe(m', held', loops', todo')
  BY <1>18, <1>20, KeptSafe
<1> QED
  BY <1>15, <1>21

LEMMA InitSafe == Init => Undisturbed
<1> SUFFICES ASSUME Init  PROVE Safe(m, held, loops, todo) /\ phase = "ok"
  BY DEF Undisturbed
<1>1. /\ m = [used |-> {}, overflow |-> 6, regs |-> [r \in Reg |-> 0], stack |-> <<>>]
      /\ held = <<>> /\ loops = 0 /\ todo = <<"stmts">> /\ phase = "ok"
  BY DEF Init
<1>2. held \in Seq(Handle) /\ Len(held) = 0 /\ ~Newest(held) /\ Extra(held) = 0
  BY <1>1 DEF Newest, Extra
<1>3. Kept(m, held, Len(held))
  BY <1>2 DEF Kept
<1>4. Words(m, held, loops, todo)
  <2>1. Len(m.stack) = 0 /\ First(todo) # "call"
    BY <1>1 DEF First
  <2> QED
    BY <1>1, <1>2, <2>1 DEF Words
<1> QED
  BY <1>1, <1>2, <1>3, <1>4, KeptSafe

LEMMA NextSafe == Bookkeeping /\ Undisturbed /\ [Next]_cg => Undisturbed'
<1> SUFFICES ASSUME Bookkeeping, Undisturbed, [Next]_cg  PROVE Undisturbed'
  OBVIOUS
<1>1. CASE UNCHANGED cg
  BY <1>1 DEF cg, Undisturbed, Safe, SpillLast, Values, Words
<1>2. CASE Leaf \/ Index \/ Binary
  BY <1>2, LeafSafe, IndexSafe, BinarySafe
<1>3. CASE Arith \/ Divide \/ Compare
  BY <1>3, ArithSafe, DivideSafe, CompareSafe
<1>4. CASE CompareFails \/ Misread
  BY <1>4, StopSafe
<1>5. ASSUME NEW args \in BOOLEAN, Call(args) \/ StartProc(args)  PROVE Undisturbed'
  BY <1>5, CallSafe, StartProcSafe
<1>6. CASE Argument
  BY <1>6, ArgumentSafe
<1>7. ASSUME NEW args \in BOOLEAN, Return(args)  PROVE Undisturbed'
  BY <1>7, ReturnSafe
<1>8. CASE StartAssign \/ Assign
  BY <1>8, StartAssignSafe, AssignSafe
<1>9. CASE StartConditional
  BY <1>9, StartConditionalSafe
<1>10. CASE Condition
  BY <1>10, GiveSafe DEF Condition
<1>11. CASE StartFor \/ Variable \/ Test \/ Again
  BY <1>11, StartForSafe, VariableSafe, TestSafe, AgainSafe
<1>12. CASE Discard
  BY <1>12, GiveSafe DEF Discard
<1>13. CASE StartWrite
  BY <1>13, StartWriteSafe
<1>14. CASE Write
  BY <1>14, GiveSafe DEF Write
<1>15. CASE Newline \/ Written \/ EndStmts
  BY <1>15, NewlineSafe, WrittenSafe, EndStmtsSafe
<1> QED
  BY <1>1, <1>2, <1>3, <1>4, <1>5, <1>6, <1>7, <1>8, <1>9, <1>10, <1>11, <1>12, <1>13,
     <1>14, <1>15 DEF Next

(* The second inductive invariant, on top of Bookkeeping: as long as no    *)
(* use was made that the allocator is not made for, only the newest        *)
(* operand may be spilled (reg_gimme, reg_takeitback), every operand is in *)
(* its register or on top of the stack, and the stack holds what the FOR   *)
(* loops, the spill and save_registers pushed, and nothing else.           *)
THEOREM SafetyKept == Spec => []Undisturbed
<1>1. Init => Undisturbed
  BY InitSafe
<1>2. Bookkeeping /\ Undisturbed /\ [Next]_cg => Undisturbed'
  BY NextSafe
<1> QED
  BY <1>1, <1>2, BooksKept, PTL DEF Spec

(* Every instruction that analyze_expr, analyze_call and analyze_stmt emit *)
(* reads the operands computed for it, and a call gives the frame pointer  *)
(* back, in any program whatever callees overwrite, unless the program     *)
(* made one of the uses in causes.                                         *)
THEOREM OperandsKept == Spec => []OperandsIntact
<1>1. Undisturbed => OperandsIntact
  BY DEF Undisturbed, OperandsIntact
<1> QED
  BY <1>1, SafetyKept, PTL

(* Between two statements the stack holds the words that FOR loops left    *)
(* and nothing else, and the only operands alive are the bounds of the FOR *)
(* loops around (analyze_stmt), whatever was compiled before, unless a use *)
(* in causes was made.                                                     *)
THEOREM BalanceKept == Spec => []Balanced
<1>1. Bookkeeping /\ Undisturbed => Balanced
  <2> SUFFICES ASSUME Bookkeeping, Undisturbed, causes = {}, phase = "ok",
                      todo = <<>> \/ Head(todo) = "stmts"
               PROVE  Len(m.stack) = loops /\ N = 2 * Pending("again")
    BY DEF Balanced
  <2>1. /\ Safe(m, held, loops, todo) /\ held \in Seq(Handle) /\ Fits(todo, N)
        /\ N = Len(held) /\ loops \in Nat /\ Pending("again") = Agains(todo)
    BY DEF Undisturbed, Bookkeeping, Book, N, Pending, Agains
  <2>2. /\ First(todo) \notin Follower \cup {"call"} /\ "call_with_args" \notin In(todo)
        /\ N = 2 * Agains(todo)
    <3>1. CASE todo = <<>>
      <4>1. First(todo) = "end" /\ In(todo) = {}
        BY <3>1 DEF First, In
      <4>2. Runs(<<>>, N, Agains(<<>>)) /\ Len(<<>>) = 0
        BY <2>1, <3>1 DEF Fits
      <4>3. N = 0 /\ Agains(<<>>) = 0
        BY <4>2 DEF Runs
      <4> QED
        BY <3>1, <4>1, <4>3 DEF Follower, Consumer, Type
    <3>2. CASE todo # <<>>
      <4>1. Head(todo) = "stmts" /\ First(todo) = "stmts"
        BY <3>2 DEF First
      <4>2. "call_with_args" \notin In(Tail(todo)) /\ In(todo) = {"stmts"} \cup In(Tail(todo))
        BY <2>1, <3>2, <4>1, FitsTail, StmtsFits
      <4>3. N = 2 * Agains(todo)
        BY <2>1, <3>2, <4>1, FitsTail
      <4> QED
        BY <4>1, <4>2, <4>3 DEF Follower, Consumer, Type
    <3> QED
      BY <3>1, <3>2
  <2>3. Extra(held) = 0
    BY <2>1, <2>2 DEF Safe, SpillLast, Extra
  <2>4. Len(m.stack) = loops + 0
    BY <2>1, <2>2, <2>3 DEF Safe, Words
  <2> QED
    BY <2>1, <2>2, <2>4
<1> QED
  BY <1>1, BooksKept, SafetyKept, PTL

=============================================================================
