------------------------- MODULE SubprogramsProofs --------------------------
(***************************************************************************)
(* Proofs about Subprograms, for any identifiers, any placement of them in *)
(* the hash tables and any bounds: its structural invariant and the slots  *)
(* of the display; on top of it the rules on functions, the offsets of     *)
(* variables, the stack at a ret, and the text analyze_subprog and analyze *)
(* put out: prologues enter captured variables into the display, and in a  *)
(* program without nested subprograms no label is put twice.               *)
(***************************************************************************)
EXTENDS Subprograms, FiniteSetTheorems, TLAPS

OpenRec(nb) == [block : 1..nb, saved : Contexts]
ScopeRec(nb, nv) == [block : 1..nb, loop : BOOLEAN, vars : [Name -> (1..nv) \cup {NONE}]]
BlockRec(nv) ==
  [name : Name \cup {NONE}, kind : {"procedure", "function"}, outer : Nat,
   stage : {"decls", "subs", "body", "done"}, formals : Nat, groups : Nat,
   locals : Nat, funcs : SUBSET Name, nested : BOOLEAN,
   fills : SUBSET (1..nv), pushed : Nat, words : Int, loops : Nat,
   left : SUBSET {"arguments", "spill"}, written : SUBSET (1..nv)]

(* The type invariant, in terms of the lengths of the tables. *)
Typed(nb, nv) ==
  /\ acx \in Contexts
  /\ open \in Seq(OpenRec(nb)) /\ open # <<>>
  /\ chain \in Seq(ScopeRec(nb, nv)) /\ chain # <<>>
  /\ vars \in Seq(Variables) /\ Len(vars) = nv
  /\ blocks \in Seq(BlockRec(nv)) /\ Len(blocks) = nb
  /\ text \in [here : Name \cup {NONE}, labels : SUBSET ((Name \cup {NONE}) \X Int),
               clash : BOOLEAN]
  /\ statements \in Nat
  /\ phase \in {"run", "done", "error"}

(* The calls under way: block 1 at the bottom, all but the last one at     *)
(* their subprograms, and every other block finished.                      *)
OpenOK ==
  /\ open[1].block = 1
  /\ \A i, j \in DOMAIN open : i < j => open[i].block < open[j].block
  /\ \A i \in DOMAIN open : i < Len(open) => blocks[open[i].block].stage = "subs"
  /\ blocks[Current].stage # "done"
  /\ \A b \in DOMAIN blocks :
       b \in {open[i].block : i \in DOMAIN open} \/ blocks[b].stage = "done"

(* The scopes: one for each call under way, then those of the loops of the *)
(* current block, which hold no variables.  What a scope names is a        *)
(* variable of its block with that name.                                   *)
ChainOK ==
  /\ Len(open) <= Len(chain)
  /\ \A i \in DOMAIN chain :
       IF i <= Len(open)
         THEN chain[i].block = open[i].block /\ ~chain[i].loop
         ELSE /\ chain[i].block = Current /\ chain[i].loop
              /\ blocks[Current].stage = "body"
              /\ \A x \in Name : chain[i].vars[x] = NONE
  /\ \A i \in DOMAIN chain, x \in Name : chain[i].vars[x] # NONE =>
       vars[chain[i].vars[x]].owner = chain[i].block /\ vars[chain[i].vars[x]].name = x

(* The context is that of the current block, and each saved one that of    *)
(* the block around it, at its subprograms.                                *)
OfBlock(c, b) == c.name = blocks[b].name /\ c.kind = blocks[b].kind
AtRest(c) == ~c.assigned /\ c.label = 0 /\ ~c.toplevel
ContextOK ==
  /\ OfBlock(acx, Current)
  /\ blocks[Current].stage # "body" => AtRest(acx)
  /\ acx.toplevel <=> Current = 1 /\ blocks[Current].stage = "body"
  /\ \A i \in DOMAIN open : i > 1 =>
       OfBlock(open[i].saved, open[i - 1].block) /\ AtRest(open[i].saved)
  /\ \A b \in DOMAIN blocks : IF b = 1 THEN blocks[b].name = NONE /\ blocks[b].kind = "procedure"
                               ELSE blocks[b].name \in Name

OwnersOK == \A v \in DOMAIN vars : vars[v].owner \in DOMAIN blocks

Structure ==
  /\ Typed(Len(blocks), Len(vars))
  /\ OwnersOK /\ OpenOK /\ ChainOK /\ ContextOK

-----------------------------------------------------------------------------
(* Sequences *)

LEMMA Appended ==
  ASSUME NEW S, NEW s \in Seq(S), NEW e \in S
  PROVE  /\ Append(s, e) \in Seq(S) /\ Append(s, e) # <<>>
         /\ Len(Append(s, e)) = Len(s) + 1
         /\ DOMAIN Append(s, e) = 1..(Len(s) + 1)
         /\ \A i \in 1..Len(s) : Append(s, e)[i] = s[i]
         /\ Append(s, e)[Len(s) + 1] = e
OBVIOUS

LEMMA Updated ==
  ASSUME NEW S, NEW s \in Seq(S), NEW k \in DOMAIN s, NEW e \in S
  PROVE  /\ [s EXCEPT ![k] = e] \in Seq(S) /\ [s EXCEPT ![k] = e] # <<>>
         /\ Len([s EXCEPT ![k] = e]) = Len(s)
         /\ DOMAIN [s EXCEPT ![k] = e] = DOMAIN s
         /\ \A i \in DOMAIN s : i # k => [s EXCEPT ![k] = e][i] = s[i]
         /\ [s EXCEPT ![k] = e][k] = e
OBVIOUS

LEMMA Popped ==
  ASSUME NEW S, NEW s \in Seq(S), Len(s) > 1
  PROVE  /\ SubSeq(s, 1, Len(s) - 1) \in Seq(S) /\ SubSeq(s, 1, Len(s) - 1) # <<>>
         /\ Len(SubSeq(s, 1, Len(s) - 1)) = Len(s) - 1
         /\ DOMAIN SubSeq(s, 1, Len(s) - 1) = 1..(Len(s) - 1)
         /\ \A i \in 1..(Len(s) - 1) : SubSeq(s, 1, Len(s) - 1)[i] = s[i]
<1> DEFINE t == SubSeq(s, 1, Len(s) - 1)
<1>1. Len(t) = Len(s) - 1 /\ \A i \in 1..(Len(s) - 1) : t[i] = s[i]
  OBVIOUS
<1>2. t \in Seq(S)
  OBVIOUS
<1>3. DOMAIN t = 1..(Len(s) - 1)
  BY <1>1, <1>2
<1>4. t # <<>>
  <2> HIDE DEF t
  <2> QED
    BY <1>1
<1> QED
  BY <1>1, <1>2, <1>3, <1>4

LEMMA Weakened ==
  ASSUME NEW S, NEW T, S \subseteq T, NEW s \in Seq(S)
  PROVE  s \in Seq(T)
OBVIOUS

LEMMA RecordsGrow ==
  ASSUME NEW nb \in Nat, NEW nv \in Nat, NEW mb \in Nat, NEW mv \in Nat, nb <= mb, nv <= mv
  PROVE  /\ OpenRec(nb) \subseteq OpenRec(mb)
         /\ ScopeRec(nb, nv) \subseteq ScopeRec(mb, mv)
         /\ BlockRec(nv) \subseteq BlockRec(mv)
<1>1. 1..nb \subseteq 1..mb /\ 1..nv \subseteq 1..mv
  OBVIOUS
<1>2. OpenRec(nb) \subseteq OpenRec(mb)
  BY <1>1 DEF OpenRec
<1>3. ScopeRec(nb, nv) \subseteq ScopeRec(mb, mv)
  BY <1>1 DEF ScopeRec
<1>4. BlockRec(nv) \subseteq BlockRec(mv)
  BY <1>1 DEF BlockRec
<1> QED
  BY <1>2, <1>3, <1>4

-----------------------------------------------------------------------------
(* The current block and the innermost scope *)
LEMMA Here ==
  ASSUME Structure
  PROVE  /\ Len(open) \in Nat /\ Len(open) >= 1 /\ DOMAIN open = 1..Len(open)
         /\ Len(chain) \in Nat /\ Len(chain) >= 1 /\ DOMAIN chain = 1..Len(chain)
         /\ Len(vars) \in Nat /\ DOMAIN vars = 1..Len(vars)
         /\ Len(blocks) \in Nat /\ DOMAIN blocks = 1..Len(blocks)
         /\ Current \in DOMAIN blocks /\ blocks[Current] \in BlockRec(Len(vars))
         /\ Innermost \in ScopeRec(Len(blocks), Len(vars)) /\ Innermost.block = Current
         /\ ~Innermost.loop => Len(chain) = Len(open)
         /\ blocks[Current].stage # "body" => Len(chain) = Len(open)
         /\ \A i \in DOMAIN open : open[i].block \in DOMAIN blocks
<1>1. /\ open \in Seq(OpenRec(Len(blocks))) /\ open # <<>>
      /\ chain \in Seq(ScopeRec(Len(blocks), Len(vars))) /\ chain # <<>>
      /\ vars \in Seq(Variables) /\ blocks \in Seq(BlockRec(Len(vars)))
  BY DEF Structure, Typed
<1>2. /\ Len(open) \in Nat /\ Len(open) >= 1 /\ DOMAIN open = 1..Len(open)
      /\ Len(chain) \in Nat /\ Len(chain) >= 1 /\ DOMAIN chain = 1..Len(chain)
      /\ Len(vars) \in Nat /\ DOMAIN vars = 1..Len(vars)
      /\ Len(blocks) \in Nat /\ DOMAIN blocks = 1..Len(blocks)
  BY <1>1
<1>3. /\ \A i \in DOMAIN open : open[i] \in OpenRec(Len(blocks))
      /\ \A i \in DOMAIN chain : chain[i] \in ScopeRec(Len(blocks), Len(vars))
      /\ \A i \in DOMAIN blocks : blocks[i] \in BlockRec(Len(vars))
  BY <1>1
<1>4. \A i \in DOMAIN open : open[i].block \in DOMAIN blocks
  BY <1>2, <1>3 DEF OpenRec
<1>5. Current \in DOMAIN blocks
  BY <1>2, <1>4 DEF Current
<1>6. Innermost \in ScopeRec(Len(blocks), Len(vars))
  BY <1>2, <1>3 DEF Innermost
<1>7. /\ Len(open) <= Len(chain)
      /\ IF Len(chain) <= Len(open)
           THEN Innermost.block = open[Len(chain)].block /\ ~Innermost.loop
           ELSE Innermost.block = Current /\ Innermost.loop /\ blocks[Current].stage = "body"
  BY <1>2 DEF Structure, ChainOK, Innermost
<1>8. Innermost.block = Current
  BY <1>2, <1>7 DEF Current
<1>9. blocks[Current] \in BlockRec(Len(vars))
  BY <1>3, <1>5
<1>10. /\ ~Innermost.loop => Len(chain) = Len(open)
       /\ blocks[Current].stage # "body" => Len(chain) = Len(open)
  <2>1. CASE Len(chain) <= Len(open)
    <3>1. Len(chain) \in Nat /\ Len(open) \in Nat
      BY <1>2
    <3>2. Len(open) <= Len(chain)
      BY <1>7
    <3>3. Len(chain) = Len(open)
      BY <2>1, <3>1, <3>2
    <3> QED
      BY <3>3
  <2>2. CASE ~(Len(chain) <= Len(open))
    BY <1>7, <2>2
  <2> QED
    BY <2>1, <2>2
<1> HIDE DEF Current, Innermost
<1> QED
  BY <1>2, <1>4, <1>5, <1>6, <1>8, <1>9, <1>10

(* The scopes *)
LEMMA Scopes ==
  ASSUME Structure
  PROVE  /\ \A i \in DOMAIN chain : chain[i] \in ScopeRec(Len(blocks), Len(vars))
         /\ \A i \in DOMAIN chain, x \in Name :
              /\ chain[i].vars[x] \in DOMAIN vars \cup {NONE}
              /\ chain[i].vars[x] # NONE =>
                   /\ i <= Len(open) /\ chain[i].vars[x] \in DOMAIN vars
                   /\ vars[chain[i].vars[x]].owner = open[i].block
                   /\ vars[chain[i].vars[x]].name = x
<1>1. chain \in Seq(ScopeRec(Len(blocks), Len(vars)))
  BY DEF Structure, Typed
<1>2. \A i \in DOMAIN chain : chain[i] \in ScopeRec(Len(blocks), Len(vars))
  BY <1>1
<1>3. ASSUME NEW i \in DOMAIN chain, NEW x \in Name
      PROVE  chain[i].vars[x] \in DOMAIN vars \cup {NONE}
  <2>1. chain[i].vars \in [Name -> (1..Len(vars)) \cup {NONE}]
    BY <1>2 DEF ScopeRec
  <2> QED
    BY <2>1, Here
<1>4. ASSUME NEW i \in DOMAIN chain, NEW x \in Name, chain[i].vars[x] # NONE
      PROVE  /\ i <= Len(open)
             /\ vars[chain[i].vars[x]].owner = open[i].block
             /\ vars[chain[i].vars[x]].name = x
  BY <1>4 DEF Structure, ChainOK
<1> QED
  BY <1>2, <1>3, <1>4

-----------------------------------------------------------------------------
(* A step within the body of the current block: the tables keep their      *)
(* lengths, and most of what they say.                                     *)
SameVar(p, q) ==
  p.owner = q.owner /\ p.name = q.name /\ p.role = q.role /\ p.offset = q.offset
SameBlock(p, q) ==
  /\ p.name = q.name /\ p.kind = q.kind /\ p.stage = q.stage /\ p.formals = q.formals
  /\ p.groups = q.groups /\ p.locals = q.locals /\ p.funcs = q.funcs
  /\ p.nested = q.nested /\ p.fills = q.fills /\ p.pushed = q.pushed
TextType == [here : Name \cup {NONE}, labels : SUBSET ((Name \cup {NONE}) \X Int), clash : BOOLEAN]

BodyStep ==
  /\ At("body") /\ open' = open
  /\ acx' \in Contexts /\ acx'.name = acx.name /\ acx'.kind = acx.kind
  /\ acx'.toplevel = acx.toplevel
  /\ vars' \in Seq(Variables) /\ Len(vars') = Len(vars)
  /\ \A v \in DOMAIN vars : SameVar(vars'[v], vars[v])
  /\ blocks' \in Seq(BlockRec(Len(vars))) /\ Len(blocks') = Len(blocks)
  /\ \A b \in DOMAIN blocks : SameBlock(blocks'[b], blocks[b])
  /\ \/ chain' = chain
     \/ chain' = Append(chain, Scope(Current, TRUE))
     \/ Innermost.loop /\ chain' = SubSeq(chain, 1, Len(chain) - 1)
  /\ text' \in TextType /\ statements' \in Nat /\ phase' \in {"run", "done"}

(* The scopes in a body step *)
LEMMA BodyStepChain ==
  ASSUME Structure, BodyStep
  PROVE  /\ chain' \in Seq(ScopeRec(Len(blocks), Len(vars))) /\ chain' # <<>>
         /\ Len(open) <= Len(chain') /\ DOMAIN chain' = 1..Len(chain')
         /\ \A i \in DOMAIN chain' :
              \/ i \in DOMAIN chain /\ chain'[i] = chain[i]
              \/ i > Len(open) /\ chain'[i] = Scope(Current, TRUE)
<1> DEFINE S == ScopeRec(Len(blocks), Len(vars))
<1>1. chain \in Seq(S) /\ chain # <<>> /\ Len(open) <= Len(chain)
  BY DEF Structure, Typed, ChainOK
<1>2. CASE chain' = chain
  <2>1. DOMAIN chain = 1..Len(chain)
    BY Here
  <2> HIDE DEF S
  <2> QED
    BY <1>1, <1>2, <2>1 DEF S
<1>3. CASE chain' = Append(chain, Scope(Current, TRUE))
  <2>1. Scope(Current, TRUE) \in S
    BY Here DEF Scope, ScopeRec
  <2> DEFINE n == Len(chain)
             e == Scope(Current, TRUE)
  <2> HIDE DEF S, e
  <2>2. /\ Append(chain, e) \in Seq(S) /\ Append(chain, e) # <<>>
        /\ Len(Append(chain, e)) = n + 1 /\ DOMAIN Append(chain, e) = 1..(n + 1)
        /\ Append(chain, e)[n + 1] = e /\ \A i \in 1..n : Append(chain, e)[i] = chain[i]
    <3>1. chain \in Seq(S) /\ e \in S
      BY <1>1, <2>1 DEF e
    <3> QED
      BY <3>1, Appended
  <2>5. /\ chain' \in Seq(S) /\ chain' # <<>> /\ Len(chain') = n + 1
        /\ DOMAIN chain' = 1..(n + 1) /\ chain'[n + 1] = e
        /\ \A i \in 1..n : chain'[i] = chain[i]
    BY <1>3, <2>2 DEF e
  <2>3. n \in Nat /\ Len(open) \in Nat /\ DOMAIN chain = 1..n /\ Len(open) <= n
    BY <1>1, Here
  <2> HIDE DEF n
  <2>4. ASSUME NEW i \in 1..(n + 1) PROVE i \in 1..n \/ (i = n + 1 /\ i > Len(open))
    BY <2>3
  <2> QED
    <3>1. Len(open) <= Len(chain')
      BY <2>3, <2>5
    <3>2. \A i \in DOMAIN chain' :
            \/ i \in DOMAIN chain /\ chain'[i] = chain[i]
            \/ i > Len(open) /\ chain'[i] = e
      BY <2>3, <2>4, <2>5
    <3> QED
      BY <2>5, <3>1, <3>2 DEF S, e
<1>4. CASE Innermost.loop /\ chain' = SubSeq(chain, 1, Len(chain) - 1)
  <2>1. Len(chain) > Len(open) /\ Len(open) >= 1 /\ Len(chain) \in Nat /\ Len(open) \in Nat
    BY <1>4, Here DEF Structure, ChainOK, Innermost
  <2> HIDE DEF S
  <2>2. /\ chain' \in Seq(S) /\ chain' # <<>> /\ Len(chain') = Len(chain) - 1
        /\ DOMAIN chain' = 1..(Len(chain) - 1)
        /\ \A i \in 1..(Len(chain) - 1) : chain'[i] = chain[i]
    BY <1>1, <1>4, <2>1, Popped
  <2>3. DOMAIN chain = 1..Len(chain) /\ Len(open) <= Len(chain) - 1
    <3>1. DOMAIN chain = 1..Len(chain)
      BY Here
    <3> QED
      BY <2>1, <3>1
  <2>4. \A i \in 1..(Len(chain) - 1) : i \in DOMAIN chain
    BY <2>1, <2>3
  <2> QED
    BY <2>2, <2>3, <2>4 DEF S
<1> QED
  BY <1>2, <1>3, <1>4 DEF BodyStep

LEMMA BodyStepStructure ==
  ASSUME Structure, BodyStep
  PROVE  Structure'
<1>1. /\ Current' = Current /\ DOMAIN vars' = DOMAIN vars /\ DOMAIN blocks' = DOMAIN blocks
      /\ open' = open /\ Len(vars') = Len(vars) /\ Len(blocks') = Len(blocks)
  <2>1. /\ open' = open /\ Len(vars') = Len(vars) /\ Len(blocks') = Len(blocks)
        /\ vars' \in Seq(Variables) /\ blocks' \in Seq(BlockRec(Len(vars)))
    BY DEF BodyStep
  <2>2. DOMAIN vars' = 1..Len(vars) /\ DOMAIN blocks' = 1..Len(blocks)
    BY <2>1
  <2> QED
    BY <2>1, <2>2, Here DEF Current
<1>0. /\ \A i \in DOMAIN open : open[i].block \in DOMAIN blocks
      /\ Current \in DOMAIN blocks
  BY Here
<1>2. Typed(Len(blocks), Len(vars))'
  <2>1. open \in Seq(OpenRec(Len(blocks))) /\ open # <<>>
    BY DEF Structure, Typed
  <2> QED
    BY <1>1, <2>1, BodyStepChain DEF BodyStep, Typed, TextType
<1>3. OwnersOK'
  BY <1>1 DEF BodyStep, SameVar, OwnersOK, Structure
<1>4. OpenOK'
  <2>1. \A b \in DOMAIN blocks : blocks'[b].stage = blocks[b].stage
    BY DEF BodyStep, SameBlock
  <2>2. OpenOK
    BY DEF Structure
  <2> QED
    BY <1>0, <1>1, <2>1, <2>2 DEF OpenOK
<1>5. ChainOK'
  <2>1. blocks[Current].stage = "body" /\ blocks'[Current].stage = "body"
    BY <1>0, <1>1 DEF BodyStep, SameBlock, At
  <2>2. Scope(Current, TRUE).block = Current /\ Scope(Current, TRUE).loop
        /\ \A x \in Name : Scope(Current, TRUE).vars[x] = NONE
    BY DEF Scope
  <2>3. ASSUME NEW i \in DOMAIN chain'
        PROVE  IF i <= Len(open)
                 THEN chain'[i].block = open[i].block /\ ~chain'[i].loop
                 ELSE /\ chain'[i].block = Current /\ chain'[i].loop
                      /\ \A x \in Name : chain'[i].vars[x] = NONE
    <3>1. CASE i \in DOMAIN chain /\ chain'[i] = chain[i]
      BY <3>1 DEF Structure, ChainOK
    <3>2. CASE i > Len(open) /\ chain'[i] = Scope(Current, TRUE)
      <4>1. ~(i <= Len(open))
        <5>1. i \in Int
          BY BodyStepChain
        <5>2. Len(open) \in Nat
          BY Here
        <5> QED
          BY <3>2, <5>1, <5>2
      <4> QED
        BY <2>2, <3>2, <4>1
    <3> QED
      BY <3>1, <3>2, BodyStepChain
  <2>4. ASSUME NEW i \in DOMAIN chain', NEW x \in Name, chain'[i].vars[x] # NONE
        PROVE  /\ vars'[chain'[i].vars[x]].owner = chain'[i].block
               /\ vars'[chain'[i].vars[x]].name = x
    <3>1. i \in DOMAIN chain /\ chain'[i] = chain[i]
      BY <2>2, <2>4, BodyStepChain
    <3>2. chain[i].vars[x] \in DOMAIN vars
      BY <2>4, <3>1, Scopes
    <3>3. /\ vars[chain[i].vars[x]].owner = chain[i].block
          /\ vars[chain[i].vars[x]].name = x
      BY <2>4, <3>1 DEF Structure, ChainOK
    <3> QED
      BY <3>1, <3>2, <3>3 DEF BodyStep, SameVar
  <2> QED
    BY <1>1, <2>1, <2>3, <2>4, BodyStepChain DEF ChainOK
<1>6. ContextOK'
  <2>1. /\ blocks[Current].stage = "body" /\ acx'.name = acx.name /\ acx'.kind = acx.kind
        /\ acx'.toplevel = acx.toplevel
    BY DEF BodyStep, At
  <2>2. \A b \in DOMAIN blocks : /\ blocks'[b].name = blocks[b].name
                                /\ blocks'[b].kind = blocks[b].kind
                                /\ blocks'[b].stage = blocks[b].stage
    BY DEF BodyStep, SameBlock
  <2>3. ContextOK
    BY DEF Structure
  <2>4. \A i \in DOMAIN open : i > 1 => i - 1 \in DOMAIN open
    <3>1. DOMAIN open = 1..Len(open) /\ Len(open) \in Nat
      BY Here
    <3> QED
      BY <3>1
  <2>5. \A i \in DOMAIN open : i > 1 =>
          OfBlock(open[i].saved, open[i - 1].block)' /\ AtRest(open[i].saved)'
    BY <1>0, <1>1, <2>2, <2>3, <2>4 DEF ContextOK, OfBlock, AtRest
  <2>6. OfBlock(acx, Current)' /\ blocks'[Current].stage = "body"
    BY <1>0, <1>1, <2>1, <2>2, <2>3 DEF ContextOK, OfBlock
  <2>7. acx'.toplevel <=> Current = 1
    BY <2>1, <2>3 DEF ContextOK
  <2>8. \A b \in DOMAIN blocks :
          IF b = 1 THEN blocks'[b].name = NONE /\ blocks'[b].kind = "procedure"
          ELSE blocks'[b].name \in Name
    BY <2>2, <2>3 DEF ContextOK
  <2> QED
    BY <1>1, <2>5, <2>6, <2>7, <2>8 DEF ContextOK
<1> QED
  BY <1>1, <1>2, <1>3, <1>4, <1>5, <1>6 DEF Structure

-----------------------------------------------------------------------------
(* Records with fields changed *)
Labelled(c, d, n) == [c EXCEPT !.disp = d, !.label = n]
Marked(p, d, l) == [p EXCEPT !.captured = TRUE, !.slot = d, !.lost = l]
Looped(p, w, l) == [p EXCEPT !.words = w, !.loops = l]
Why == {"arguments", "spill"}

LEMMA ContextLabelled ==
  ASSUME NEW c \in Contexts, NEW d \in Nat, NEW n \in Nat
  PROVE  LET e == Labelled(c, d, n)
         IN  /\ e \in Contexts /\ e.name = c.name /\ e.kind = c.kind
             /\ e.toplevel = c.toplevel /\ e.disp = d /\ e.label = n
             /\ e.assigned = c.assigned
BY DEF Contexts, Labelled

LEMMA VarMarked ==
  ASSUME NEW p \in Variables, NEW d \in Int, NEW l \in SUBSET {"loop", "hidden"}
  PROVE  LET e == Marked(p, d, l)
         IN  /\ e \in Variables /\ SameVar(e, p)
             /\ e.captured = TRUE /\ e.slot = d /\ e.lost = l
<1> DEFINE e == Marked(p, d, l)
<1>1. /\ e.owner = p.owner /\ e.name = p.name /\ e.role = p.role /\ e.offset = p.offset
      /\ e.captured = TRUE /\ e.slot = d /\ e.lost = l
  BY DEF Variables, Marked
<1>2. ASSUME NEW q \in Variables PROVE [q EXCEPT !.captured = TRUE] \in Variables
  BY DEF Variables
<1>4. ASSUME NEW q \in Variables PROVE [q EXCEPT !.slot = d] \in Variables
  BY DEF Variables
<1>5. ASSUME NEW q \in Variables PROVE [q EXCEPT !.lost = l] \in Variables
  BY DEF Variables
<1>3. e \in Variables
  BY <1>2, <1>4, <1>5 DEF Marked
<1> QED
  BY <1>1, <1>3 DEF SameVar

LEMMA BlockLooped ==
  ASSUME NEW nv \in Nat, NEW p \in BlockRec(nv), NEW w \in Int, NEW l \in Nat
  PROVE  LET e == Looped(p, w, l)
         IN  /\ e \in BlockRec(nv) /\ SameBlock(e, p)
             /\ e.words = w /\ e.loops = l /\ e.left = p.left /\ e.written = p.written
BY DEF BlockRec, SameBlock, Looped

LEMMA BlockLeft ==
  ASSUME NEW nv \in Nat, NEW p \in BlockRec(nv), NEW net \in Int, NEW why \in Why,
         NEW e, e = Leave(p, net, why)
  PROVE  /\ e \in BlockRec(nv) /\ SameBlock(e, p) /\ e.written = p.written
         /\ e.words = p.words + net /\ e.loops = p.loops
         /\ net = 0 => e.left = p.left
         /\ net # 0 => e.left = p.left \cup {why}
<1> DEFINE l == IF net = 0 THEN p.left ELSE p.left \cup {why}
<1>1. e = [p EXCEPT !.words = p.words + net, !.left = l]
  BY DEF Leave
<1>2. l \in SUBSET {"arguments", "spill"} /\ p.words + net \in Int
  BY DEF BlockRec, Why
<1>7. (net = 0 => l = p.left) /\ (net # 0 => l = p.left \cup {why})
  OBVIOUS
<1> HIDE DEF l
<1>3. ASSUME NEW q \in BlockRec(nv) PROVE [q EXCEPT !.words = p.words + net] \in BlockRec(nv)
  BY <1>2 DEF BlockRec
<1>4. ASSUME NEW q \in BlockRec(nv) PROVE [q EXCEPT !.left = l] \in BlockRec(nv)
  BY <1>2 DEF BlockRec
<1>5. e \in BlockRec(nv)
  BY <1>1, <1>3, <1>4
<1>6. /\ SameBlock(e, p) /\ e.written = p.written
      /\ e.words = p.words + net /\ e.loops = p.loops /\ e.left = l
  BY <1>1 DEF BlockRec, SameBlock
<1> QED
  BY <1>5, <1>6, <1>7

(* What keeping a register makes of a block's record *)
LEMMA RegisterKept ==
  ASSUME NEW nv \in Nat, NEW p \in BlockRec(nv), NEW e \in KeepRegister(p)
  PROVE  /\ e \in BlockRec(nv) /\ SameBlock(e, p) /\ e.written = p.written
         /\ e.loops = p.loops /\ e.left \in {p.left, p.left \cup {"spill"}}
         /\ e.left = {} => e.words = p.words
<1>1. PICK word \in {0, 1} : e = Leave(p, word, "spill")
  BY DEF KeepRegister
<1>2. word \in Int /\ "spill" \in Why /\ p.words \in Int
  BY DEF Why, BlockRec
<1>3. /\ e \in BlockRec(nv) /\ SameBlock(e, p) /\ e.written = p.written
      /\ e.words = p.words + word /\ e.loops = p.loops
      /\ word = 0 => e.left = p.left
      /\ word # 0 => e.left = p.left \cup {"spill"}
  BY <1>1, <1>2, BlockLeft
<1>4. CASE word = 0
  BY <1>2, <1>3, <1>4
<1>5. CASE word # 0
  <2>1. e.left = p.left \cup {"spill"} /\ e.left # {}
    BY <1>3, <1>5
  <2> QED
    BY <1>3, <2>1
<1> QED
  BY <1>4, <1>5

-----------------------------------------------------------------------------
(* The statements are body steps. *)

LEMMA Captured ==
  ASSUME Structure, NEW v \in DOMAIN vars
  PROVE  /\ Capture(v) \in Seq(Variables) /\ Len(Capture(v)) = Len(vars)
         /\ DOMAIN Capture(v) = DOMAIN vars
         /\ \A w \in DOMAIN vars :
              /\ SameVar(Capture(v)[w], vars[w])
              /\ w # v => Capture(v)[w] = vars[w]
         /\ Capture(v)[v].captured /\ Capture(v)[v].slot = acx.disp
         /\ Capture(v)[v].lost =
              vars[v].lost \cup (IF vars[v].owner = Current THEN {"loop"} ELSE {})
<1>1. /\ vars \in Seq(Variables) /\ vars[v] \in Variables
      /\ acx.disp \in Nat
  BY DEF Structure, Typed, Contexts
<1> DEFINE l == vars[v].lost \cup (IF vars[v].owner = Current THEN {"loop"} ELSE {})
           e == Marked(vars[v], acx.disp, l)
<1>9. l \in SUBSET {"loop", "hidden"}
  BY <1>1 DEF Variables
<1>4. Capture(v) = [vars EXCEPT ![v] = e]
  BY DEF Capture, Marked
<1> HIDE DEF l
<1>2. e \in Variables /\ SameVar(e, vars[v]) /\ e.captured = TRUE
      /\ e.slot = acx.disp /\ e.lost = l
  <2>1. acx.disp \in Int
    BY <1>1
  <2> QED
    BY <1>1, <1>9, <2>1, VarMarked
<1> HIDE DEF e
<1>5. \A w \in DOMAIN vars : SameVar(vars[w], vars[w])
  BY DEF SameVar
<1> DEFINE c == [vars EXCEPT ![v] = e]
<1>6. /\ c \in Seq(Variables) /\ Len(c) = Len(vars) /\ DOMAIN c = DOMAIN vars
      /\ \A w \in DOMAIN vars : w # v => c[w] = vars[w]
      /\ c[v] = e
  BY <1>1, <1>2, Updated
<1> HIDE DEF c
<1>7. \A w \in DOMAIN vars : SameVar(c[w], vars[w])
  BY <1>2, <1>5, <1>6
<1>8. Capture(v) = c
  BY <1>4 DEF c
<1> QED
  BY <1>2, <1>6, <1>7, <1>8 DEF l

LEMMA SeenVars ==
  ASSUME Structure, NEW x \in Name, NEW v \in DOMAIN vars, Seen(x, v)
  PROVE  /\ vars' \in Seq(Variables) /\ Len(vars') = Len(vars)
         /\ \A w \in DOMAIN vars : SameVar(vars'[w], vars[w])
         /\ Disp(x, v) \in Nat
<1>1. CASE Captures(x, v)
  BY <1>1, Captured DEF Seen, Disp, Structure, Typed, Contexts
<1>2. CASE ~Captures(x, v)
  BY <1>2 DEF Seen, Disp, Structure, Typed, Contexts, SameVar
<1> QED
  BY <1>1, <1>2

LEMMA BlockChange ==
  ASSUME Structure, NEW r \in BlockRec(Len(vars)), SameBlock(r, blocks[Current]),
         NEW cs, cs = [blocks EXCEPT ![Current] = r]
  PROVE  /\ cs \in Seq(BlockRec(Len(vars))) /\ Len(cs) = Len(blocks)
         /\ \A b \in DOMAIN blocks : SameBlock(cs[b], blocks[b])
<1>1. blocks \in Seq(BlockRec(Len(vars))) /\ Current \in DOMAIN blocks
  BY Here DEF Structure, Typed
<1>2. \A b \in DOMAIN blocks : SameBlock(blocks[b], blocks[b])
  BY DEF SameBlock
<1> QED
  BY <1>1, <1>2, Updated

LEMMA Texts ==
  ASSUME NEW t \in TextType, NEW name \in Name \cup {NONE}, NEW n \in Int
  PROVE  Global(t, name) \in TextType /\ Local(t, n) \in TextType
<1>1. /\ t.labels \cup {<<name, -1>>} \in SUBSET ((Name \cup {NONE}) \X Int)
      /\ t.labels \cup {<<t.here, n>>} \in SUBSET ((Name \cup {NONE}) \X Int)
  BY DEF TextType
<1>3. Global(t, name) \in TextType
  BY <1>1 DEF TextType, Global
<1>4. Local(t, n) \in TextType
  BY <1>1 DEF TextType, Local
<1> QED
  BY <1>3, <1>4

LEMMA UseBody == ASSUME Structure, NEW x \in Name, Use(x) PROVE BodyStep
<1>1. PICK v \in DOMAIN vars : Seen(x, v) /\ acx' = [acx EXCEPT !.disp = Disp(x, v)]
  BY DEF Use
<1>2. /\ acx' \in Contexts /\ acx'.name = acx.name /\ acx'.kind = acx.kind
      /\ acx'.toplevel = acx.toplevel
  BY <1>1, SeenVars DEF Contexts, Structure, Typed
<1>3. /\ blocks' \in Seq(BlockRec(Len(vars))) /\ Len(blocks') = Len(blocks)
      /\ \A b \in DOMAIN blocks : SameBlock(blocks'[b], blocks[b])
  <2>1. blocks[Current] \in BlockRec(Len(vars)) /\ Len(vars) \in Nat
    BY Here
  <2>2. PICK r \in KeepRegister(blocks[Current]) : blocks' = [blocks EXCEPT ![Current] = r]
    BY DEF Use
  <2> QED
    BY <2>1, <2>2, RegisterKept, BlockChange
<1>4. text' \in TextType /\ statements' \in Nat /\ phase' = "run" /\ At("body")
      /\ open' = open /\ chain' = chain
  BY DEF Use, Statement, At, Structure, Typed, TextType
<1> QED
  BY <1>1, <1>2, <1>3, <1>4, SeenVars DEF BodyStep

LEMMA AssignBody ==
  ASSUME Structure, NEW x \in Name, NEW pointer \in BOOLEAN, Assign(x, pointer)
  PROVE  BodyStep
<1>1. PICK v \in DOMAIN vars :
        /\ Seen(x, v)
        /\ acx' = [acx EXCEPT !.disp = Disp(x, v),
                              !.assigned = @ \/ (~acx.toplevel /\ x = acx.name)]
        /\ blocks' = IF pointer THEN blocks ELSE [blocks EXCEPT ![Current].written = @ \cup {v}]
  BY DEF Assign
<1>2. /\ acx' \in Contexts /\ acx'.name = acx.name /\ acx'.kind = acx.kind
      /\ acx'.toplevel = acx.toplevel
  BY <1>1, SeenVars DEF Contexts, Structure, Typed
<1>3. /\ blocks' \in Seq(BlockRec(Len(vars))) /\ Len(blocks') = Len(blocks)
      /\ \A b \in DOMAIN blocks : SameBlock(blocks'[b], blocks[b])
  <2>1. CASE pointer
    BY <1>1, <2>1 DEF Structure, Typed, SameBlock
  <2>2. CASE ~pointer
    <3> DEFINE r == [blocks[Current] EXCEPT !.written = @ \cup {v}]
    <3>1. blocks[Current] \in BlockRec(Len(vars)) /\ v \in 1..Len(vars)
      BY Here
    <3>2. r \in BlockRec(Len(vars)) /\ SameBlock(r, blocks[Current])
      BY <3>1 DEF BlockRec, SameBlock
    <3>3. blocks' = [blocks EXCEPT ![Current] = r]
      BY <1>1, <2>2
    <3> HIDE DEF r
    <3> QED
      BY <3>2, <3>3, BlockChange
  <2> QED
    BY <2>1, <2>2
<1>4. text' \in TextType /\ statements' \in Nat /\ phase' = "run" /\ At("body")
      /\ open' = open /\ chain' = chain
  BY DEF Assign, Statement, At, Structure, Typed, TextType
<1> QED
  BY <1>1, <1>2, <1>3, <1>4, SeenVars DEF BodyStep

LEMMA CallBlocks ==
  ASSUME Structure, NEW x, Call(x)
  PROVE  \E r \in BlockRec(Len(vars)) :
           /\ blocks' = [blocks EXCEPT ![Current] = r]
           /\ SameBlock(r, blocks[Current]) /\ r.written = blocks[Current].written
           /\ r.loops = blocks[Current].loops /\ blocks[Current].left \subseteq r.left
           /\ r.left = {} => r.words = blocks[Current].words
<1> DEFINE p == blocks[Current]
<1>1. p \in BlockRec(Len(vars)) /\ Len(vars) \in Nat
  BY Here
<1>2. PICK b \in DOMAIN blocks : \E net \in CallLeaves(blocks[b].formals) :
            blocks' = [blocks EXCEPT ![Current] =
                         Leave(@, net, IF blocks[b].formals = 0 THEN "spill" ELSE "arguments")]
  BY DEF Call
<1> DEFINE n == blocks[b].formals
           why == IF n = 0 THEN "spill" ELSE "arguments"
<1>3. PICK net \in CallLeaves(n) : blocks' = [blocks EXCEPT ![Current] = Leave(p, net, why)]
  BY <1>2
<1>4. n \in Nat /\ why \in Why
  <2>1. blocks[b] \in BlockRec(Len(vars))
    BY DEF Structure, Typed
  <2> QED
    BY <2>1 DEF BlockRec, Why
<1> HIDE DEF n, why
<1>5. net \in Int
  BY <1>4, SubprogramsAssumption DEF CallLeaves
<1> HIDE DEF p
<1> DEFINE r == Leave(p, net, why)
<1>6. /\ r \in BlockRec(Len(vars)) /\ SameBlock(r, p) /\ r.written = p.written
      /\ r.words = p.words + net /\ r.loops = p.loops
      /\ net = 0 => r.left = p.left
      /\ net # 0 => r.left = p.left \cup {why}
  <2>1. r = Leave(p, net, why)
    OBVIOUS
  <2> HIDE DEF r
  <2> QED
    BY <1>1, <1>4, <1>5, <2>1, BlockLeft
<1>7. p.words \in Int
  BY <1>1 DEF BlockRec
<1> HIDE DEF r
<1>8. p.left \subseteq r.left /\ (r.left = {} => r.words = p.words)
  <2>1. CASE net = 0
    <3>1. r.left = p.left /\ r.words = p.words + 0
      BY <1>6, <2>1
    <3> QED
      BY <1>7, <3>1
  <2>2. CASE net # 0
    <3>1. r.left = p.left \cup {why}
      BY <1>6, <2>2
    <3> QED
      BY <3>1
  <2> QED
    BY <2>1, <2>2
<1>9. blocks' = [blocks EXCEPT ![Current] = r]
  BY <1>3 DEF r
<1> QED
  BY <1>6, <1>8, <1>9 DEF p

LEMMA CallBody == ASSUME Structure, NEW x \in Name, Call(x) PROVE BodyStep
<1>1. /\ blocks' \in Seq(BlockRec(Len(vars))) /\ Len(blocks') = Len(blocks)
      /\ \A b \in DOMAIN blocks : SameBlock(blocks'[b], blocks[b])
  BY CallBlocks, BlockChange
<1>2. /\ acx' = acx /\ vars' = vars /\ text' = text /\ statements' \in Nat /\ phase' = "run"
      /\ At("body") /\ open' = open /\ chain' = chain
  BY DEF Call, Statement, At, Structure, Typed
<1> QED
  BY <1>1, <1>2 DEF BodyStep, Structure, Typed, TextType, SameVar

(* The record of the current block after the start of a loop *)
LEMMA ForBlocks ==
  ASSUME Structure, NEW x, BeginFor(x)
  PROVE  \E r \in BlockRec(Len(vars)) :
           /\ blocks' = [blocks EXCEPT ![Current] = r]
           /\ SameBlock(r, blocks[Current]) /\ r.written = blocks[Current].written
           /\ r.loops = blocks[Current].loops + 1 /\ blocks[Current].left \subseteq r.left
           /\ r.left = {} => r.words = blocks[Current].words + 1
<1> DEFINE p == blocks[Current]
<1>1. p \in BlockRec(Len(vars)) /\ Len(vars) \in Nat
  BY Here
<1>2. PICK e \in KeepRegister(p) :
        blocks' = [blocks EXCEPT ![Current] = [e EXCEPT !.words = @ + 1, !.loops = @ + 1]]
  BY DEF BeginFor
<1>3. /\ e \in BlockRec(Len(vars)) /\ SameBlock(e, p) /\ e.written = p.written
      /\ e.loops = p.loops /\ e.left \in {p.left, p.left \cup {"spill"}}
      /\ e.left = {} => e.words = p.words
  BY <1>1, RegisterKept
<1>4. e.words + 1 \in Int /\ e.loops + 1 \in Nat
  BY <1>3 DEF BlockRec
<1> DEFINE r == Looped(e, e.words + 1, e.loops + 1)
<1>5. /\ r \in BlockRec(Len(vars)) /\ SameBlock(r, e) /\ r.words = e.words + 1
      /\ r.loops = e.loops + 1 /\ r.left = e.left /\ r.written = e.written
  BY <1>1, <1>3, <1>4, BlockLooped
<1>6. blocks' = [blocks EXCEPT ![Current] = r]
  BY <1>2 DEF Looped
<1> HIDE DEF r, p
<1>7. SameBlock(r, p)
  BY <1>3, <1>5 DEF SameBlock
<1> QED
  BY <1>3, <1>5, <1>6, <1>7 DEF p

LEMMA BeginForBody == ASSUME Structure, NEW x \in Name, BeginFor(x) PROVE BodyStep
<1>1. PICK v \in DOMAIN vars :
        Seen(x, v) /\ acx' = Labelled(acx, Disp(x, v), acx.label + 2)
  BY DEF BeginFor, Labelled
<1>2. /\ acx' \in Contexts /\ acx'.name = acx.name /\ acx'.kind = acx.kind
      /\ acx'.toplevel = acx.toplevel
  <2>1. acx \in Contexts /\ acx.label + 2 \in Nat /\ Disp(x, v) \in Nat
    BY <1>1, SeenVars DEF Contexts, Structure, Typed
  <2> QED
    BY <1>1, <2>1, ContextLabelled
<1>3. /\ blocks' \in Seq(BlockRec(Len(vars))) /\ Len(blocks') = Len(blocks)
      /\ \A b \in DOMAIN blocks : SameBlock(blocks'[b], blocks[b])
  BY ForBlocks, BlockChange
<1>4. statements' \in Nat /\ phase' = "run" /\ At("body")
      /\ open' = open /\ chain' = Append(chain, Scope(Current, TRUE))
  BY DEF BeginFor, Statement, At, Structure, Typed
<1>5. text' \in TextType
  <2>1. text \in TextType /\ acx.label \in Int
    BY DEF Structure, Typed, TextType, Contexts
  <2>2. Local(text, acx.label) \in TextType
    BY <2>1, Texts
  <2> QED
    BY <2>1, <2>2, Texts DEF BeginFor
<1> QED
  BY <1>1, <1>2, <1>3, <1>4, <1>5, SeenVars DEF BodyStep

LEMMA OtherBody ==
  ASSUME Structure, EndFor \/ Branch \/ EndProgram
  PROVE  BodyStep
<1>1. /\ blocks' \in Seq(BlockRec(Len(vars))) /\ Len(blocks') = Len(blocks)
      /\ \A b \in DOMAIN blocks : SameBlock(blocks'[b], blocks[b])
  BY DEF EndFor, Branch, EndProgram, Structure, Typed, SameBlock
<1>2. /\ vars' \in Seq(Variables) /\ Len(vars') = Len(vars)
      /\ \A v \in DOMAIN vars : SameVar(vars'[v], vars[v])
  BY DEF EndFor, Branch, EndProgram, Structure, Typed, SameVar
<1>3. /\ acx' \in Contexts /\ acx'.name = acx.name /\ acx'.kind = acx.kind
      /\ acx'.toplevel = acx.toplevel
  <2>1. acx \in Contexts /\ acx.label + 2 \in Nat
    BY DEF Structure, Typed, Contexts
  <2>2. CASE acx' = acx
    BY <2>1, <2>2
  <2>3. CASE acx' = [acx EXCEPT !.label = acx.label + 2]
    <3>1. acx.disp \in Nat /\ acx' = Labelled(acx, acx.disp, acx.label + 2)
      BY <2>1, <2>3 DEF Contexts, Labelled
    <3> QED
      BY <2>1, <3>1, ContextLabelled
  <2> QED
    BY <2>2, <2>3 DEF EndFor, Branch, EndProgram
<1>4. text' \in TextType
  <2>1. text \in TextType /\ acx.label \in Int
    BY DEF Structure, Typed, TextType, Contexts
  <2>2. CASE text' = text
    BY <2>1, <2>2
  <2>3. CASE text' = Local(Local(text, acx.label), acx.label + 1)
    <3>1. Local(text, acx.label) \in TextType
      BY <2>1, Texts
    <3> QED
      BY <2>1, <2>3, <3>1, Texts
  <2> QED
    BY <2>2, <2>3 DEF EndFor, Branch, EndProgram
<1>5. /\ statements' \in Nat /\ phase' \in {"run", "done"} /\ At("body") /\ open' = open
      /\ \/ chain' = chain
         \/ Innermost.loop /\ chain' = SubSeq(chain, 1, Len(chain) - 1)
  BY DEF EndFor, Branch, EndProgram, Statement, At, Structure, Typed
<1> QED
  BY <1>1, <1>2, <1>3, <1>4, <1>5 DEF BodyStep

-----------------------------------------------------------------------------
(* A step that changes the record of the current block, but not its name,  *)
(* its kind or, to the end, its stage.                                     *)
NewRecord(r) ==
  /\ blocks' = [blocks EXCEPT ![Current] = r]
  /\ r.name = blocks[Current].name /\ r.kind = blocks[Current].kind
  /\ open' = open

LEMMA NewRecordBlocks ==
  ASSUME Structure, NEW nv \in Nat, Len(vars) <= nv, NEW r \in BlockRec(nv), NewRecord(r)
  PROVE  /\ blocks' \in Seq(BlockRec(nv)) /\ Len(blocks') = Len(blocks)
         /\ DOMAIN blocks' = DOMAIN blocks /\ blocks'[Current] = r
         /\ \A b \in DOMAIN blocks : b # Current => blocks'[b] = blocks[b]
         /\ \A b \in DOMAIN blocks :
              blocks'[b].name = blocks[b].name /\ blocks'[b].kind = blocks[b].kind
<1>1. blocks \in Seq(BlockRec(Len(vars))) /\ Current \in DOMAIN blocks /\ Len(vars) \in Nat
  BY Here DEF Structure, Typed
<1>2. BlockRec(Len(vars)) \subseteq BlockRec(nv)
  BY <1>1, RecordsGrow
<1>3. blocks \in Seq(BlockRec(nv))
  BY <1>1, <1>2, Weakened
<1>4. blocks' = [blocks EXCEPT ![Current] = r]
  BY DEF NewRecord
<1>5. /\ blocks' \in Seq(BlockRec(nv)) /\ Len(blocks') = Len(blocks)
      /\ DOMAIN blocks' = DOMAIN blocks /\ blocks'[Current] = r
      /\ \A b \in DOMAIN blocks : b # Current => blocks'[b] = blocks[b]
  BY <1>1, <1>3, <1>4, Updated
<1> QED
  BY <1>5 DEF NewRecord

LEMMA NewRecordOpen ==
  ASSUME Structure, NEW nv \in Nat, Len(vars) <= nv, NEW r \in BlockRec(nv), NewRecord(r),
         r.stage # "done"
  PROVE  OpenOK' /\ Current' = Current
<1>1. Current' = Current /\ open' = open
  BY DEF NewRecord, Current
<1>2. OpenOK
  BY DEF Structure
<1>3. ASSUME NEW i \in DOMAIN open, i < Len(open)
      PROVE  blocks'[open[i].block].stage = "subs"
  <2>1. Len(open) \in DOMAIN open
    <3>1. DOMAIN open = 1..Len(open) /\ Len(open) \in Nat /\ Len(open) >= 1
      BY Here
    <3> QED
      BY <3>1
  <2>2. open[i].block < open[Len(open)].block
    BY <1>2, <1>3, <2>1 DEF OpenOK
  <2>3. open[i].block \in DOMAIN blocks /\ DOMAIN blocks = 1..Len(blocks)
    BY Here
  <2>4. Current \in DOMAIN blocks
    BY Here
  <2>5. open[i].block # Current
    BY <2>2, <2>3, <2>4 DEF Current
  <2> QED
    BY <1>2, <1>3, <2>3, <2>5, NewRecordBlocks DEF OpenOK
<1>4. blocks'[Current].stage # "done"
  BY NewRecordBlocks
<1>5. ASSUME NEW b \in DOMAIN blocks
      PROVE  b \in {open[i].block : i \in DOMAIN open} \/ blocks'[b].stage = "done"
  <2>1. CASE b = Current
    <3>1. Len(open) \in DOMAIN open
      <4>1. DOMAIN open = 1..Len(open) /\ Len(open) \in Nat /\ Len(open) >= 1
        BY Here
      <4> QED
        BY <4>1
    <3> QED
      BY <2>1, <3>1 DEF Current
  <2>2. CASE b # Current
    BY <1>2, <2>2, NewRecordBlocks DEF OpenOK
  <2> QED
    BY <2>1, <2>2
<1>6. DOMAIN blocks' = DOMAIN blocks
  BY NewRecordBlocks
<1>7. open[1].block = 1 /\ \A i, j \in DOMAIN open : i < j => open[i].block < open[j].block
  BY <1>2 DEF OpenOK
<1> QED
  BY <1>1, <1>3, <1>4, <1>5, <1>6, <1>7 DEF OpenOK

LEMMA NewRecordContext ==
  ASSUME Structure, NEW nv \in Nat, Len(vars) <= nv, NEW r \in BlockRec(nv), NewRecord(r),
         acx'.name = acx.name, acx'.kind = acx.kind,
         r.stage # "body" => AtRest(acx'),
         acx'.toplevel <=> Current = 1 /\ r.stage = "body"
  PROVE  ContextOK'
<1>1. Current' = Current /\ open' = open
  BY DEF NewRecord, Current
<1>2. ContextOK
  BY DEF Structure
<1>3. /\ DOMAIN blocks' = DOMAIN blocks /\ blocks'[Current] = r
      /\ \A b \in DOMAIN blocks :
           blocks'[b].name = blocks[b].name /\ blocks'[b].kind = blocks[b].kind
  BY NewRecordBlocks
<1>4. Current \in DOMAIN blocks /\ \A i \in DOMAIN open : open[i].block \in DOMAIN blocks
  BY Here
<1>5. OfBlock(acx, Current)'
  BY <1>1, <1>2, <1>3, <1>4 DEF ContextOK, OfBlock
<1>6. ASSUME NEW i \in DOMAIN open, i > 1
      PROVE  OfBlock(open[i].saved, open[i - 1].block)' /\ AtRest(open[i].saved)'
  <2>1. i - 1 \in DOMAIN open
    <3>1. DOMAIN open = 1..Len(open) /\ Len(open) \in Nat
      BY Here
    <3> QED
      BY <1>6, <3>1
  <2> QED
    BY <1>1, <1>2, <1>3, <1>4, <1>6, <2>1 DEF ContextOK, OfBlock, AtRest
<1>7. \A b \in DOMAIN blocks :
        IF b = 1 THEN blocks'[b].name = NONE /\ blocks'[b].kind = "procedure"
        ELSE blocks'[b].name \in Name
  BY <1>2, <1>3 DEF ContextOK
<1>8. blocks'[Current].stage # "body" => AtRest(acx')
  BY <1>3
<1>9. acx'.toplevel <=> Current = 1 /\ blocks'[Current].stage = "body"
  BY <1>3
<1>10. AtRest(acx)' = AtRest(acx')
  BY DEF AtRest
<1> QED
  BY <1>1, <1>3, <1>5, <1>6, <1>7, <1>8, <1>9, <1>10 DEF ContextOK

(* A variable is entered into the innermost scope. *)
Declared(x, role, k) ==
  /\ vars' = Append(vars, Var(Current, x, role, k))
  /\ chain' = [chain EXCEPT ![Len(chain)].vars[x] = Len(vars) + 1]

LEMMA DeclaredVars ==
  ASSUME Structure, NEW x \in Name, NEW role \in Role, NEW k \in Int, Declared(x, role, k)
  PROVE  /\ vars' \in Seq(Variables) /\ Len(vars') = Len(vars) + 1
         /\ DOMAIN vars' = 1..(Len(vars) + 1)
         /\ \A v \in DOMAIN vars : v \in DOMAIN vars' /\ vars'[v] = vars[v]
         /\ vars'[Len(vars) + 1] = Var(Current, x, role, k)
<1>1. Current \in Nat /\ Len(vars) \in Nat /\ DOMAIN vars = 1..Len(vars)
  <2>1. Current \in DOMAIN blocks /\ DOMAIN blocks = 1..Len(blocks) /\ Len(vars) \in Nat
    BY Here
  <2>2. DOMAIN vars = 1..Len(vars)
    BY Here
  <2> QED
    BY <2>1, <2>2
<1> DEFINE e == Var(Current, x, role, k)
<1>2. e \in Variables
  BY <1>1 DEF Var, Variables
<1>3. vars \in Seq(Variables) /\ vars' = Append(vars, e)
  BY DEF Structure, Typed, Declared
<1> HIDE DEF e
<1>4. /\ Append(vars, e) \in Seq(Variables) /\ Len(Append(vars, e)) = Len(vars) + 1
      /\ DOMAIN Append(vars, e) = 1..(Len(vars) + 1)
      /\ \A i \in 1..Len(vars) : Append(vars, e)[i] = vars[i]
      /\ Append(vars, e)[Len(vars) + 1] = e
  BY <1>2, <1>3, Appended
<1>5. 1..Len(vars) \subseteq 1..(Len(vars) + 1)
  BY <1>1
<1> QED
  BY <1>1, <1>3, <1>4, <1>5 DEF e

LEMMA DeclaredChain ==
  ASSUME Structure, NEW x \in Name, NEW role \in Role, NEW k \in Int, Declared(x, role, k)
  PROVE  /\ chain' \in Seq(ScopeRec(Len(blocks), Len(vars) + 1)) /\ chain' # <<>>
         /\ Len(chain') = Len(chain) /\ DOMAIN chain' = DOMAIN chain
         /\ \A i \in DOMAIN chain :
              chain'[i].block = chain[i].block /\ chain'[i].loop = chain[i].loop
         /\ \A i \in DOMAIN chain, y \in Name :
              chain'[i].vars[y] = IF i = Len(chain) /\ y = x THEN Len(vars) + 1
                                  ELSE chain[i].vars[y]
<1> DEFINE S == ScopeRec(Len(blocks), Len(vars) + 1)
           e == [Innermost EXCEPT !.vars = [@ EXCEPT ![x] = Len(vars) + 1]]
<1>1. /\ Len(vars) \in Nat /\ Len(blocks) \in Nat
      /\ Innermost \in ScopeRec(Len(blocks), Len(vars))
      /\ chain \in Seq(ScopeRec(Len(blocks), Len(vars)))
  BY Here DEF Structure, Typed
<1>2. Len(chain) \in DOMAIN chain
  <2>1. DOMAIN chain = 1..Len(chain) /\ Len(chain) \in Nat /\ Len(chain) >= 1
    BY Here
  <2> QED
    BY <2>1
<1>3. ScopeRec(Len(blocks), Len(vars)) \subseteq S
  <2>1. Len(vars) + 1 \in Nat /\ Len(vars) <= Len(vars) + 1 /\ Len(blocks) <= Len(blocks)
    BY <1>1
  <2> QED
    BY <1>1, <2>1, RecordsGrow
<1>4. e \in S
  <2>1. Innermost \in S /\ Len(vars) + 1 \in 1..(Len(vars) + 1)
    BY <1>1, <1>3
  <2> QED
    BY <2>1 DEF ScopeRec
<1>5. chain \in Seq(S)
  BY <1>1, <1>3, Weakened
<1>6. /\ e.block = Innermost.block /\ e.loop = Innermost.loop
      /\ \A y \in Name : e.vars[y] = IF y = x THEN Len(vars) + 1 ELSE Innermost.vars[y]
  BY <1>1 DEF ScopeRec
<1>7. chain' = [chain EXCEPT ![Len(chain)] = e]
  BY DEF Declared, Innermost
<1> HIDE DEF S, e
<1>8. /\ chain' \in Seq(S) /\ chain' # <<>> /\ Len(chain') = Len(chain)
      /\ DOMAIN chain' = DOMAIN chain /\ chain'[Len(chain)] = e
      /\ \A i \in DOMAIN chain : i # Len(chain) => chain'[i] = chain[i]
  BY <1>2, <1>4, <1>5, <1>7, Updated
<1>9. ASSUME NEW i \in DOMAIN chain
      PROVE  /\ chain'[i].block = chain[i].block /\ chain'[i].loop = chain[i].loop
             /\ \A y \in Name :
                  chain'[i].vars[y] = IF i = Len(chain) /\ y = x THEN Len(vars) + 1
                                      ELSE chain[i].vars[y]
  <2>1. CASE i = Len(chain)
    BY <1>6, <1>8, <2>1 DEF Innermost
  <2>2. CASE i # Len(chain)
    BY <1>8, <2>2
  <2> QED
    BY <2>1, <2>2
<1> QED
  BY <1>8, <1>9 DEF S

(* A declaration: AddLocal, and the end of a subprogram's declarations *)
LEMMA DeclareStructure ==
  ASSUME Structure, NEW x \in Name, NEW role \in Role, NEW k \in Int, Declared(x, role, k),
         NEW r \in BlockRec(Len(vars) + 1), NewRecord(r), r.stage \in {"decls", "subs"},
         At("decls"), UNCHANGED <<acx, text, statements, phase>>
  PROVE  Structure'
<1>1. blocks[Current].stage = "decls" /\ blocks[Current].stage # "body"
  BY DEF At
<1>2. /\ Len(vars) \in Nat /\ Len(vars) + 1 \in Nat /\ Len(vars) <= Len(vars) + 1
      /\ Len(blocks) \in Nat /\ Len(blocks) <= Len(blocks)
  <2>1. Len(vars) \in Nat /\ Len(blocks) \in Nat
    BY Here
  <2> QED
    BY <2>1
<1>3. r.stage # "done" /\ r.stage # "body"
  OBVIOUS
<1>4. OpenOK' /\ Current' = Current
  BY <1>2, <1>3, NewRecordOpen
<1>5. ContextOK'
  <2>1. AtRest(acx') /\ ~acx'.toplevel
    <3>1. AtRest(acx) /\ acx' = acx
      BY <1>1 DEF Structure, ContextOK
    <3> QED
      BY <3>1 DEF AtRest
  <2> QED
    BY <1>2, <1>3, <2>1, NewRecordContext
<1>6. /\ blocks' \in Seq(BlockRec(Len(vars) + 1)) /\ Len(blocks') = Len(blocks)
      /\ DOMAIN blocks' = DOMAIN blocks
  BY <1>2, NewRecordBlocks
<1>7. /\ vars' \in Seq(Variables) /\ Len(vars') = Len(vars) + 1
      /\ DOMAIN vars' = 1..(Len(vars) + 1)
      /\ \A v \in DOMAIN vars : v \in DOMAIN vars' /\ vars'[v] = vars[v]
      /\ vars'[Len(vars) + 1] = Var(Current, x, role, k)
  BY DeclaredVars
<1>8. Typed(Len(blocks), Len(vars))'
  <2>1. open' = open /\ open \in Seq(OpenRec(Len(blocks))) /\ open # <<>>
    BY DEF NewRecord, Structure, Typed
  <2>2. /\ acx' \in Contexts /\ statements' \in Nat /\ phase' \in {"run", "done", "error"}
        /\ text' \in [here : Name \cup {NONE},
                      labels : SUBSET ((Name \cup {NONE}) \X Int), clash : BOOLEAN]
    BY DEF Structure, Typed
  <2> QED
    BY <1>6, <1>7, <2>1, <2>2, DeclaredChain DEF Typed
<1>9. OwnersOK'
  <2>1. ASSUME NEW v \in DOMAIN vars' PROVE vars'[v].owner \in DOMAIN blocks
    <3>1. v \in DOMAIN vars \/ v = Len(vars) + 1
      <4>1. DOMAIN vars = 1..Len(vars)
        BY Here
      <4> QED
        BY <1>2, <1>7, <4>1
    <3>2. CASE v \in DOMAIN vars
      BY <1>7, <3>2 DEF Structure, OwnersOK
    <3>3. CASE v = Len(vars) + 1
      <4>1. Current \in DOMAIN blocks
        BY Here
      <4> QED
        BY <1>7, <3>3, <4>1 DEF Var
    <3> QED
      BY <3>1, <3>2, <3>3
  <2> QED
    BY <1>6, <2>1 DEF OwnersOK
<1>10. ChainOK'
  <2>1. Len(chain) = Len(open) /\ Innermost.block = Current /\ open' = open
    BY <1>1, Here DEF NewRecord
  <2>2. DOMAIN chain' = DOMAIN chain /\ Len(chain') = Len(chain)
    BY DeclaredChain
  <2>3. ASSUME NEW i \in DOMAIN chain'
        PROVE  i <= Len(open) /\ chain'[i].block = open[i].block /\ ~chain'[i].loop
    <3>1. i <= Len(open)
      <4>1. DOMAIN chain = 1..Len(chain) /\ Len(chain) \in Nat
        BY Here
      <4> QED
        BY <2>1, <2>2, <4>1
    <3> QED
      BY <2>2, <3>1, DeclaredChain DEF Structure, ChainOK
  <2>4. ASSUME NEW i \in DOMAIN chain', NEW y \in Name, chain'[i].vars[y] # NONE
        PROVE  /\ vars'[chain'[i].vars[y]].owner = chain'[i].block
               /\ vars'[chain'[i].vars[y]].name = y
    <3>1. CASE i = Len(chain) /\ y = x
      <4>1. chain'[i].vars[y] = Len(vars) + 1 /\ chain'[i].block = Current
        BY <2>1, <2>2, <3>1, DeclaredChain DEF Innermost
      <4> QED
        BY <1>7, <3>1, <4>1 DEF Var
    <3>2. CASE ~(i = Len(chain) /\ y = x)
      <4>1. chain'[i].vars[y] = chain[i].vars[y] /\ chain'[i].block = chain[i].block
        BY <2>2, <3>2, DeclaredChain
      <4>2. chain[i].vars[y] \in DOMAIN vars
        BY <2>2, <2>4, <4>1, Scopes
      <4>3. vars[chain[i].vars[y]].owner = chain[i].block /\ vars[chain[i].vars[y]].name = y
        BY <2>2, <2>4, <4>1 DEF Structure, ChainOK
      <4> QED
        BY <1>7, <4>1, <4>2, <4>3
    <3> QED
      BY <3>1, <3>2
  <2>5. Len(open') <= Len(chain')
    BY <2>1, <2>2 DEF Structure, ChainOK
  <2> QED
    BY <1>4, <2>1, <2>3, <2>4, <2>5 DEF ChainOK
<1> QED
  BY <1>4, <1>5, <1>6, <1>7, <1>8, <1>9, <1>10 DEF Structure

LEMMA AddLocalStructure == ASSUME Structure, NEW x \in Name, AddLocal(x) PROVE Structure'
<1> DEFINE r == [blocks[Current] EXCEPT !.locals = @ + 1]
<1>1. blocks[Current] \in BlockRec(Len(vars)) /\ Len(vars) \in Nat
  BY Here
<1>2. /\ r \in BlockRec(Len(vars)) /\ r.name = blocks[Current].name
      /\ r.kind = blocks[Current].kind /\ r.stage = blocks[Current].stage
      /\ blocks[Current].locals \in Int
  <2>1. blocks[Current].locals \in Nat
    BY <1>1 DEF BlockRec
  <2>2. ASSUME NEW q \in BlockRec(Len(vars)), NEW k \in Nat
        PROVE  [q EXCEPT !.locals = k] \in BlockRec(Len(vars))
    BY <1>1 DEF BlockRec
  <2>3. r = [blocks[Current] EXCEPT !.locals = blocks[Current].locals + 1]
    OBVIOUS
  <2>4. r \in BlockRec(Len(vars))
    <3>1. blocks[Current].locals + 1 \in Nat
      BY <2>1
    <3> HIDE DEF r
    <3> QED
      BY <1>1, <2>2, <2>3, <3>1
  <2>5. /\ r.name = blocks[Current].name /\ r.kind = blocks[Current].kind
        /\ r.stage = blocks[Current].stage
    BY <1>1 DEF BlockRec
  <2> HIDE DEF r
  <2> QED
    BY <2>1, <2>4, <2>5
<1>3. r \in BlockRec(Len(vars) + 1)
  <2> HIDE DEF r
  <2>1. Len(vars) + 1 \in Nat /\ Len(vars) <= Len(vars) + 1 /\ 0 \in Nat /\ 0 <= 0
    BY <1>1
  <2> QED
    BY <1>1, <1>2, <2>1, RecordsGrow
<1>4. blocks' = [blocks EXCEPT ![Current] = r]
  BY DEF AddLocal
<1>5. /\ Declared(x, "local", blocks[Current].locals) /\ At("decls") /\ open' = open
      /\ UNCHANGED <<acx, text, statements, phase>> /\ blocks[Current].stage = "decls"
  BY DEF AddLocal, Declared, At
<1> HIDE DEF r
<1>6. NewRecord(r) /\ r.stage \in {"decls", "subs"}
  BY <1>2, <1>4, <1>5 DEF NewRecord
<1>7. "local" \in Role
  BY DEF Role
<1> QED
  BY <1>2, <1>3, <1>5, <1>6, <1>7, DeclareStructure

(* A step of the current block that declares nothing: EndDecls of the      *)
(* program, and the prologue                                               *)
LEMMA RestStructure ==
  ASSUME Structure, NEW r \in BlockRec(Len(vars)), NewRecord(r), r.stage \in {"subs", "body"},
         blocks[Current].stage # "body",
         UNCHANGED <<chain, vars, statements, phase>>,
         acx' \in Contexts, acx'.name = acx.name, acx'.kind = acx.kind, text' \in TextType,
         r.stage # "body" => AtRest(acx'),
         acx'.toplevel <=> Current = 1 /\ r.stage = "body"
  PROVE  Structure'
<1>2. Len(vars) \in Nat /\ Len(vars) <= Len(vars) /\ r.stage # "done"
  <2>1. Len(vars) \in Nat
    BY Here
  <2> QED
    BY <2>1
<1>3. OpenOK' /\ Current' = Current
  BY <1>2, NewRecordOpen
<1>4. ContextOK'
  BY <1>2, NewRecordContext
<1>5. /\ blocks' \in Seq(BlockRec(Len(vars))) /\ Len(blocks') = Len(blocks)
      /\ DOMAIN blocks' = DOMAIN blocks
  BY <1>2, NewRecordBlocks
<1>6. open' = open /\ vars' = vars /\ chain' = chain
  BY DEF NewRecord
<1>7. Typed(Len(blocks), Len(vars))'
  <2>1. /\ open \in Seq(OpenRec(Len(blocks))) /\ open # <<>>
        /\ chain \in Seq(ScopeRec(Len(blocks), Len(vars))) /\ chain # <<>>
        /\ vars \in Seq(Variables) /\ statements' \in Nat /\ phase' \in {"run", "done", "error"}
    BY DEF Structure, Typed
  <2> QED
    BY <1>5, <1>6, <2>1 DEF Typed, TextType
<1>8. OwnersOK'
  BY <1>5, <1>6 DEF OwnersOK, Structure
<1>9. ChainOK'
  <2>1. Len(chain) = Len(open)
    BY Here
  <2>2. ChainOK
    BY DEF Structure
  <2>3. ASSUME NEW i \in DOMAIN chain PROVE i <= Len(open)
    <3>1. DOMAIN chain = 1..Len(chain) /\ Len(chain) \in Nat
      BY Here
    <3> QED
      BY <2>1, <3>1
  <2> QED
    BY <1>3, <1>6, <2>2, <2>3 DEF ChainOK
<1> QED
  BY <1>3, <1>4, <1>5, <1>6, <1>7, <1>8, <1>9 DEF Structure

LEMMA EndDeclsStructure == ASSUME Structure, EndDecls PROVE Structure'
<1> DEFINE r == [blocks[Current] EXCEPT !.stage = "subs"]
<1>1. blocks[Current] \in BlockRec(Len(vars)) /\ Len(vars) \in Nat /\ Current \in DOMAIN blocks
  BY Here
<1>2. /\ r \in BlockRec(Len(vars)) /\ r.name = blocks[Current].name
      /\ r.kind = blocks[Current].kind /\ r.stage = "subs"
      /\ blocks[Current].locals \in Int
  BY <1>1 DEF BlockRec
<1>3. r \in BlockRec(Len(vars) + 1)
  <2> HIDE DEF r
  <2>1. Len(vars) + 1 \in Nat /\ Len(vars) <= Len(vars) + 1 /\ 0 \in Nat /\ 0 <= 0
    BY <1>1
  <2> QED
    BY <1>1, <1>2, <2>1, RecordsGrow
<1>4. blocks' = [blocks EXCEPT ![Current] = r]
  BY DEF EndDecls
<1> HIDE DEF r
<1>5. /\ At("decls") /\ UNCHANGED <<acx, open, text, statements, phase>>
      /\ blocks[Current].stage = "decls"
  BY DEF EndDecls, At
<1>6. NewRecord(r)
  BY <1>2, <1>4, <1>5 DEF NewRecord
<1>7. AtRest(acx) /\ acx.name = blocks[Current].name
  BY <1>5 DEF Structure, ContextOK, OfBlock
<1>8. CASE Current = 1
  <2>1. /\ AtRest(acx') /\ ~acx'.toplevel /\ acx' \in Contexts /\ text' \in TextType
        /\ acx'.name = acx.name /\ acx'.kind = acx.kind
    BY <1>5, <1>7 DEF AtRest, Structure, Typed, TextType
  <2>2. UNCHANGED <<chain, vars, statements, phase>>
    BY <1>8 DEF EndDecls
  <2>3. r.stage \in {"subs", "body"} /\ blocks[Current].stage # "body" /\ r.stage # "body"
    BY <1>2, <1>5
  <2> QED
    BY <1>2, <1>6, <2>1, <2>2, <2>3, RestStructure
<1>9. CASE Current # 1
  <2>1. acx.name \in Name
    BY <1>1, <1>7, <1>9 DEF Structure, ContextOK
  <2>2. Declared(acx.name, "retslot", blocks[Current].locals)
    BY <1>9 DEF EndDecls, Declared
  <2>3. "retslot" \in Role
    BY DEF Role
  <2> QED
    BY <1>2, <1>3, <1>5, <1>6, <2>1, <2>2, <2>3, DeclareStructure
<1> QED
  BY <1>8, <1>9

(* What a prologue enters are variables, finitely many. *)
LEMMA FillsVars ==
  ASSUME Structure
  PROVE  /\ Fills \subseteq 1..Len(vars) /\ Pushes \in Nat
         /\ Fills = {} => Pushes = 0
<1>1. Len(chain) \in DOMAIN chain /\ DOMAIN vars = 1..Len(vars) /\ Len(vars) \in Nat
  <2>1. DOMAIN chain = 1..Len(chain) /\ Len(chain) \in Nat /\ Len(chain) >= 1
    BY Here
  <2>2. DOMAIN vars = 1..Len(vars) /\ Len(vars) \in Nat
    BY Here
  <2> QED
    BY <2>1, <2>2
<1>2. Fills \subseteq 1..Len(vars)
  <2>1. \A x \in Name : Innermost.vars[x] \in DOMAIN vars \cup {NONE}
    BY <1>1, Scopes DEF Innermost
  <2> QED
    BY <1>1, <2>1 DEF Fills
<1>3. IsFiniteSet(1..Len(vars))
  <2>1. 1 \in Int /\ Len(vars) \in Int
    BY <1>1
  <2> QED
    BY <2>1, FS_Interval
<1> DEFINE G == {v \in Fills : vars[v].name \in FirstBucket}
<1>4. IsFiniteSet(Fills) /\ IsFiniteSet(G)
  <2>1. G \subseteq 1..Len(vars)
    BY <1>2
  <2> HIDE DEF G
  <2> QED
    BY <1>2, <1>3, <2>1, FS_Subset
<1>5. Cardinality(Fills) \in Nat /\ Cardinality(G) \in Nat
  <2> HIDE DEF G
  <2> QED
    BY <1>4, FS_CardinalityType
<1>6. Pushes \in Nat
  BY <1>5 DEF Pushes
<1>7. ASSUME Fills = {} PROVE Pushes = 0
  <2>1. G = {}
    BY <1>7
  <2>2. Cardinality({}) = 0
    BY FS_EmptySet
  <2> HIDE DEF G
  <2>3. Cardinality(Fills) = 0 /\ Cardinality(G) = 0
    BY <1>7, <2>1, <2>2
  <2> QED
    BY <2>3 DEF Pushes, G
<1> QED
  BY <1>2, <1>6, <1>7

(* The record a prologue leaves *)
Entered(p, f, n) == [p EXCEPT !.stage = "body", !.fills = f, !.pushed = n, !.words = n]

LEMMA BlockEntered ==
  ASSUME NEW nv \in Nat, NEW p \in BlockRec(nv), NEW f \in SUBSET (1..nv), NEW n \in Nat
  PROVE  LET e == Entered(p, f, n)
         IN  /\ e \in BlockRec(nv) /\ e.name = p.name /\ e.kind = p.kind /\ e.stage = "body"
             /\ e.formals = p.formals /\ e.groups = p.groups /\ e.locals = p.locals
             /\ e.funcs = p.funcs /\ e.nested = p.nested /\ e.fills = f /\ e.pushed = n
             /\ e.words = n /\ e.loops = p.loops /\ e.left = p.left
             /\ e.written = p.written
<1>1. ASSUME NEW q \in BlockRec(nv) PROVE [q EXCEPT !.stage = "body"] \in BlockRec(nv)
  BY DEF BlockRec
<1>2. ASSUME NEW q \in BlockRec(nv) PROVE [q EXCEPT !.fills = f] \in BlockRec(nv)
  BY DEF BlockRec
<1>3. ASSUME NEW q \in BlockRec(nv) PROVE [q EXCEPT !.pushed = n] \in BlockRec(nv)
  BY DEF BlockRec
<1>4. ASSUME NEW q \in BlockRec(nv) PROVE [q EXCEPT !.words = n] \in BlockRec(nv)
  BY DEF BlockRec
<1>5. Entered(p, f, n) \in BlockRec(nv)
  BY <1>1, <1>2, <1>3, <1>4 DEF Entered
<1>6. LET e == Entered(p, f, n)
      IN  /\ e.name = p.name /\ e.kind = p.kind /\ e.stage = "body"
          /\ e.formals = p.formals /\ e.groups = p.groups /\ e.locals = p.locals
          /\ e.funcs = p.funcs /\ e.nested = p.nested /\ e.fills = f /\ e.pushed = n
          /\ e.words = n /\ e.loops = p.loops /\ e.left = p.left
             /\ e.written = p.written
  BY DEF BlockRec, Entered
<1> QED
  BY <1>5, <1>6

LEMMA PrologueStep ==
  ASSUME Structure, Prologue
  PROVE  LET n == IF Current = 1 THEN 0 ELSE Pushes
             e == Entered(blocks[Current], Fills, n)
         IN  /\ n \in Nat /\ e \in BlockRec(Len(vars)) /\ NewRecord(e)
             /\ blocks[Current].stage = "subs" /\ UNCHANGED <<chain, vars, statements, phase>>
<1> DEFINE n == IF Current = 1 THEN 0 ELSE Pushes
           e == Entered(blocks[Current], Fills, n)
<1>1. blocks[Current] \in BlockRec(Len(vars)) /\ Len(vars) \in Nat
  BY Here
<1>2. n \in Nat /\ Fills \in SUBSET (1..Len(vars))
  BY FillsVars
<1>4. blocks' = [blocks EXCEPT ![Current] = e]
  BY DEF Prologue, Entered
<1> HIDE DEF n
<1>3. e \in BlockRec(Len(vars)) /\ e.name = blocks[Current].name /\ e.kind = blocks[Current].kind
  BY <1>1, <1>2, BlockEntered
<1> HIDE DEF e
<1>5. /\ open' = open /\ blocks[Current].stage = "subs"
      /\ UNCHANGED <<chain, vars, statements, phase>>
  BY DEF Prologue, At
<1>6. NewRecord(e)
  BY <1>3, <1>4, <1>5 DEF NewRecord
<1> QED
  BY <1>2, <1>3, <1>5, <1>6 DEF e, n

LEMMA PrologueStructure == ASSUME Structure, Prologue PROVE Structure'
<1> DEFINE n == IF Current = 1 THEN 0 ELSE Pushes
           e == Entered(blocks[Current], Fills, n)
<1>1. /\ n \in Nat /\ e \in BlockRec(Len(vars)) /\ NewRecord(e)
      /\ blocks[Current].stage = "subs" /\ UNCHANGED <<chain, vars, statements, phase>>
  BY PrologueStep
<1>2. e.stage = "body"
  <2>1. blocks[Current] \in BlockRec(Len(vars)) /\ Len(vars) \in Nat
    BY Here
  <2>2. n \in Nat /\ Fills \in SUBSET (1..Len(vars))
    BY FillsVars
  <2> HIDE DEF n
  <2> QED
    BY <2>1, <2>2, BlockEntered
<1> HIDE DEF e, n
<1>3. AtRest(acx) /\ acx \in Contexts /\ text \in TextType
  BY <1>1 DEF Structure, ContextOK, Typed, TextType
<1>4. /\ acx' \in Contexts /\ acx'.name = acx.name /\ acx'.kind = acx.kind
      /\ text' \in TextType /\ (acx'.toplevel <=> Current = 1)
  <2>1. CASE Current = 1
    <3>1. text' = Global(text, NONE) /\ acx' = [acx EXCEPT !.toplevel = TRUE]
      BY <2>1 DEF Prologue
    <3>2. 0 \in Int /\ NONE \in Name \cup {NONE}
      OBVIOUS
    <3>3. text' \in TextType
      BY <1>3, <3>1, <3>2, Texts
    <3> QED
      BY <1>3, <2>1, <3>1, <3>3 DEF Contexts
  <2>2. CASE Current # 1
    BY <1>3, <2>2 DEF Prologue, AtRest
  <2> QED
    BY <2>1, <2>2
<1> QED
  BY <1>1, <1>2, <1>4, RestStructure

-----------------------------------------------------------------------------
(* The start of a subprogram, part by part *)

Join(s, t) == s \o t

LEMMA Joined ==
  ASSUME NEW S, NEW s \in Seq(S), NEW t \in Seq(S)
  PROVE  /\ Join(s, t) \in Seq(S) /\ Len(Join(s, t)) = Len(s) + Len(t)
         /\ DOMAIN Join(s, t) = 1..(Len(s) + Len(t))
         /\ \A i \in 1..Len(s) : Join(s, t)[i] = s[i]
         /\ \A i \in 1..Len(t) : Join(s, t)[Len(s) + i] = t[i]
<1>1. Len(s) \in Nat /\ Len(t) \in Nat
  OBVIOUS
<1>2. s \o t \in Seq(S) /\ Len(s \o t) = Len(s) + Len(t)
  OBVIOUS
<1>3. \A i \in 1..(Len(s) + Len(t)) :
        (s \o t)[i] = IF i <= Len(s) THEN s[i] ELSE t[i - Len(s)]
  OBVIOUS
<1>4. \A i \in 1..Len(s) : (s \o t)[i] = s[i]
  BY <1>1, <1>3
<1>5. ASSUME NEW i \in 1..Len(t) PROVE (s \o t)[Len(s) + i] = t[i]
  <2>1. /\ Len(s) + i \in 1..(Len(s) + Len(t)) /\ ~(Len(s) + i <= Len(s))
        /\ (Len(s) + i) - Len(s) = i
    BY <1>1
  <2> QED
    BY <1>3, <2>1
<1>6. DOMAIN (s \o t) = 1..(Len(s) + Len(t))
  BY <1>2
<1> QED
  BY <1>2, <1>4, <1>5, <1>6 DEF Join

LEMMA Listed ==
  ASSUME NEW S, NEW n \in Nat, NEW f \in [1..n -> S]
  PROVE  f \in Seq(S) /\ Len(f) = n
OBVIOUS

Index(s, x) == CHOOSE i \in 1..Len(s) : s[i] = x
Bound(s) == {s[i] : i \in 1..Len(s)}
Hidden(s) == {Innermost.vars[x] : x \in Bound(s)}
KeptVars(s) ==
  [v \in DOMAIN vars |-> IF v \in Hidden(s) THEN [vars[v] EXCEPT !.lost = @ \cup {"hidden"}]
                         ELSE vars[v]]
LeakedVars(s) == [i \in 1..Len(s) |-> Var(Current, s[i], "leaked", -1)]
FormalVars(s, g) == [i \in 1..Len(s) |-> Var(Len(blocks) + 1, s[i], "formal", FormalOffset(g, i))]
Around(s) ==
  [Innermost EXCEPT !.vars =
     [x \in Name |-> IF x \in Bound(s) THEN Len(vars) + Index(s, x) ELSE @[x]]]
Inside(s) ==
  [Scope(Len(blocks) + 1, FALSE) EXCEPT !.vars =
     [x \in Name |-> IF x \in Bound(s) THEN Len(vars) + Len(s) + Index(s, x) ELSE NONE]]
Outer(f) == [blocks[Current] EXCEPT !.funcs = @ \cup {f}, !.nested = Current # 1]
Started(c, f, kind) ==
  [c EXCEPT !.name = f, !.kind = kind, !.assigned = FALSE, !.label = 0]

LEMMA BeginParts ==
  ASSUME NEW f, NEW kind, NEW s, NEW g, BeginSubprogram(f, kind, s, g)
  PROVE  /\ At("subs") /\ Len(blocks) < MaxBlocks /\ f \notin blocks[Current].funcs
         /\ vars' = (KeptVars(s) \o LeakedVars(s)) \o FormalVars(s, g)
         /\ chain' = Append([chain EXCEPT ![Len(chain)] = Around(s)], Inside(s))
         /\ blocks' = Append([blocks EXCEPT ![Current] = Outer(f)],
                             Block(f, kind, Current, Len(s), g))
         /\ open' = Append(open, [block |-> Len(blocks) + 1, saved |-> acx])
         /\ acx' = Started(acx, f, kind)
         /\ text' = Global(text, f) /\ UNCHANGED <<statements, phase>>
<1>1. /\ At("subs") /\ Len(blocks) < MaxBlocks /\ f \notin blocks[Current].funcs
      /\ text' = Global(text, f) /\ UNCHANGED <<statements, phase>>
      /\ open' = Append(open, [block |-> Len(blocks) + 1, saved |-> acx])
  BY DEF BeginSubprogram
<1>2. vars' = (KeptVars(s) \o LeakedVars(s)) \o FormalVars(s, g)
  BY DEF BeginSubprogram, KeptVars, LeakedVars, FormalVars, Hidden, Bound
<1>3. chain' = Append([chain EXCEPT ![Len(chain)] = Around(s)], Inside(s))
  BY DEF BeginSubprogram, Around, Inside, Bound, Index, Innermost
<1>4. blocks' = Append([blocks EXCEPT ![Current] = Outer(f)], Block(f, kind, Current, Len(s), g))
  BY DEF BeginSubprogram, Outer
<1>5. acx' = Started(acx, f, kind)
  BY DEF BeginSubprogram, Started
<1> QED
  BY <1>1, <1>2, <1>3, <1>4, <1>5

LEMMA FormalsType ==
  ASSUME NEW s \in Formals
  PROVE  /\ s \in Seq(Name) /\ Len(s) \in Nat /\ \A i \in 1..Len(s) : s[i] \in Name
         /\ \A i, j \in 1..Len(s) : s[i] = s[j] => i = j
<1>1. PICK n \in 0..MaxFormals : s \in [1..n -> Name]
  BY DEF Formals
<1>2. n \in Nat
  OBVIOUS
<1>3. s \in Seq(Name) /\ Len(s) = n
  BY <1>1, <1>2, Listed
<1>4. \A i, j \in DOMAIN s : s[i] = s[j] => i = j
  BY DEF Formals
<1> QED
  BY <1>1, <1>2, <1>3, <1>4

LEMMA Indexed ==
  ASSUME NEW s \in Formals
  PROVE  \A x \in Bound(s) : x \in Name /\ Index(s, x) \in 1..Len(s) /\ s[Index(s, x)] = x
<1>1. \A x \in Bound(s) : \E i \in 1..Len(s) : s[i] = x
  BY DEF Bound
<1> QED
  BY <1>1, FormalsType DEF Index

(* Of the variables there are, the hidden ones are marked. *)
SameUse(p, q) == p.captured = q.captured /\ p.slot = q.slot /\ q.lost \subseteq p.lost

LEMMA BeginVars ==
  ASSUME Structure, NEW f \in Name, NEW kind, NEW s \in Formals, NEW g \in Nat,
         BeginSubprogram(f, kind, s, g)
  PROVE  /\ vars' \in Seq(Variables) /\ Len(vars') = Len(vars) + Len(s) + Len(s)
         /\ DOMAIN vars' = 1..(Len(vars) + Len(s) + Len(s))
         /\ \A v \in DOMAIN vars :
              SameVar(vars'[v], vars[v]) /\ SameUse(vars'[v], vars[v])
         /\ \A v \in DOMAIN vars : "hidden" \in vars'[v].lost \/
              (vars'[v] = vars[v] /\ v \notin Hidden(s))
         /\ \A i \in 1..Len(s) :
              /\ vars'[Len(vars) + i] = Var(Current, s[i], "leaked", -1)
              /\ vars'[Len(vars) + Len(s) + i]
                   = Var(Len(blocks) + 1, s[i], "formal", FormalOffset(g, i))
<1> DEFINE m == Len(vars)
           n == Len(s)
           a == KeptVars(s)
           b == LeakedVars(s)
           c == FormalVars(s, g)
<1>1. /\ m \in Nat /\ DOMAIN vars = 1..m /\ Current \in Nat /\ Len(blocks) + 1 \in Nat
      /\ vars \in Seq(Variables)
  <2>1. Current \in DOMAIN blocks /\ DOMAIN blocks = 1..Len(blocks) /\ Len(blocks) \in Nat
    BY Here
  <2>2. m \in Nat /\ DOMAIN vars = 1..m
    BY Here
  <2>3. vars \in Seq(Variables)
    BY DEF Structure, Typed
  <2> QED
    BY <2>1, <2>2, <2>3
<1>2. n \in Nat /\ \A i \in 1..n : s[i] \in Name
  BY FormalsType
<1>3. /\ \A v \in 1..m : /\ a[v] \in Variables /\ SameVar(a[v], vars[v])
                         /\ SameUse(a[v], vars[v])
                         /\ "hidden" \in a[v].lost \/ (a[v] = vars[v] /\ v \notin Hidden(s))
      /\ a \in [1..m -> Variables]
  <2>1. ASSUME NEW v \in 1..m
        PROVE  /\ a[v] \in Variables /\ SameVar(a[v], vars[v]) /\ SameUse(a[v], vars[v])
               /\ "hidden" \in a[v].lost \/ (a[v] = vars[v] /\ v \notin Hidden(s))
    <3>1. vars[v] \in Variables
      BY <1>1
    <3>2. CASE v \in Hidden(s)
      <4>1. a[v] = [vars[v] EXCEPT !.lost = @ \cup {"hidden"}]
        BY <1>1, <3>2 DEF KeptVars
      <4> QED
        BY <3>1, <4>1 DEF Variables, SameVar, SameUse
    <3>3. CASE v \notin Hidden(s)
      <4>1. a[v] = vars[v]
        BY <1>1, <3>3 DEF KeptVars
      <4> QED
        BY <3>1, <3>3, <4>1 DEF SameVar, SameUse
    <3> QED
      BY <3>2, <3>3
  <2>2. a = [v \in 1..m |-> a[v]]
    BY <1>1 DEF KeptVars
  <2> HIDE DEF a, m
  <2> QED
    BY <2>1, <2>2
<1>4. b \in [1..n -> Variables] /\ \A i \in 1..n : b[i] = Var(Current, s[i], "leaked", -1)
  BY <1>1, <1>2 DEF LeakedVars, Var, Variables, Role
<1>5. /\ c \in [1..n -> Variables]
      /\ \A i \in 1..n : c[i] = Var(Len(blocks) + 1, s[i], "formal", FormalOffset(g, i))
  <2>1. \A i \in 1..n : FormalOffset(g, i) \in Int
    BY DEF FormalOffset
  <2> QED
    BY <1>1, <1>2, <2>1 DEF FormalVars, Var, Variables, Role
<1>6. vars' = Join(Join(a, b), c)
  BY BeginParts DEF Join
<1> HIDE DEF a, b, c, m, n
<1>7. a \in Seq(Variables) /\ b \in Seq(Variables) /\ c \in Seq(Variables)
      /\ Len(a) = m /\ Len(b) = n /\ Len(c) = n
  BY <1>1, <1>2, <1>3, <1>4, <1>5, Listed
<1>8. /\ Join(a, b) \in Seq(Variables) /\ Len(Join(a, b)) = m + n
      /\ \A i \in 1..m : Join(a, b)[i] = a[i]
      /\ \A i \in 1..n : Join(a, b)[m + i] = b[i]
  <2>1. /\ Join(a, b) \in Seq(Variables) /\ Len(Join(a, b)) = Len(a) + Len(b)
        /\ \A i \in 1..Len(a) : Join(a, b)[i] = a[i]
        /\ \A i \in 1..Len(b) : Join(a, b)[Len(a) + i] = b[i]
    <3>1. a \in Seq(Variables) /\ b \in Seq(Variables)
      BY <1>7
    <3>2. Join(a, b) \in Seq(Variables) /\ Len(Join(a, b)) = Len(a) + Len(b)
      BY <3>1, Joined
    <3>3. \A i \in 1..Len(a) : Join(a, b)[i] = a[i]
      BY <3>1, Joined
    <3>4. \A i \in 1..Len(b) : Join(a, b)[Len(a) + i] = b[i]
      BY <3>1, Joined
    <3> QED
      BY <3>2, <3>3, <3>4
  <2> QED
    BY <1>7, <2>1
<1> DEFINE d == Join(a, b)
<1> HIDE DEF d
<1>9. /\ Join(d, c) \in Seq(Variables) /\ Len(Join(d, c)) = m + n + n
      /\ DOMAIN Join(d, c) = 1..(m + n + n)
      /\ \A i \in 1..(m + n) : Join(d, c)[i] = d[i]
      /\ \A i \in 1..n : Join(d, c)[m + n + i] = c[i]
  <2>1. d \in Seq(Variables) /\ Len(d) = m + n
    BY <1>8 DEF d
  <2>2. /\ Join(d, c) \in Seq(Variables) /\ Len(Join(d, c)) = Len(d) + Len(c)
        /\ DOMAIN Join(d, c) = 1..(Len(d) + Len(c))
        /\ \A i \in 1..Len(d) : Join(d, c)[i] = d[i]
        /\ \A i \in 1..Len(c) : Join(d, c)[Len(d) + i] = c[i]
    <3>1. d \in Seq(Variables) /\ c \in Seq(Variables)
      BY <1>7, <2>1
    <3>2. /\ Join(d, c) \in Seq(Variables) /\ Len(Join(d, c)) = Len(d) + Len(c)
          /\ DOMAIN Join(d, c) = 1..(Len(d) + Len(c))
      BY <3>1, Joined
    <3>3. \A i \in 1..Len(d) : Join(d, c)[i] = d[i]
      BY <3>1, Joined
    <3>4. \A i \in 1..Len(c) : Join(d, c)[Len(d) + i] = c[i]
      BY <3>1, Joined
    <3> QED
      BY <3>2, <3>3, <3>4
  <2> QED
    BY <1>7, <2>1, <2>2
<1>10. \A i \in 1..m : i \in 1..(m + n)
  BY <1>1, <1>2
<1>11. \A i \in 1..n : m + i \in 1..(m + n)
  BY <1>1, <1>2
<1>12. vars' = Join(d, c)
  BY <1>6 DEF d
<1>13. \A i \in 1..m : vars'[i] = a[i]
  BY <1>8, <1>9, <1>10, <1>12 DEF d
<1>14. \A i \in 1..n : vars'[m + i] = b[i] /\ vars'[m + n + i] = c[i]
  BY <1>8, <1>9, <1>11, <1>12 DEF d
<1>15. vars' \in Seq(Variables) /\ Len(vars') = m + n + n /\ DOMAIN vars' = 1..(m + n + n)
  BY <1>9, <1>12
<1> QED
  BY <1>1, <1>3, <1>4, <1>5, <1>13, <1>14, <1>15 DEF m, n

(* The variables that the formals make: a leaked one in the block around   *)
(* the subprogram and a formal of the new block.                           *)
NewVars(s, g) ==
  \A i \in 1..Len(s) :
    /\ vars'[Len(vars) + i] = Var(Current, s[i], "leaked", -1)
    /\ vars'[Len(vars) + Len(s) + i] = Var(Len(blocks) + 1, s[i], "formal", FormalOffset(g, i))

LEMMA BeginNew ==
  ASSUME Structure, NEW f \in Name, NEW kind, NEW s \in Formals, NEW g \in Nat,
         BeginSubprogram(f, kind, s, g)
  PROVE  NewVars(s, g)
  BY BeginVars, ZenonT(90) DEF NewVars

(* Which variables there are after it *)
LEMMA BeginVarCases ==
  ASSUME NEW m \in Nat, NEW n \in Nat, NEW v \in 1..(m + n + n)
  PROVE  \/ v \in 1..m
         \/ \E i \in 1..n : v = m + i
         \/ \E i \in 1..n : v = m + n + i
<1>1. CASE v <= m
  BY <1>1
<1>2. CASE m < v /\ v <= m + n
  <2>1. v - m \in 1..n /\ v = m + (v - m)
    BY <1>2
  <2> QED
    BY <2>1
<1>3. CASE m + n < v
  <2>1. v - (m + n) \in 1..n /\ v = m + n + (v - (m + n))
    BY <1>3
  <2> QED
    BY <2>1
<1> QED
  BY <1>1, <1>2, <1>3

LEMMA BeginChain ==
  ASSUME Structure, NEW f \in Name, NEW kind, NEW s \in Formals, NEW g \in Nat,
         BeginSubprogram(f, kind, s, g)
  PROVE  LET m == Len(vars)
             n == Len(s)
             k == Len(chain)
         IN  /\ chain' \in Seq(ScopeRec(Len(blocks) + 1, m + n + n)) /\ chain' # <<>>
             /\ Len(chain') = k + 1 /\ DOMAIN chain' = 1..(k + 1)
             /\ \A i \in 1..k : /\ chain'[i].block = chain[i].block
                                /\ chain'[i].loop = chain[i].loop
                                /\ i # k => chain'[i].vars = chain[i].vars
             /\ chain'[k + 1].block = Len(blocks) + 1 /\ chain'[k + 1].loop = FALSE
             /\ \A x \in Name : chain'[k].vars[x] =
                  IF x \in Bound(s) THEN m + Index(s, x) ELSE Innermost.vars[x]
             /\ \A x \in Name : chain'[k + 1].vars[x] =
                  IF x \in Bound(s) THEN m + n + Index(s, x) ELSE NONE
<1> DEFINE m == Len(vars)
           n == Len(s)
           k == Len(chain)
           nb == Len(blocks)
           S == ScopeRec(nb + 1, m + n + n)
           p == Around(s)
           q == Inside(s)
<1>1. m \in Nat /\ nb \in Nat /\ Innermost \in ScopeRec(nb, m) /\ chain \in Seq(ScopeRec(nb, m))
  BY Here DEF Structure, Typed
<1>2. k \in Nat /\ k \in DOMAIN chain /\ DOMAIN chain = 1..k
  <2>1. DOMAIN chain = 1..k /\ k \in Nat /\ k >= 1
    BY Here
  <2> QED
    BY <2>1
<1>3. n \in Nat
  BY FormalsType
<1>4. ScopeRec(nb, m) \subseteq S
  <2>1. nb + 1 \in Nat /\ m + n + n \in Nat /\ nb <= nb + 1 /\ m <= m + n + n
    BY <1>1, <1>3
  <2> QED
    BY <1>1, <2>1, RecordsGrow
<1>5. ASSUME NEW x \in Bound(s)
      PROVE  m + Index(s, x) \in 1..(m + n + n) /\ m + n + Index(s, x) \in 1..(m + n + n)
  <2>1. Index(s, x) \in 1..n
    BY Indexed
  <2> QED
    BY <1>1, <1>3, <2>1
<1>6. /\ p \in S /\ p.block = Innermost.block /\ p.loop = Innermost.loop
      /\ \A x \in Name : p.vars[x] =
           IF x \in Bound(s) THEN m + Index(s, x) ELSE Innermost.vars[x]
  <2>1. Innermost \in S
    BY <1>1, <1>4
  <2>2. Innermost.vars \in [Name -> (1..(m + n + n)) \cup {NONE}]
    BY <2>1 DEF ScopeRec
  <2> DEFINE w == [x \in Name |-> IF x \in Bound(s) THEN m + Index(s, x) ELSE Innermost.vars[x]]
  <2>3. w \in [Name -> (1..(m + n + n)) \cup {NONE}]
    BY <1>5, <2>2
  <2>4. p = [Innermost EXCEPT !.vars = w]
    BY DEF Around
  <2>5. \A x \in Name : w[x] = IF x \in Bound(s) THEN m + Index(s, x) ELSE Innermost.vars[x]
    OBVIOUS
  <2> HIDE DEF w, p
  <2> QED
    BY <2>1, <2>3, <2>4, <2>5 DEF ScopeRec
<1>7. /\ q \in S /\ q.block = nb + 1 /\ q.loop = FALSE
      /\ \A x \in Name : q.vars[x] = IF x \in Bound(s) THEN m + n + Index(s, x) ELSE NONE
  <2> DEFINE w == [x \in Name |-> IF x \in Bound(s) THEN m + n + Index(s, x) ELSE NONE]
  <2>1. w \in [Name -> (1..(m + n + n)) \cup {NONE}]
    BY <1>5
  <2>2. q = [Scope(nb + 1, FALSE) EXCEPT !.vars = w]
    BY DEF Inside
  <2>3. \A x \in Name : w[x] = IF x \in Bound(s) THEN m + n + Index(s, x) ELSE NONE
    OBVIOUS
  <2>4. nb + 1 \in 1..(nb + 1)
    BY <1>1
  <2> HIDE DEF w, q
  <2>5. /\ Scope(nb + 1, FALSE) \in S /\ Scope(nb + 1, FALSE).block = nb + 1
        /\ Scope(nb + 1, FALSE).loop = FALSE
    BY <2>4 DEF ScopeRec, Scope
  <2> QED
    BY <2>1, <2>2, <2>3, <2>5 DEF ScopeRec
<1>8. chain' = Append([chain EXCEPT ![k] = p], q)
  BY BeginParts
<1> DEFINE c == [chain EXCEPT ![k] = p]
<1>9. chain \in Seq(S)
  BY <1>1, <1>4, Weakened
<1> HIDE DEF S, p, q, m, n, k, nb
<1>10. /\ c \in Seq(S) /\ Len(c) = Len(chain) /\ c[k] = p
       /\ \A i \in DOMAIN chain : i # k => c[i] = chain[i]
  BY <1>2, <1>6, <1>9, Updated
<1>11. chain' = Append(c, q) /\ Len(c) = k
  BY <1>8, <1>10 DEF k
<1> HIDE DEF c
<1>12. /\ chain' \in Seq(S) /\ chain' # <<>> /\ Len(chain') = k + 1
       /\ DOMAIN chain' = 1..(k + 1) /\ chain'[k + 1] = q
       /\ \A i \in 1..k : chain'[i] = c[i]
  <2>1. /\ Append(c, q) \in Seq(S) /\ Append(c, q) # <<>>
        /\ Len(Append(c, q)) = Len(c) + 1 /\ DOMAIN Append(c, q) = 1..(Len(c) + 1)
        /\ \A i \in 1..Len(c) : Append(c, q)[i] = c[i]
        /\ Append(c, q)[Len(c) + 1] = q
    BY <1>7, <1>10, Appended
  <2> QED
    BY <1>11, <2>1
<1>13. chain'[k] = p
  BY <1>2, <1>10, <1>12
<1>14. \A i \in 1..k : /\ chain'[i].block = chain[i].block /\ chain'[i].loop = chain[i].loop
                       /\ i # k => chain'[i].vars = chain[i].vars
  <2>1. p.block = chain[k].block /\ p.loop = chain[k].loop
    BY <1>6 DEF Innermost, k
  <2> QED
    BY <1>2, <1>10, <1>12, <1>13, <2>1
<1>15. /\ chain'[k + 1].block = nb + 1 /\ chain'[k + 1].loop = FALSE
       /\ \A x \in Name : chain'[k].vars[x] =
            IF x \in Bound(s) THEN m + Index(s, x) ELSE Innermost.vars[x]
       /\ \A x \in Name : chain'[k + 1].vars[x] =
            IF x \in Bound(s) THEN m + n + Index(s, x) ELSE NONE
  BY <1>6, <1>7, <1>12, <1>13
<1> QED
  BY <1>12, <1>14, <1>15 DEF S, m, n, k, nb

LEMMA BeginBlocks ==
  ASSUME Structure, NEW f \in Name, NEW kind \in {"procedure", "function"},
         NEW s \in Formals, NEW g \in Nat, BeginSubprogram(f, kind, s, g)
  PROVE  LET nb == Len(blocks)
         IN  /\ blocks' \in Seq(BlockRec(Len(vars) + Len(s) + Len(s))) /\ Len(blocks') = nb + 1
             /\ DOMAIN blocks' = 1..(nb + 1)
             /\ blocks'[nb + 1] = Block(f, kind, Current, Len(s), g)
             /\ \A b \in 1..nb : b # Current => blocks'[b] = blocks[b]
             /\ blocks'[Current] = Outer(f) /\ blocks[Current].stage = "subs"
<1> DEFINE nb == Len(blocks)
           nv == Len(vars) + Len(s) + Len(s)
           S == BlockRec(nv)
           p == Outer(f)
           q == Block(f, kind, Current, Len(s), g)
<1>1. /\ nb \in Nat /\ Len(vars) \in Nat /\ blocks[Current] \in BlockRec(Len(vars))
      /\ Current \in DOMAIN blocks /\ DOMAIN blocks = 1..nb
      /\ blocks \in Seq(BlockRec(Len(vars)))
  BY Here DEF Structure, Typed
<1>2. Len(s) \in Nat
  BY FormalsType
<1>3. BlockRec(Len(vars)) \subseteq S
  <2>1. nv \in Nat /\ Len(vars) <= nv /\ 0 \in Nat /\ 0 <= 0
    BY <1>1, <1>2
  <2> QED
    BY <1>1, <2>1, RecordsGrow
<1>4. p \in S
  <2>1. blocks[Current] \in S /\ f \in Name
    BY <1>1, <1>3
  <2>2. \A e \in S : [e EXCEPT !.funcs = e.funcs \cup {f}] \in S
    BY <2>1 DEF BlockRec
  <2>3. \A e \in S : [e EXCEPT !.nested = (Current # 1)] \in S
    BY DEF BlockRec
  <2> QED
    BY <2>1, <2>2, <2>3 DEF Outer
<1>5. q \in S
  <2>1. Current \in Nat
    BY <1>1
  <2> QED
    BY <1>2, <2>1 DEF BlockRec, Block
<1>6. blocks' = Append([blocks EXCEPT ![Current] = p], q) /\ blocks[Current].stage = "subs"
  BY BeginParts DEF At
<1> DEFINE c == [blocks EXCEPT ![Current] = p]
<1>7. blocks \in Seq(S)
  BY <1>1, <1>3, Weakened
<1> HIDE DEF S, p, q, nb, nv
<1>8. /\ c \in Seq(S) /\ Len(c) = Len(blocks) /\ c[Current] = p
      /\ \A b \in DOMAIN blocks : b # Current => c[b] = blocks[b]
  BY <1>1, <1>4, <1>7, Updated
<1>9. blocks' = Append(c, q) /\ Len(c) = nb
  BY <1>6, <1>8 DEF nb
<1> HIDE DEF c
<1>10. /\ blocks' \in Seq(S) /\ Len(blocks') = nb + 1 /\ DOMAIN blocks' = 1..(nb + 1)
       /\ \A b \in 1..nb : blocks'[b] = c[b]
       /\ blocks'[nb + 1] = q
  <2>1. /\ Append(c, q) \in Seq(S) /\ Len(Append(c, q)) = Len(c) + 1
        /\ DOMAIN Append(c, q) = 1..(Len(c) + 1)
        /\ \A i \in 1..Len(c) : Append(c, q)[i] = c[i]
        /\ Append(c, q)[Len(c) + 1] = q
    BY <1>5, <1>8, Appended
  <2> QED
    BY <1>9, <2>1
<1>11. \A b \in 1..nb : b # Current => blocks'[b] = blocks[b]
  BY <1>1, <1>8, <1>10
<1>12. blocks'[Current] = p
  BY <1>1, <1>8, <1>10
<1> QED
  BY <1>6, <1>10, <1>11, <1>12 DEF S, nb, nv, p, q

LEMMA BeginOpen ==
  ASSUME Structure, NEW f, NEW kind, NEW s, NEW g, BeginSubprogram(f, kind, s, g)
  PROVE  LET n == Len(open)
         IN  /\ open' \in Seq(OpenRec(Len(blocks) + 1)) /\ open' # <<>>
             /\ Len(open') = n + 1 /\ DOMAIN open' = 1..(n + 1)
             /\ \A i \in 1..n : open'[i] = open[i]
             /\ open'[n + 1].block = Len(blocks) + 1 /\ open'[n + 1].saved = acx
             /\ Current' = Len(blocks) + 1
<1> DEFINE nb == Len(blocks)
           e == [block |-> nb + 1, saved |-> acx]
           S == OpenRec(nb + 1)
<1>1. nb \in Nat /\ open \in Seq(OpenRec(nb)) /\ acx \in Contexts
  BY Here DEF Structure, Typed
<1>2. e \in S
  <2>1. nb + 1 \in 1..(nb + 1)
    BY <1>1
  <2> QED
    BY <1>1, <2>1 DEF OpenRec
<1>3. OpenRec(nb) \subseteq S
  <2>1. nb + 1 \in Nat /\ nb <= nb + 1 /\ 0 \in Nat /\ 0 <= 0
    BY <1>1
  <2> QED
    BY <1>1, <2>1, RecordsGrow
<1>4. open \in Seq(S)
  BY <1>1, <1>3, Weakened
<1>5. open' = Append(open, e) /\ e.block = nb + 1 /\ e.saved = acx
  BY BeginParts
<1> HIDE DEF S, e, nb
<1>6. /\ open' \in Seq(S) /\ open' # <<>> /\ Len(open') = Len(open) + 1
      /\ DOMAIN open' = 1..(Len(open) + 1) /\ open'[Len(open) + 1] = e
      /\ \A i \in 1..Len(open) : open'[i] = open[i]
  BY <1>2, <1>4, <1>5, Appended
<1>7. Current' = nb + 1
  BY <1>5, <1>6 DEF Current
<1> QED
  BY <1>5, <1>6, <1>7 DEF S, nb

LEMMA BlockOuter ==
  ASSUME Structure, NEW f
  PROVE  LET e == Outer(f)
             p == blocks[Current]
         IN  /\ e.name = p.name /\ e.kind = p.kind /\ e.stage = p.stage
             /\ e.formals = p.formals /\ e.groups = p.groups /\ e.locals = p.locals
             /\ e.funcs = p.funcs \cup {f} /\ e.nested = (Current # 1) /\ e.fills = p.fills
             /\ e.pushed = p.pushed /\ e.words = p.words /\ e.loops = p.loops
             /\ e.left = p.left
             /\ e.written = p.written
<1>1. blocks[Current] \in BlockRec(Len(vars))
  BY Here
<1> QED
  BY <1>1 DEF BlockRec, Outer

LEMMA BlockNew ==
  ASSUME NEW f, NEW kind, NEW o, NEW n, NEW g
  PROVE  LET e == Block(f, kind, o, n, g)
         IN  /\ e.name = f /\ e.kind = kind /\ e.stage = "decls" /\ e.formals = n
             /\ e.groups = g /\ e.locals = 0 /\ e.funcs = {} /\ e.nested = FALSE
             /\ e.fills = {} /\ e.pushed = 0 /\ e.words = 0 /\ e.loops = 0
             /\ e.left = {} /\ e.written = {}
BY DEF Block

LEMMA ContextStarted ==
  ASSUME NEW c \in Contexts, NEW f \in Name, NEW kind \in {"procedure", "function"}
  PROVE  LET e == Started(c, f, kind)
         IN  /\ e \in Contexts /\ e.name = f /\ e.kind = kind /\ ~e.assigned
             /\ e.label = 0 /\ e.disp = c.disp /\ e.toplevel = c.toplevel
<1>1. LET e == Started(c, f, kind)
      IN  /\ e.name = f /\ e.kind = kind /\ ~e.assigned
          /\ e.label = 0 /\ e.disp = c.disp /\ e.toplevel = c.toplevel
  BY DEF Contexts, Started
<1>2. Started(c, f, kind) \in Contexts
  BY DEF Contexts, Started
<1> QED
  BY <1>1, <1>2

LEMMA BeginStructure ==
  ASSUME Structure, NEW f \in Name, NEW kind \in {"procedure", "function"},
         NEW s \in Formals, NEW g \in Nat, BeginSubprogram(f, kind, s, g)
  PROVE  Structure'
<1> DEFINE m == Len(vars)
           n == Len(s)
           k == Len(chain)
           nb == Len(blocks)
           no == Len(open)
<1>1. /\ m \in Nat /\ nb \in Nat /\ no \in Nat /\ no >= 1 /\ k = no
      /\ DOMAIN blocks = 1..nb /\ DOMAIN open = 1..no /\ DOMAIN vars = 1..m
  <2>1. blocks[Current].stage # "body"
    BY BeginBlocks
  <2> QED
    BY <2>1, Here
<1>2. n \in Nat
  BY FormalsType
<1>3. /\ Current \in 1..nb /\ Innermost.block = Current
      /\ \A i \in 1..no : open[i].block \in 1..nb
  <2>1. Current \in DOMAIN blocks /\ Innermost.block = Current
    BY Here
  <2>2. \A i \in DOMAIN open : open[i].block \in DOMAIN blocks
    BY Here
  <2> QED
    BY <1>1, <2>1, <2>2
<1>4. /\ DOMAIN blocks' = 1..(nb + 1) /\ DOMAIN open' = 1..(no + 1)
      /\ DOMAIN chain' = 1..(no + 1) /\ DOMAIN vars' = 1..(m + n + n)
      /\ Len(blocks') = nb + 1 /\ Len(open') = no + 1 /\ Len(chain') = no + 1
      /\ Len(vars') = m + n + n /\ Current' = nb + 1
  BY <1>1, BeginBlocks, BeginOpen, BeginChain, BeginVars
<1>5. /\ \A b \in 1..nb : /\ blocks'[b].name = blocks[b].name
                         /\ blocks'[b].kind = blocks[b].kind
                         /\ blocks'[b].stage = blocks[b].stage
      /\ blocks'[nb + 1].name = f /\ blocks'[nb + 1].kind = kind
      /\ blocks'[nb + 1].stage = "decls"
  <2>1. /\ \A b \in 1..nb : b # Current => blocks'[b] = blocks[b]
        /\ blocks'[Current] = Outer(f) /\ blocks'[nb + 1] = Block(f, kind, Current, n, g)
    BY BeginBlocks
  <2>2. /\ Outer(f).name = blocks[Current].name /\ Outer(f).kind = blocks[Current].kind
        /\ Outer(f).stage = blocks[Current].stage
    BY BlockOuter
  <2>3. /\ Block(f, kind, Current, n, g).name = f /\ Block(f, kind, Current, n, g).kind = kind
        /\ Block(f, kind, Current, n, g).stage = "decls"
    BY DEF Block
  <2> HIDE DEF n, nb
  <2> QED
    BY <2>1, <2>2, <2>3
<1>15. /\ \A i \in 1..n : vars'[m + i].owner = Current /\ vars'[m + i].name = s[i]
       /\ \A i \in 1..n : vars'[m + n + i].owner = nb + 1 /\ vars'[m + n + i].name = s[i]
  <2>1. \A i \in 1..n : /\ vars'[m + i] = Var(Current, s[i], "leaked", -1)
                         /\ vars'[m + n + i] = Var(nb + 1, s[i], "formal", FormalOffset(g, i))
    BY BeginNew DEF NewVars
  <2>2. \A o, x, r, k_ : Var(o, x, r, k_).owner = o /\ Var(o, x, r, k_).name = x
    BY DEF Var
  <2> HIDE DEF m, n, nb
  <2> QED
    BY <2>1, <2>2
<1>6. /\ acx \in Contexts /\ acx' = Started(acx, f, kind) /\ acx' \in Contexts
      /\ acx'.name = f /\ acx'.kind = kind /\ ~acx'.assigned /\ acx'.label = 0
      /\ acx'.toplevel = acx.toplevel
  <2>1. acx \in Contexts /\ acx' = Started(acx, f, kind)
    BY BeginParts DEF Structure, Typed
  <2> QED
    BY <2>1, ContextStarted
<1>7. ~acx.toplevel /\ AtRest(acx) /\ OfBlock(acx, Current)
  BY BeginBlocks DEF Structure, ContextOK, AtRest
<1>8. /\ \A i \in 1..no : open'[i] = open[i]
      /\ open'[no + 1].block = nb + 1 /\ open'[no + 1].saved = acx
  BY BeginOpen
<1> HIDE DEF m, n, k, nb, no
<1>9. /\ \A i \in 1..(no + 1) : i \in 1..no \/ i = no + 1
      /\ \A i \in 1..no : i \in 1..(no + 1) /\ i # no + 1
      /\ \A b \in 1..(nb + 1) : b \in 1..nb \/ b = nb + 1
      /\ \A b \in 1..nb : b \in 1..(nb + 1) /\ b # nb + 1 /\ b < nb + 1
      /\ 1 \in 1..no /\ no + 1 \in 1..(no + 1) /\ no \in 1..no
  BY <1>1
<1>10. Typed(Len(blocks), Len(vars))'
  <2>1. /\ statements' \in Nat /\ phase' \in {"run", "done", "error"} /\ text' \in TextType
    <3>1. /\ statements' = statements /\ phase' = phase /\ text' = Global(text, f)
      BY BeginParts
    <3>2. statements \in Nat /\ phase \in {"run", "done", "error"} /\ text \in TextType
      BY DEF Structure, Typed, TextType
    <3>3. 0 \in Int /\ f \in Name \cup {NONE}
      OBVIOUS
    <3> QED
      BY <3>1, <3>2, <3>3, Texts
  <2>2. open' \in Seq(OpenRec(nb + 1)) /\ open' # <<>>
    BY BeginOpen DEF nb
  <2>3. chain' \in Seq(ScopeRec(nb + 1, m + n + n)) /\ chain' # <<>>
    BY BeginChain DEF nb, m, n
  <2>4. vars' \in Seq(Variables)
    BY BeginVars
  <2>5. blocks' \in Seq(BlockRec(m + n + n))
    BY BeginBlocks DEF m, n
  <2> QED
    BY <1>4, <1>6, <2>1, <2>2, <2>3, <2>4, <2>5 DEF Typed, TextType
<1>11. OwnersOK'
  <2>1. ASSUME NEW v \in 1..(m + n + n) PROVE vars'[v].owner \in 1..(nb + 1)
    <3>1. CASE v \in 1..m
      <4>1. vars'[v].owner = vars[v].owner
        BY <1>1, <3>1, BeginVars DEF SameVar
      <4>2. vars[v].owner \in 1..nb
        BY <1>1, <3>1 DEF Structure, OwnersOK
      <4> QED
        BY <1>9, <4>1, <4>2
    <3>2. CASE \E i \in 1..n : v = m + i
      <4>1. vars'[v].owner = Current
        BY <1>15, <3>2
      <4> QED
        BY <1>3, <1>9, <4>1
    <3>3. CASE \E i \in 1..n : v = m + n + i
      <4>1. vars'[v].owner = nb + 1
        BY <1>15, <3>3
      <4>2. nb + 1 \in 1..(nb + 1)
        BY <1>1
      <4> QED
        BY <4>1, <4>2
    <3> QED
      BY <1>1, <1>2, <3>1, <3>2, <3>3, BeginVarCases
  <2> QED
    BY <1>4, <2>1 DEF OwnersOK
<1>12. OpenOK'
  <2>1. OpenOK
    BY DEF Structure
  <2>2. open'[1].block = 1
    BY <1>8, <1>9, <2>1 DEF OpenOK
  <2>3. ASSUME NEW i \in 1..(no + 1), NEW j \in 1..(no + 1), i < j
        PROVE  open'[i].block < open'[j].block
    <3>1. i \in 1..no
      BY <1>1, <2>3
    <3>2. CASE j \in 1..no
      BY <1>1, <1>8, <2>1, <2>3, <3>1, <3>2 DEF OpenOK
    <3>3. CASE j = no + 1
      BY <1>3, <1>8, <1>9, <3>1, <3>3
    <3> QED
      BY <1>9, <3>2, <3>3
  <2>4. ASSUME NEW i \in 1..no PROVE blocks'[open'[i].block].stage = "subs"
    <3>1. open'[i].block = open[i].block /\ open[i].block \in 1..nb
      BY <1>3, <1>8
    <3>2. blocks[open[i].block].stage = "subs"
      <4>1. CASE i < no
        BY <1>1, <2>1, <4>1 DEF OpenOK, no
      <4>2. CASE i = no
        BY <4>2, BeginBlocks DEF Current, no
      <4> QED
        BY <1>1, <4>1, <4>2
    <3> QED
      BY <1>5, <3>1, <3>2
  <2>5. ASSUME NEW b \in 1..(nb + 1)
        PROVE  b \in {open'[i].block : i \in 1..(no + 1)} \/ blocks'[b].stage = "done"
    <3>1. CASE b = nb + 1
      BY <1>8, <1>9, <3>1
    <3>2. CASE b \in 1..nb
      <4>1. CASE b \in {open[i].block : i \in 1..no}
        BY <1>8, <1>9, <4>1
      <4>2. CASE blocks[b].stage = "done"
        BY <1>5, <3>2, <4>2
      <4> QED
        BY <1>1, <2>1, <3>2, <4>1, <4>2 DEF OpenOK
    <3> QED
      BY <1>9, <3>1, <3>2
  <2>6. blocks'[nb + 1].stage # "done"
    BY <1>5
  <2>7. \A i \in 1..(no + 1) : i < no + 1 => i \in 1..no
    BY <1>1
  <2> QED
    BY <1>4, <2>2, <2>3, <2>4, <2>5, <2>6, <2>7 DEF OpenOK
<1>13. ChainOK'
  <2>1. ChainOK
    BY DEF Structure
  <2>2. /\ \A i \in 1..no : chain'[i].block = chain[i].block /\ chain'[i].loop = chain[i].loop
                            /\ (i # no => chain'[i].vars = chain[i].vars)
        /\ chain'[no + 1].block = nb + 1 /\ chain'[no + 1].loop = FALSE
        /\ \A x \in Name : chain'[no].vars[x] =
             IF x \in Bound(s) THEN m + Index(s, x) ELSE Innermost.vars[x]
        /\ \A x \in Name : chain'[no + 1].vars[x] =
             IF x \in Bound(s) THEN m + n + Index(s, x) ELSE NONE
    BY <1>1, BeginChain DEF nb, m, n, k
  <2>3. DOMAIN chain = 1..no
    BY <1>1, Here DEF k
  <2>4. ASSUME NEW i \in 1..(no + 1)
        PROVE  i <= no + 1 /\ chain'[i].block = open'[i].block /\ ~chain'[i].loop
    <3>1. CASE i \in 1..no
      <4>1. i <= no
        BY <3>1
      <4>2. chain[i].block = open[i].block /\ ~chain[i].loop
        BY <2>1, <2>3, <3>1, <4>1 DEF ChainOK, no
      <4> QED
        BY <1>1, <1>8, <2>2, <3>1, <4>1, <4>2
    <3>2. CASE i = no + 1
      BY <1>8, <2>2, <3>2
    <3> QED
      BY <1>9, <3>1, <3>2
  <2>5. ASSUME NEW i \in 1..(no + 1), NEW x \in Name, chain'[i].vars[x] # NONE
        PROVE  /\ vars'[chain'[i].vars[x]].owner = chain'[i].block
               /\ vars'[chain'[i].vars[x]].name = x
    <3>1. CASE i = no + 1
      <4>1. x \in Bound(s) /\ chain'[i].vars[x] = m + n + Index(s, x)
        BY <2>2, <2>5, <3>1
      <4>2. Index(s, x) \in 1..n /\ s[Index(s, x)] = x
        BY <4>1, Indexed DEF n
      <4>3. /\ vars'[m + n + Index(s, x)].owner = nb + 1
            /\ vars'[m + n + Index(s, x)].name = x
        BY <1>15, <4>2
      <4> QED
        BY <2>2, <3>1, <4>1, <4>3
    <3>2. CASE i = no /\ x \in Bound(s)
      <4>1. chain'[i].vars[x] = m + Index(s, x) /\ chain'[i].block = Current
        BY <1>1, <1>3, <1>9, <2>2, <3>2 DEF Innermost, k
      <4>2. Index(s, x) \in 1..n /\ s[Index(s, x)] = x
        BY <3>2, Indexed DEF n
      <4>3. vars'[m + Index(s, x)].owner = Current /\ vars'[m + Index(s, x)].name = x
        BY <1>15, <4>2
      <4> QED
        BY <4>1, <4>3
    <3>3. CASE i \in 1..no /\ ~(i = no /\ x \in Bound(s))
      <4>1. chain'[i].vars[x] = chain[i].vars[x] /\ chain'[i].block = chain[i].block
        BY <1>1, <2>2, <3>3 DEF Innermost, k
      <4>2. chain[i].vars[x] \in DOMAIN vars /\ chain[i].vars[x] # NONE
        BY <2>3, <2>5, <3>3, <4>1, Scopes
      <4>3. vars[chain[i].vars[x]].owner = chain[i].block /\ vars[chain[i].vars[x]].name = x
        BY <2>1, <2>3, <3>3, <4>2 DEF ChainOK
      <4>4. SameVar(vars'[chain[i].vars[x]], vars[chain[i].vars[x]])
        BY <4>2, BeginVars
      <4> QED
        BY <4>1, <4>3, <4>4 DEF SameVar
    <3> QED
      BY <1>9, <3>1, <3>2, <3>3
  <2>6. no + 1 <= no + 1
    BY <1>1
  <2> QED
    BY <1>4, <2>4, <2>5, <2>6 DEF ChainOK
<1>14. ContextOK'
  <2>1. ContextOK
    BY DEF Structure
  <2>2. OfBlock(acx, Current)'
    BY <1>4, <1>5, <1>6 DEF OfBlock
  <2>3. AtRest(acx)' /\ ~acx'.toplevel
    BY <1>6, <1>7 DEF AtRest
  <2>4. ASSUME NEW i \in 1..(no + 1), i > 1
        PROVE  OfBlock(open[i].saved, open[i - 1].block)' /\ AtRest(open[i].saved)'
    <3>1. i - 1 \in 1..no
      BY <1>1, <2>4
    <3>2. open'[i - 1].block = open[i - 1].block /\ open[i - 1].block \in 1..nb
      BY <1>3, <1>8, <3>1
    <3>3. OfBlock(open'[i].saved, open[i - 1].block) /\ AtRest(open'[i].saved)
      <4>1. CASE i \in 1..no
        BY <1>1, <1>8, <2>1, <2>4, <4>1 DEF ContextOK
      <4>2. CASE i = no + 1
        <5>1. open'[i].saved = acx
          BY <1>8, <4>2
        <5>2. i - 1 = no
          BY <1>1, <4>2
        <5>3. open[i - 1].block = Current
          BY <5>2 DEF Current, no
        <5> QED
          BY <1>7, <5>1, <5>3
      <4> QED
        BY <1>9, <4>1, <4>2
    <3> QED
      BY <1>5, <3>2, <3>3 DEF OfBlock, AtRest
  <2>5. \A b \in 1..(nb + 1) :
          IF b = 1 THEN blocks'[b].name = NONE /\ blocks'[b].kind = "procedure"
          ELSE blocks'[b].name \in Name
    <3>1. 1 \in 1..nb
      BY <1>1, <1>3
    <3>2. \A b \in 1..nb : IF b = 1 THEN blocks[b].name = NONE /\ blocks[b].kind = "procedure"
                           ELSE blocks[b].name \in Name
      BY <1>1, <2>1 DEF ContextOK
    <3> QED
      BY <1>5, <1>9, <3>1, <3>2
  <2>6. blocks'[nb + 1].stage # "body"
    BY <1>5
  <2> QED
    BY <1>4, <2>2, <2>3, <2>4, <2>5, <2>6 DEF ContextOK
<1> QED
  BY <1>10, <1>11, <1>12, <1>13, <1>14 DEF Structure

-----------------------------------------------------------------------------
(* The end of a subprogram *)
Left(p) ==
  [p EXCEPT !.stage = "done", !.words = IF p.pushed = 0 THEN @ ELSE @ - (p.pushed - 1)]
Restored(c, d) == [c EXCEPT !.disp = d]

LEMMA EndParts ==
  ASSUME Structure, EndSubprogram
  PROVE  LET n == Len(open)
             p == Left(blocks[Current])
         IN  /\ n \in Nat /\ n > 1 /\ Len(chain) = n /\ At("body")
             /\ p \in BlockRec(Len(vars)) /\ p.name = blocks[Current].name
             /\ p.kind = blocks[Current].kind /\ p.stage = "done"
             /\ blocks' = [blocks EXCEPT ![Current] = p]
             /\ open' \in Seq(OpenRec(Len(blocks))) /\ open' # <<>> /\ Len(open') = n - 1
             /\ DOMAIN open' = 1..(n - 1) /\ \A i \in 1..(n - 1) : open'[i] = open[i]
             /\ chain' \in Seq(ScopeRec(Len(blocks), Len(vars))) /\ chain' # <<>>
             /\ Len(chain') = n - 1 /\ DOMAIN chain' = 1..(n - 1)
             /\ \A i \in 1..(n - 1) : chain'[i] = chain[i]
             /\ acx' = Restored(open[n].saved, acx.disp)
             /\ UNCHANGED <<vars, text, statements, phase>>
<1> DEFINE n == Len(open)
           p == Left(blocks[Current])
<1>1. n \in Nat /\ n >= 1 /\ Len(chain) = n /\ Current # 1
  BY Here DEF EndSubprogram
<1>2. n > 1
  <2>1. n # 1
    BY <1>1 DEF Current, Structure, OpenOK
  <2> QED
    BY <1>1, <2>1
<1>3. /\ open' = SubSeq(open, 1, Len(open) - 1) /\ chain' = SubSeq(chain, 1, Len(chain) - 1)
      /\ acx' = Restored(open[n].saved, acx.disp) /\ At("body")
      /\ UNCHANGED <<vars, text, statements, phase>>
  BY DEF EndSubprogram, Restored
<1>4. blocks' = [blocks EXCEPT ![Current] = p]
  BY DEF EndSubprogram, Left
<1>5. blocks[Current] \in BlockRec(Len(vars))
  BY Here
<1>6. /\ p \in BlockRec(Len(vars)) /\ p.name = blocks[Current].name
      /\ p.kind = blocks[Current].kind /\ p.stage = "done"
  <2> DEFINE w == IF blocks[Current].pushed = 0 THEN blocks[Current].words
                  ELSE blocks[Current].words - (blocks[Current].pushed - 1)
  <2>1. w \in Int
    BY <1>5 DEF BlockRec
  <2>2. p = [blocks[Current] EXCEPT !.stage = "done", !.words = w]
    BY DEF Left
  <2> HIDE DEF w, p
  <2> QED
    BY <1>5, <2>1, <2>2 DEF BlockRec
<1>7. open \in Seq(OpenRec(Len(blocks))) /\ chain \in Seq(ScopeRec(Len(blocks), Len(vars)))
  BY DEF Structure, Typed
<1> HIDE DEF p
<1>8. /\ open' \in Seq(OpenRec(Len(blocks))) /\ open' # <<>> /\ Len(open') = n - 1
      /\ DOMAIN open' = 1..(n - 1) /\ \A i \in 1..(n - 1) : open'[i] = open[i]
  BY <1>2, <1>3, <1>7, Popped
<1>9. /\ chain' \in Seq(ScopeRec(Len(blocks), Len(vars))) /\ chain' # <<>>
      /\ Len(chain') = n - 1 /\ DOMAIN chain' = 1..(n - 1)
      /\ \A i \in 1..(n - 1) : chain'[i] = chain[i]
  <2> DEFINE c == SubSeq(chain, 1, Len(chain) - 1)
  <2>1. Len(chain) > 1
    BY <1>1, <1>2
  <2>2. /\ c \in Seq(ScopeRec(Len(blocks), Len(vars))) /\ c # <<>>
        /\ Len(c) = Len(chain) - 1 /\ DOMAIN c = 1..(Len(chain) - 1)
        /\ \A i \in 1..(Len(chain) - 1) : c[i] = chain[i]
    BY <1>7, <2>1, Popped
  <2> HIDE DEF c
  <2>3. chain' = c
    BY <1>3 DEF c
  <2> QED
    BY <1>1, <2>2, <2>3
<1> QED
  BY <1>1, <1>2, <1>3, <1>4, <1>6, <1>8, <1>9 DEF p

LEMMA ContextRestored ==
  ASSUME NEW c \in Contexts, NEW d \in Nat
  PROVE  LET e == Restored(c, d)
         IN  /\ e \in Contexts /\ e.name = c.name /\ e.kind = c.kind /\ e.label = c.label
             /\ e.assigned = c.assigned /\ e.toplevel = c.toplevel /\ e.disp = d
BY DEF Contexts, Restored

LEMMA EndBlocks ==
  ASSUME Structure, EndSubprogram
  PROVE  /\ blocks' \in Seq(BlockRec(Len(vars))) /\ Len(blocks') = Len(blocks)
         /\ DOMAIN blocks' = DOMAIN blocks /\ blocks'[Current] = Left(blocks[Current])
         /\ \A b \in DOMAIN blocks : b # Current => blocks'[b] = blocks[b]
<1> DEFINE p == Left(blocks[Current])
<1>1. p \in BlockRec(Len(vars)) /\ blocks' = [blocks EXCEPT ![Current] = p]
  BY EndParts
<1>2. blocks \in Seq(BlockRec(Len(vars))) /\ Current \in DOMAIN blocks
  BY Here DEF Structure, Typed
<1> HIDE DEF p
<1>3. /\ blocks' \in Seq(BlockRec(Len(vars))) /\ Len(blocks') = Len(blocks)
      /\ DOMAIN blocks' = DOMAIN blocks /\ blocks'[Current] = p
      /\ \A b \in DOMAIN blocks : b # Current => blocks'[b] = blocks[b]
  BY <1>1, <1>2, Updated
<1> QED
  BY <1>3 DEF p

LEMMA EndStructure == ASSUME Structure, EndSubprogram PROVE Structure'
<1> DEFINE n == Len(open)
<1>1. /\ n \in Nat /\ n > 1 /\ Len(chain) = n /\ Len(open') = n - 1 /\ Len(chain') = n - 1
      /\ DOMAIN open' = 1..(n - 1) /\ DOMAIN chain' = 1..(n - 1)
      /\ \A i \in 1..(n - 1) : open'[i] = open[i] /\ chain'[i] = chain[i]
      /\ vars' = vars /\ text' = text /\ statements' = statements /\ phase' = phase
      /\ acx' = Restored(open[n].saved, acx.disp)
  BY EndParts
<1>2. /\ DOMAIN open = 1..n /\ DOMAIN chain = 1..n /\ Current \in DOMAIN blocks
      /\ \A i \in DOMAIN open : open[i].block \in DOMAIN blocks
      /\ DOMAIN blocks = 1..Len(blocks) /\ Len(blocks) \in Nat
  BY <1>1, Here
<1>3. /\ DOMAIN blocks' = DOMAIN blocks /\ Len(blocks') = Len(blocks)
      /\ blocks'[Current].name = blocks[Current].name
      /\ blocks'[Current].kind = blocks[Current].kind /\ blocks'[Current].stage = "done"
      /\ \A b \in DOMAIN blocks : b # Current => blocks'[b] = blocks[b]
  BY EndParts, EndBlocks
<1> HIDE DEF n
<1>4. /\ \A i \in 1..(n - 1) : i \in 1..n /\ i < n /\ i # n
      /\ n - 1 \in 1..(n - 1) /\ 1 \in 1..(n - 1) /\ n \in 1..n
      /\ \A i \in 1..n : i \in 1..(n - 1) \/ i = n
  BY <1>1
<1>5. Current = open[n].block /\ Current' = open[n - 1].block
  BY <1>1, <1>4 DEF Current, n
<1>6. /\ OpenOK /\ ChainOK /\ ContextOK
  BY DEF Structure
<1>7. \A i \in 1..(n - 1) : open[i].block \in DOMAIN blocks /\ open[i].block # Current
                            /\ blocks'[open[i].block] = blocks[open[i].block]
                            /\ blocks[open[i].block].stage = "subs"
  <2>1. ASSUME NEW i \in 1..(n - 1)
        PROVE  open[i].block \in DOMAIN blocks /\ open[i].block # Current
               /\ blocks[open[i].block].stage = "subs"
    <3>1. open[i].block < open[n].block /\ blocks[open[i].block].stage = "subs"
      BY <1>2, <1>4, <1>6 DEF OpenOK, n
    <3>2. open[i].block \in 1..Len(blocks) /\ open[n].block \in 1..Len(blocks)
      BY <1>2, <1>4
    <3> QED
      BY <1>2, <1>5, <3>1, <3>2
  <2> QED
    BY <1>3, <2>1
<1>8. /\ acx' \in Contexts /\ acx'.name = open[n].saved.name
      /\ acx'.kind = open[n].saved.kind /\ acx'.assigned = open[n].saved.assigned
      /\ acx'.label = open[n].saved.label /\ acx'.toplevel = open[n].saved.toplevel
  <2>1. open[n].saved \in Contexts
    <3>1. open \in Seq(OpenRec(Len(blocks)))
      BY DEF Structure, Typed
    <3>2. open[n] \in OpenRec(Len(blocks))
      BY <1>2, <1>4, <3>1
    <3> QED
      BY <3>2 DEF OpenRec
  <2>2. acx.disp \in Nat
    BY DEF Structure, Typed, Contexts
  <2> QED
    BY <1>1, <2>1, <2>2, ContextRestored
<1>9. OfBlock(open[n].saved, open[n - 1].block) /\ AtRest(open[n].saved)
  <2>1. n > 1
    BY <1>1
  <2> QED
    BY <1>2, <1>4, <1>6, <2>1 DEF ContextOK
<1>10. Typed(Len(blocks), Len(vars))'
  <2>1. vars \in Seq(Variables) /\ statements \in Nat /\ phase \in {"run", "done", "error"}
        /\ text \in TextType
    BY DEF Structure, Typed, TextType
  <2>2. /\ open' \in Seq(OpenRec(Len(blocks))) /\ open' # <<>>
        /\ chain' \in Seq(ScopeRec(Len(blocks), Len(vars))) /\ chain' # <<>>
    BY EndParts
  <2>3. blocks' \in Seq(BlockRec(Len(vars)))
    BY EndBlocks
  <2> QED
    BY <1>1, <1>3, <1>8, <2>1, <2>2, <2>3 DEF Typed, TextType
<1>11. OwnersOK'
  BY <1>1, <1>3 DEF OwnersOK, Structure
<1>12. OpenOK'
  <2>1. open'[1].block = 1
    BY <1>1, <1>4, <1>6 DEF OpenOK
  <2>2. \A i, j \in 1..(n - 1) : i < j => open'[i].block < open'[j].block
    BY <1>1, <1>2, <1>4, <1>6 DEF OpenOK
  <2>3. \A i \in 1..(n - 1) : blocks'[open'[i].block].stage = "subs"
    BY <1>1, <1>7
  <2>4. blocks'[Current'].stage # "done"
    BY <1>4, <1>5, <1>7
  <2>5. ASSUME NEW b \in DOMAIN blocks
        PROVE  b \in {open'[i].block : i \in 1..(n - 1)} \/ blocks'[b].stage = "done"
    <3>1. CASE b = Current
      BY <1>3, <3>1
    <3>2. CASE b # Current
      <4>1. CASE blocks[b].stage = "done"
        BY <1>3, <3>2, <4>1
      <4>2. CASE b \in {open[i].block : i \in DOMAIN open}
        <5>1. PICK i \in 1..n : b = open[i].block
          BY <1>2, <4>2
        <5>2. i \in 1..(n - 1)
          BY <1>4, <1>5, <3>2, <5>1
        <5> QED
          BY <1>1, <5>1, <5>2
      <4> QED
        BY <1>6, <4>1, <4>2 DEF OpenOK
    <3> QED
      BY <3>1, <3>2
  <2> QED
    BY <1>1, <1>3, <2>1, <2>2, <2>3, <2>4, <2>5 DEF OpenOK
<1>13. ChainOK'
  <2>1. ASSUME NEW i \in 1..(n - 1)
        PROVE  /\ i <= n - 1 /\ chain'[i].block = open'[i].block /\ ~chain'[i].loop
               /\ \A x \in Name : chain'[i].vars[x] # NONE =>
                    /\ vars'[chain'[i].vars[x]].owner = chain'[i].block
                    /\ vars'[chain'[i].vars[x]].name = x
    <3>1. i \in 1..n /\ i <= n /\ i <= n - 1
      BY <1>1
    <3>2. chain[i].block = open[i].block /\ ~chain[i].loop
      BY <1>2, <1>6, <3>1 DEF ChainOK, n
    <3>3. \A x \in Name : chain[i].vars[x] # NONE =>
            /\ vars[chain[i].vars[x]].owner = chain[i].block
            /\ vars[chain[i].vars[x]].name = x
      BY <1>2, <1>6, <3>1 DEF ChainOK
    <3> QED
      BY <1>1, <3>1, <3>2, <3>3
  <2>2. n - 1 <= n - 1
    BY <1>1
  <2> QED
    BY <1>1, <2>1, <2>2 DEF ChainOK
<1>14. ContextOK'
  <2>1. OfBlock(acx, Current)'
    BY <1>4, <1>5, <1>7, <1>8, <1>9 DEF OfBlock
  <2>2. AtRest(acx)' /\ ~acx'.toplevel
    BY <1>8, <1>9 DEF AtRest
  <2>3. blocks'[Current'].stage # "body"
    BY <1>4, <1>5, <1>7
  <2>4. ASSUME NEW i \in 1..(n - 1), i > 1
        PROVE  OfBlock(open[i].saved, open[i - 1].block)' /\ AtRest(open[i].saved)'
    <3>1. i - 1 \in 1..(n - 1)
      BY <1>1, <2>4
    <3>2. OfBlock(open[i].saved, open[i - 1].block) /\ AtRest(open[i].saved)
      BY <1>2, <1>4, <1>6, <2>4 DEF ContextOK
    <3> QED
      BY <1>1, <1>7, <3>1, <3>2 DEF OfBlock, AtRest
  <2>5. \A b \in DOMAIN blocks :
          IF b = 1 THEN blocks'[b].name = NONE /\ blocks'[b].kind = "procedure"
          ELSE blocks'[b].name \in Name
    BY <1>3, <1>6 DEF ContextOK
  <2> QED
    BY <1>1, <1>3, <2>1, <2>2, <2>3, <2>4, <2>5 DEF ContextOK
<1> QED
  BY <1>10, <1>11, <1>12, <1>13, <1>14 DEF Structure

-----------------------------------------------------------------------------
(* The start, to which an error returns *)
Start ==
  /\ acx = NoContext /\ open = <<[block |-> 1, saved |-> NoContext]>>
  /\ chain = <<Scope(1, FALSE)>> /\ vars = <<>>
  /\ blocks = <<Block(NONE, "procedure", 0, 0, 0)>> /\ text = NoText /\ statements = 0
  /\ phase \in {"run", "error"}

LEMMA StartStructure == Start => Structure
<1> SUFFICES ASSUME Start PROVE Structure
  OBVIOUS
<1> DEFINE o == [block |-> 1, saved |-> NoContext]
           c == Scope(1, FALSE)
           b == Block(NONE, "procedure", 0, 0, 0)
<1>1. NoContext \in Contexts /\ NoContext.name = NONE /\ NoContext.kind = "procedure"
      /\ AtRest(NoContext) /\ ~NoContext.toplevel
  BY DEF NoContext, Context, Contexts, AtRest
<1>2. o \in OpenRec(1) /\ o.block = 1
  BY <1>1 DEF OpenRec
<1>3. c \in ScopeRec(1, 0) /\ c.block = 1 /\ ~c.loop /\ \A x \in Name : c.vars[x] = NONE
  BY DEF ScopeRec, Scope
<1>16. NoText \in TextType
  BY SubprogramsAssumption DEF NoText, TextType
<1>4. /\ b \in BlockRec(0) /\ b.name = NONE /\ b.kind = "procedure" /\ b.stage = "decls"
  BY DEF BlockRec, Block
<1>5. acx = NoContext /\ open = <<o>> /\ chain = <<c>> /\ vars = <<>> /\ blocks = <<b>>
  BY DEF Start
<1> HIDE DEF o, c, b
<1>6. /\ open \in Seq(OpenRec(1)) /\ open # <<>> /\ Len(open) = 1 /\ DOMAIN open = {1}
      /\ open[1] = o
  BY <1>2, <1>5
<1>7. /\ chain \in Seq(ScopeRec(1, 0)) /\ chain # <<>> /\ Len(chain) = 1 /\ DOMAIN chain = {1}
      /\ chain[1] = c
  BY <1>3, <1>5
<1>8. /\ blocks \in Seq(BlockRec(0)) /\ Len(blocks) = 1 /\ DOMAIN blocks = {1} /\ blocks[1] = b
  BY <1>4, <1>5
<1>9. vars \in Seq(Variables) /\ Len(vars) = 0 /\ DOMAIN vars = {}
  BY <1>5
<1>10. Current = 1
  BY <1>2, <1>6 DEF Current
<1>11. Typed(Len(blocks), Len(vars))
  BY <1>1, <1>5, <1>6, <1>7, <1>8, <1>9, <1>16 DEF Typed, Start, TextType
<1>12. OwnersOK
  BY <1>9 DEF OwnersOK
<1>13. OpenOK
  BY <1>2, <1>4, <1>6, <1>8, <1>10 DEF OpenOK
<1>14. ChainOK
  BY <1>2, <1>3, <1>6, <1>7, <1>10 DEF ChainOK
<1>15. ContextOK
  BY <1>1, <1>4, <1>5, <1>6, <1>8, <1>10 DEF ContextOK, OfBlock
<1> QED
  BY <1>11, <1>12, <1>13, <1>14, <1>15 DEF Structure

LEMMA StartAgain == Start' => Structure'
BY StartStructure, PTL

LEMMA RejectStart == ASSUME Reject PROVE Start'
BY DEF Reject, Start

LEMMA StructureStep == Structure /\ [Next]_sub => Structure'
<1> SUFFICES ASSUME Structure, [Next]_sub PROVE Structure'
  OBVIOUS
<1>1. ASSUME NEW x \in Name, AddLocal(x) PROVE Structure'
  BY <1>1, AddLocalStructure
<1>2. CASE EndDecls
  BY <1>2, EndDeclsStructure
<1>3. ASSUME NEW f \in Name, NEW kind \in {"procedure", "function"}, NEW formals \in Formals,
             NEW groups \in 0..Len(formals), BeginSubprogram(f, kind, formals, groups)
      PROVE  Structure'
  <2>1. groups \in Nat
    OBVIOUS
  <2> QED
    BY <1>3, <2>1, BeginStructure
<1>4. CASE Prologue
  BY <1>4, PrologueStructure
<1>5. ASSUME NEW x \in Name, Use(x) \/ Call(x) \/ BeginFor(x) PROVE Structure'
  BY <1>5, UseBody, CallBody, BeginForBody, BodyStepStructure
<1>6. ASSUME NEW x \in Name, NEW pointer \in BOOLEAN, Assign(x, pointer) PROVE Structure'
  BY <1>6, AssignBody, BodyStepStructure
<1>7. CASE EndFor \/ Branch \/ EndProgram
  BY <1>7, OtherBody, BodyStepStructure
<1>8. CASE EndSubprogram
  BY <1>8, EndStructure
<1>9. CASE Reject
  BY <1>9, RejectStart, StartAgain
<1>10. CASE UNCHANGED sub
  <2>1. /\ acx' = acx /\ open' = open /\ chain' = chain /\ vars' = vars /\ blocks' = blocks
        /\ text' = text /\ statements' = statements /\ phase' = phase
    BY <1>10 DEF sub
  <2> QED
    BY <2>1 DEF Structure, Typed, OwnersOK, OpenOK, ChainOK, ContextOK, OfBlock, AtRest,
                Current
<1> QED
  BY <1>1, <1>2, <1>3, <1>4, <1>5, <1>6, <1>7, <1>8, <1>9, <1>10 DEF Next

(* The structural invariant of the analysis: the context, the calls under  *)
(* way, the scopes and the variables belong together (analyze_subprog,     *)
(* stab_enter, stab_leave).                                                *)
THEOREM StructureInvariant == Spec => []Structure
<1>1. Init => Structure
  BY StartStructure DEF Init, Start
<1> QED
  BY <1>1, StructureStep, PTL DEF Spec

LEMMA StructureTypes == Structure => TypeOK
<1> SUFFICES ASSUME Structure PROVE TypeOK
  OBVIOUS
<1>1. DOMAIN vars = 1..Len(vars)
  BY Here
<1> QED
  BY <1>1 DEF Structure, Typed, TypeOK, OpenRec, ScopeRec, BlockRec

(* TypeOK of the run, for any identifiers and bounds: every name resolves  *)
(* to a variable there is, and no scope is left that was not entered.      *)
THEOREM TypeCorrect == Spec => []TypeOK
BY StructureInvariant, StructureTypes, PTL

-----------------------------------------------------------------------------
(* The display.  A step leaves slots and their counter alone, or gives the *)
(* next slot to one variable, or is an error.                              *)
Quiet ==
  /\ acx'.disp = acx.disp
  /\ \A v \in DOMAIN vars : /\ v \in DOMAIN vars' /\ vars'[v].captured = vars[v].captured
                            /\ vars'[v].slot = vars[v].slot
  /\ \A v \in DOMAIN vars' : v \in DOMAIN vars \/ ~vars'[v].captured
Takes(v) == ~vars[v].captured /\ vars' = Capture(v) /\ acx'.disp = acx.disp + 1
DisplayStep == Quiet \/ (\E v \in DOMAIN vars : Takes(v)) \/ (vars' = <<>> /\ phase' = "error")

LEMMA SeenStep ==
  ASSUME Structure, NEW x \in Name, NEW v \in DOMAIN vars, Seen(x, v), acx'.disp = Disp(x, v)
  PROVE  DisplayStep
<1>1. CASE Captures(x, v)
  BY <1>1 DEF Captures, Seen, Disp, Takes, DisplayStep
<1>2. CASE ~Captures(x, v)
  BY <1>2 DEF Seen, Disp, Quiet, DisplayStep
<1> QED
  BY <1>1, <1>2

LEMMA DeclaredStep ==
  ASSUME Structure, NEW x \in Name, NEW role \in Role, NEW k \in Int, Declared(x, role, k),
         acx' = acx
  PROVE  DisplayStep
<1>1. \A v \in DOMAIN vars' : v \in DOMAIN vars \/ v = Len(vars) + 1
  <2>1. DOMAIN vars = 1..Len(vars) /\ Len(vars) \in Nat
    BY Here
  <2>2. DOMAIN vars' = 1..(Len(vars) + 1)
    BY DeclaredVars
  <2> QED
    BY <2>1, <2>2
<1>2. ~vars'[Len(vars) + 1].captured
  <2>1. vars'[Len(vars) + 1] = Var(Current, x, role, k)
    BY DeclaredVars
  <2> QED
    BY <2>1 DEF Var
<1> QED
  BY <1>1, <1>2, DeclaredVars DEF Quiet, DisplayStep

LEMMA BeginStep ==
  ASSUME Structure, NEW f \in Name, NEW kind \in {"procedure", "function"},
         NEW s \in Formals, NEW g \in Nat, BeginSubprogram(f, kind, s, g)
  PROVE  DisplayStep
<1> DEFINE m == Len(vars)
           n == Len(s)
<1>1. m \in Nat /\ n \in Nat /\ DOMAIN vars = 1..m
  BY Here, FormalsType
<1>2. /\ DOMAIN vars' = 1..(m + n + n)
      /\ \A v \in DOMAIN vars :
           vars'[v].captured = vars[v].captured /\ vars'[v].slot = vars[v].slot
  BY BeginVars DEF SameUse
<1>3. \A i \in 1..n : ~vars'[m + i].captured /\ ~vars'[m + n + i].captured
  <2>1. \A i \in 1..n : /\ vars'[m + i] = Var(Current, s[i], "leaked", -1)
                        /\ vars'[m + n + i]
                             = Var(Len(blocks) + 1, s[i], "formal", FormalOffset(g, i))
    BY BeginNew DEF NewVars
  <2>2. \A o, x, r, k : Var(o, x, r, k).captured = FALSE
    BY DEF Var
  <2> HIDE DEF m, n
  <2> QED
    BY <2>1, <2>2
<1>4. acx'.disp = acx.disp
  <2>1. acx \in Contexts /\ acx' = Started(acx, f, kind)
    BY BeginParts DEF Structure, Typed
  <2> QED
    BY <2>1, ContextStarted
<1> HIDE DEF m, n
<1>5. ASSUME NEW v \in DOMAIN vars' PROVE v \in DOMAIN vars \/ ~vars'[v].captured
  <2>1. v \in 1..(m + n + n)
    BY <1>2
  <2>2. \/ v \in 1..m
        \/ \E i \in 1..n : v = m + i
        \/ \E i \in 1..n : v = m + n + i
    BY <1>1, <2>1, BeginVarCases
  <2> QED
    BY <1>1, <1>3, <2>2
<1>6. \A v \in DOMAIN vars : v \in DOMAIN vars'
  BY <1>1, <1>2
<1> QED
  BY <1>2, <1>4, <1>5, <1>6 DEF Quiet, DisplayStep

LEMMA DisplaySteps == Structure /\ [Next]_sub => DisplayStep
<1> SUFFICES ASSUME Structure, [Next]_sub PROVE DisplayStep
  OBVIOUS
<1>0. /\ acx \in Contexts /\ acx.disp \in Nat
  BY DEF Structure, Typed, Contexts
<1>1. ASSUME NEW x \in Name, AddLocal(x) PROVE DisplayStep
  <2>1. "local" \in Role /\ acx' = acx /\ Declared(x, "local", blocks[Current].locals)
    BY <1>1 DEF Role, AddLocal, Declared
  <2>2. blocks[Current].locals \in Int
    <3>1. blocks[Current] \in BlockRec(Len(vars))
      BY Here
    <3> QED
      BY <3>1 DEF BlockRec
  <2> QED
    BY <2>1, <2>2, DeclaredStep
<1>2. CASE EndDecls
  <2>1. CASE Current = 1
    BY <1>2, <2>1 DEF EndDecls, Quiet, DisplayStep
  <2>2. CASE Current # 1
    <3>1. "retslot" \in Role /\ acx' = acx
          /\ Declared(acx.name, "retslot", blocks[Current].locals)
      BY <1>2, <2>2 DEF Role, EndDecls, Declared
    <3>2. blocks[Current].locals \in Int /\ Current \in DOMAIN blocks
      <4>1. blocks[Current] \in BlockRec(Len(vars)) /\ Current \in DOMAIN blocks
        BY Here
      <4> QED
        BY <4>1 DEF BlockRec
    <3>3. acx.name \in Name
      BY <2>2, <3>2 DEF Structure, ContextOK, OfBlock
    <3> QED
      BY <3>1, <3>2, <3>3, DeclaredStep
  <2> QED
    BY <2>1, <2>2
<1>3. ASSUME NEW f \in Name, NEW kind \in {"procedure", "function"}, NEW formals \in Formals,
             NEW groups \in 0..Len(formals), BeginSubprogram(f, kind, formals, groups)
      PROVE  DisplayStep
  <2>1. groups \in Nat
    OBVIOUS
  <2> QED
    BY <1>3, <2>1, BeginStep
<1>4. CASE Prologue
  <2>1. vars' = vars /\ (acx' = acx \/ acx' = [acx EXCEPT !.toplevel = TRUE])
    BY <1>4 DEF Prologue
  <2>2. acx'.disp = acx.disp
    BY <1>0, <2>1 DEF Contexts
  <2> QED
    BY <2>1, <2>2 DEF Quiet, DisplayStep
<1>5. ASSUME NEW x \in Name, Use(x) PROVE DisplayStep
  <2>1. PICK v \in DOMAIN vars : Seen(x, v) /\ acx' = [acx EXCEPT !.disp = Disp(x, v)]
    BY <1>5 DEF Use
  <2>2. acx'.disp = Disp(x, v)
    BY <1>0, <2>1 DEF Contexts
  <2> QED
    BY <2>1, <2>2, SeenStep
<1>6. ASSUME NEW x \in Name, BeginFor(x) PROVE DisplayStep
  <2>1. PICK v \in DOMAIN vars :
          Seen(x, v) /\ acx' = Labelled(acx, Disp(x, v), acx.label + 2)
    BY <1>6 DEF BeginFor, Labelled
  <2>2. acx'.disp = Disp(x, v)
    BY <1>0, <2>1 DEF Contexts, Labelled
  <2> QED
    BY <2>1, <2>2, SeenStep
<1>7. ASSUME NEW x \in Name, NEW pointer \in BOOLEAN, Assign(x, pointer) PROVE DisplayStep
  <2>1. PICK v \in DOMAIN vars :
          /\ Seen(x, v)
          /\ acx' = [acx EXCEPT !.disp = Disp(x, v),
                                !.assigned = @ \/ (~acx.toplevel /\ x = acx.name)]
    BY <1>7 DEF Assign
  <2>2. acx'.disp = Disp(x, v)
    BY <1>0, <2>1 DEF Contexts
  <2> QED
    BY <2>1, <2>2, SeenStep
<1>8. CASE (\E x \in Name : Call(x)) \/ EndFor \/ Branch \/ EndProgram
  <2>1. vars' = vars /\ (acx' = acx \/ acx' = [acx EXCEPT !.label = acx.label + 2])
    BY <1>8 DEF Call, EndFor, Branch, EndProgram
  <2>2. acx'.disp = acx.disp
    BY <1>0, <2>1 DEF Contexts
  <2> QED
    BY <2>1, <2>2 DEF Quiet, DisplayStep
<1>9. CASE EndSubprogram
  <2>1. vars' = vars /\ acx' = Restored(open[Len(open)].saved, acx.disp)
    BY <1>9, EndParts
  <2>2. open[Len(open)].saved \in Contexts
    <3>1. open \in Seq(OpenRec(Len(blocks))) /\ open # <<>>
      BY DEF Structure, Typed
    <3>2. open[Len(open)] \in OpenRec(Len(blocks))
      BY <3>1
    <3> QED
      BY <3>2 DEF OpenRec
  <2>3. acx'.disp = acx.disp
    BY <1>0, <2>1, <2>2, ContextRestored
  <2> QED
    BY <2>1, <2>3 DEF Quiet, DisplayStep
<1>10. CASE Reject
  BY <1>10 DEF Reject, DisplayStep
<1>11. CASE UNCHANGED sub
  BY <1>11 DEF sub, Quiet, DisplayStep
<1> QED
  BY <1>1, <1>2, <1>3, <1>4, <1>5, <1>6, <1>7, <1>8, <1>9, <1>10, <1>11 DEF Next

LEMMA SlotsStep == Structure /\ SlotsDistinct /\ [Next]_sub => SlotsDistinct'
<1> SUFFICES ASSUME Structure, SlotsDistinct, [Next]_sub PROVE SlotsDistinct'
  OBVIOUS
<1>0. acx.disp \in Nat
  BY DEF Structure, Typed, Contexts
<1>1. CASE Quiet
  <2>1. \A v \in DOMAIN vars' : vars'[v].captured =>
          v \in DOMAIN vars /\ vars[v].captured /\ vars'[v].slot = vars[v].slot
    BY <1>1 DEF Quiet
  <2>2. acx'.disp = acx.disp
    BY <1>1 DEF Quiet
  <2> QED
    BY <2>1, <2>2 DEF SlotsDistinct
<1>2. CASE \E v \in DOMAIN vars : Takes(v)
  <2>1. PICK v \in DOMAIN vars : Takes(v)
    BY <1>2
  <2>2. /\ DOMAIN vars' = DOMAIN vars /\ vars'[v].slot = acx.disp
        /\ \A w \in DOMAIN vars : w # v => vars'[w] = vars[w]
    BY <2>1, Captured DEF Takes
  <2>3. acx'.disp = acx.disp + 1
    BY <2>1 DEF Takes
  <2>4. \A w \in DOMAIN vars : w # v /\ vars'[w].captured =>
          vars'[w].slot \in 0..(acx.disp - 1) /\ vars'[w].slot = vars[w].slot
    BY <2>2 DEF SlotsDistinct
  <2>5. \A w \in DOMAIN vars : vars'[w].captured => vars'[w].slot \in 0..(acx'.disp - 1)
    BY <1>0, <2>2, <2>3, <2>4
  <2>6. ASSUME NEW w \in DOMAIN vars, NEW u \in DOMAIN vars, vars'[w].captured,
               vars'[u].captured, vars'[u].slot = vars'[w].slot
        PROVE  u = w
    <3>1. CASE w # v /\ u # v
      BY <2>2, <2>6, <3>1 DEF SlotsDistinct
    <3>2. CASE w = v /\ u # v
      BY <1>0, <2>2, <2>4, <2>6, <3>2
    <3>3. CASE w # v /\ u = v
      BY <1>0, <2>2, <2>4, <2>6, <3>3
    <3> QED
      BY <3>1, <3>2, <3>3
  <2> QED
    BY <2>2, <2>5, <2>6 DEF SlotsDistinct
<1>3. CASE vars' = <<>>
  BY <1>3 DEF SlotsDistinct
<1> QED
  BY <1>1, <1>2, <1>3, DisplaySteps DEF DisplayStep

(* No two captured variables share a slot of the display, for programs of  *)
(* any size (type_of_path, acx->disp_offset).                              *)
THEOREM DisplaySlotsDistinct == Spec => []SlotsDistinct
<1>1. Init => SlotsDistinct
  BY DEF Init, SlotsDistinct
<1> QED
  BY <1>1, SlotsStep, StructureInvariant, PTL DEF Spec

(* No step of the analysis moves a captured variable to another slot       *)
(* (type_of_path).                                                         *)
THEOREM DisplaySlotsStable == Spec => SlotsStable
<1> DEFINE A == phase' # "error" => \A v \in DOMAIN vars : vars[v].captured =>
                  v \in DOMAIN vars' /\ vars'[v].captured /\ vars'[v].slot = vars[v].slot
<1>1. Structure /\ [Next]_sub => [A]_sub
  <2> SUFFICES ASSUME Structure, [Next]_sub, phase' # "error",
                      NEW v \in DOMAIN vars, vars[v].captured
               PROVE  v \in DOMAIN vars' /\ vars'[v].captured /\ vars'[v].slot = vars[v].slot
    OBVIOUS
  <2>1. CASE Quiet
    BY <2>1 DEF Quiet
  <2>2. CASE \E w \in DOMAIN vars : Takes(w)
    <3>1. PICK w \in DOMAIN vars : Takes(w)
      BY <2>2
    <3>2. w # v
      BY <3>1 DEF Takes
    <3> QED
      BY <3>1, <3>2, Captured DEF Takes
  <2> QED
    BY <2>1, <2>2, DisplaySteps DEF DisplayStep
<1> QED
  BY <1>1, StructureInvariant, PTL DEF Spec, SlotsStable

-----------------------------------------------------------------------------
(* What each action does to the records of blocks *)

(* Another block's record, and the fixed part of any block's record, stay. *)
SameOthers ==
  /\ DOMAIN blocks' = DOMAIN blocks
  /\ \A b \in DOMAIN blocks : b # Current => blocks'[b] = blocks[b]
SameHead(p, q) ==
  p.name = q.name /\ p.kind = q.kind /\ p.formals = q.formals /\ p.groups = q.groups
SameBody(p, q) ==
  /\ p.fills = q.fills /\ p.pushed = q.pushed /\ p.words = q.words /\ p.loops = q.loops
  /\ p.left = q.left
SameNames(p, q) == p.funcs = q.funcs /\ p.nested = q.nested

LEMMA RecordChange ==
  ASSUME Structure, NEW r, blocks' = [blocks EXCEPT ![Current] = r]
  PROVE  SameOthers /\ blocks'[Current] = r
<1>1. blocks \in Seq(BlockRec(Len(vars))) /\ Current \in DOMAIN blocks
  BY Here DEF Structure, Typed
<1>2. DOMAIN blocks' = DOMAIN blocks /\ blocks'[Current] = r
      /\ \A b \in DOMAIN blocks : b # Current => blocks'[b] = blocks[b]
  BY <1>1
<1> QED
  BY <1>2 DEF SameOthers

LEMMA AddLocalParts ==
  ASSUME Structure, NEW x \in Name, AddLocal(x)
  PROVE  /\ Declared(x, "local", blocks[Current].locals)
         /\ blocks[Current].locals \in Nat /\ blocks[Current].stage = "decls"
         /\ SameOthers /\ SameHead(blocks'[Current], blocks[Current])
         /\ SameBody(blocks'[Current], blocks[Current])
         /\ SameNames(blocks'[Current], blocks[Current])
         /\ blocks'[Current].stage = "decls" /\ blocks'[Current].written = blocks[Current].written
         /\ blocks'[Current].locals = blocks[Current].locals + 1
         /\ acx' = acx /\ open' = open /\ text' = text /\ phase' = phase
<1> DEFINE r == [blocks[Current] EXCEPT !.locals = @ + 1]
<1>1. blocks[Current] \in BlockRec(Len(vars))
  BY Here
<1>2. /\ blocks' = [blocks EXCEPT ![Current] = r] /\ At("decls") /\ acx' = acx /\ open' = open
      /\ text' = text /\ phase' = phase /\ Declared(x, "local", blocks[Current].locals)
  BY DEF AddLocal, Declared
<1>3. /\ SameHead(r, blocks[Current]) /\ SameBody(r, blocks[Current])
      /\ SameNames(r, blocks[Current]) /\ r.stage = blocks[Current].stage
      /\ r.written = blocks[Current].written /\ r.locals = blocks[Current].locals + 1
      /\ blocks[Current].locals \in Nat
  BY <1>1 DEF BlockRec, SameHead, SameBody, SameNames
<1> HIDE DEF r
<1>4. SameOthers /\ blocks'[Current] = r
  BY <1>2, RecordChange
<1> QED
  BY <1>2, <1>3, <1>4 DEF At

LEMMA EndDeclsParts ==
  ASSUME Structure, EndDecls
  PROVE  /\ IF Current = 1 THEN vars' = vars /\ chain' = chain
            ELSE acx.name \in Name /\ acx.name = blocks[Current].name
                 /\ Declared(acx.name, "retslot", blocks[Current].locals)
         /\ blocks[Current].locals \in Nat /\ blocks[Current].stage = "decls"
         /\ SameOthers /\ SameHead(blocks'[Current], blocks[Current])
         /\ SameBody(blocks'[Current], blocks[Current])
         /\ SameNames(blocks'[Current], blocks[Current])
         /\ blocks'[Current].stage = "subs" /\ blocks'[Current].written = blocks[Current].written
         /\ blocks'[Current].locals = blocks[Current].locals
         /\ acx' = acx /\ open' = open /\ text' = text /\ phase' = phase
<1> DEFINE r == [blocks[Current] EXCEPT !.stage = "subs"]
<1>1. blocks[Current] \in BlockRec(Len(vars)) /\ Current \in DOMAIN blocks
  BY Here
<1>2. /\ blocks' = [blocks EXCEPT ![Current] = r] /\ At("decls") /\ acx' = acx /\ open' = open
      /\ text' = text /\ phase' = phase
      /\ IF Current = 1 THEN vars' = vars /\ chain' = chain
         ELSE Declared(acx.name, "retslot", blocks[Current].locals)
  BY DEF EndDecls, Declared
<1>3. /\ SameHead(r, blocks[Current]) /\ SameBody(r, blocks[Current])
      /\ SameNames(r, blocks[Current]) /\ r.stage = "subs"
      /\ r.written = blocks[Current].written /\ r.locals = blocks[Current].locals
      /\ blocks[Current].locals \in Nat
  BY <1>1 DEF BlockRec, SameHead, SameBody, SameNames
<1> HIDE DEF r
<1>4. SameOthers /\ blocks'[Current] = r
  BY <1>2, RecordChange
<1>5. acx.name = blocks[Current].name /\ (Current # 1 => acx.name \in Name)
  BY <1>1 DEF Structure, ContextOK, OfBlock
<1> QED
  BY <1>2, <1>3, <1>4, <1>5 DEF At

LEMMA PrologueParts ==
  ASSUME Structure, Prologue
  PROVE  /\ blocks[Current].stage = "subs" /\ Len(chain) = Len(open)
         /\ SameOthers /\ SameHead(blocks'[Current], blocks[Current])
         /\ SameNames(blocks'[Current], blocks[Current])
         /\ blocks'[Current].stage = "body" /\ blocks'[Current].written = blocks[Current].written
         /\ blocks'[Current].locals = blocks[Current].locals
         /\ blocks'[Current].fills = Fills /\ blocks'[Current].loops = blocks[Current].loops
         /\ blocks'[Current].left = blocks[Current].left
         /\ blocks'[Current].pushed = (IF Current = 1 THEN 0 ELSE Pushes)
         /\ blocks'[Current].words = blocks'[Current].pushed
         /\ open' = open /\ chain' = chain /\ vars' = vars /\ phase' = phase
<1> DEFINE n == IF Current = 1 THEN 0 ELSE Pushes
           e == Entered(blocks[Current], Fills, n)
<1>1. blocks[Current] \in BlockRec(Len(vars)) /\ Len(vars) \in Nat
  BY Here
<1>2. n \in Nat /\ Fills \in SUBSET (1..Len(vars))
  BY FillsVars
<1>3. /\ blocks[Current].stage = "subs" /\ chain' = chain /\ vars' = vars /\ phase' = phase
      /\ NewRecord(e)
  BY PrologueStep
<1>4. blocks' = [blocks EXCEPT ![Current] = e] /\ open' = open
  BY <1>3 DEF NewRecord
<1> HIDE DEF n
<1>5. /\ e.name = blocks[Current].name /\ e.kind = blocks[Current].kind /\ e.stage = "body"
      /\ e.formals = blocks[Current].formals /\ e.groups = blocks[Current].groups
      /\ e.locals = blocks[Current].locals /\ e.funcs = blocks[Current].funcs
      /\ e.nested = blocks[Current].nested /\ e.fills = Fills /\ e.pushed = n
      /\ e.words = n /\ e.loops = blocks[Current].loops /\ e.left = blocks[Current].left
      /\ e.written = blocks[Current].written
  BY <1>1, <1>2, BlockEntered
<1> HIDE DEF e
<1>6. SameOthers /\ blocks'[Current] = e
  BY <1>4, RecordChange
<1>7. Len(chain) = Len(open)
  BY <1>3, Here
<1> QED
  BY <1>3, <1>4, <1>5, <1>6, <1>7 DEF SameHead, SameNames, n

LEMMA EndSubParts ==
  ASSUME Structure, EndSubprogram
  PROVE  /\ blocks[Current].stage = "body" /\ Current # 1
         /\ blocks[Current].kind = "function" => acx.assigned
         /\ SameOthers /\ SameHead(blocks'[Current], blocks[Current])
         /\ SameNames(blocks'[Current], blocks[Current])
         /\ blocks'[Current].stage = "done" /\ blocks'[Current].written = blocks[Current].written
         /\ blocks'[Current].locals = blocks[Current].locals
         /\ blocks'[Current].fills = blocks[Current].fills
         /\ blocks'[Current].loops = blocks[Current].loops
         /\ blocks'[Current].left = blocks[Current].left
         /\ blocks'[Current].pushed = blocks[Current].pushed
         /\ blocks[Current].pushed = 0 => blocks'[Current].words = blocks[Current].words
         /\ vars' = vars /\ text' = text /\ phase' = phase
<1> DEFINE e == Left(blocks[Current])
<1>1. blocks[Current] \in BlockRec(Len(vars))
  BY Here
<1>2. /\ blocks' = [blocks EXCEPT ![Current] = e] /\ vars' = vars /\ text' = text
      /\ phase' = phase /\ At("body")
  BY EndParts
<1>3. /\ Current # 1 /\ (blocks[Current].kind = "function" => acx.assigned)
  BY DEF EndSubprogram, Structure, ContextOK, OfBlock
<1>4. /\ SameHead(e, blocks[Current]) /\ SameNames(e, blocks[Current]) /\ e.stage = "done"
      /\ e.written = blocks[Current].written /\ e.locals = blocks[Current].locals
      /\ e.fills = blocks[Current].fills /\ e.loops = blocks[Current].loops
      /\ e.left = blocks[Current].left
      /\ e.pushed = blocks[Current].pushed
      /\ (blocks[Current].pushed = 0 => e.words = blocks[Current].words)
  BY <1>1 DEF BlockRec, Left, SameHead, SameNames
<1> HIDE DEF e
<1>5. SameOthers /\ blocks'[Current] = e
  BY <1>2, RecordChange
<1> QED
  BY <1>2, <1>3, <1>4, <1>5 DEF At

LEMMA BeginBlockParts ==
  ASSUME Structure, NEW f \in Name, NEW kind \in {"procedure", "function"},
         NEW s \in Formals, NEW g \in Nat, BeginSubprogram(f, kind, s, g)
  PROVE  LET nb == Len(blocks)
             p == blocks'[Current]
             q == blocks'[nb + 1]
         IN  /\ blocks[Current].stage = "subs" /\ f \notin blocks[Current].funcs
             /\ nb \in Nat /\ DOMAIN blocks = 1..nb /\ DOMAIN blocks' = 1..(nb + 1)
             /\ \A b \in DOMAIN blocks : b # Current => blocks'[b] = blocks[b]
             /\ SameHead(p, blocks[Current]) /\ SameBody(p, blocks[Current])
             /\ p.funcs = blocks[Current].funcs \cup {f} /\ p.nested = (Current # 1)
             /\ p.stage = "subs" /\ p.written = blocks[Current].written
             /\ p.locals = blocks[Current].locals
             /\ q = Block(f, kind, Current, Len(s), g) /\ phase' = phase
<1> DEFINE nb == Len(blocks)
<1>1. /\ DOMAIN blocks' = 1..(nb + 1) /\ blocks'[nb + 1] = Block(f, kind, Current, Len(s), g)
      /\ \A b \in 1..nb : b # Current => blocks'[b] = blocks[b]
      /\ blocks'[Current] = Outer(f) /\ blocks[Current].stage = "subs"
  BY BeginBlocks
<1>2. nb \in Nat /\ DOMAIN blocks = 1..nb
  BY Here
<1>3. f \notin blocks[Current].funcs /\ phase' = phase
  BY BeginParts
<1>4. LET p == Outer(f)
      IN  /\ SameHead(p, blocks[Current]) /\ SameBody(p, blocks[Current])
          /\ p.funcs = blocks[Current].funcs \cup {f} /\ p.nested = (Current # 1)
          /\ p.stage = blocks[Current].stage /\ p.written = blocks[Current].written
          /\ p.locals = blocks[Current].locals
  BY BlockOuter DEF SameHead, SameBody
<1> HIDE DEF nb
<1> QED
  BY <1>1, <1>2, <1>3, <1>4 DEF nb

(* The current block's record after a statement with k loops: words are as *)
(* the loops say, unless there are other reasons.                          *)
Counted(k) ==
  /\ SameOthers /\ SameBlock(blocks'[Current], blocks[Current])
  /\ blocks'[Current].written = blocks[Current].written
  /\ blocks'[Current].loops = blocks[Current].loops + k
  /\ blocks[Current].left \subseteq blocks'[Current].left
  /\ blocks'[Current].left = {} => blocks'[Current].words = blocks[Current].words + k

LEMMA ForParts ==
  ASSUME Structure, NEW x \in Name, BeginFor(x)
  PROVE  Counted(1)
BY ForBlocks, RecordChange DEF Counted

LEMMA UseParts ==
  ASSUME Structure, NEW x \in Name, Use(x) \/ Call(x)
  PROVE  Counted(0)
<1>1. blocks[Current] \in BlockRec(Len(vars)) /\ Len(vars) \in Nat
  BY Here
<1>2. blocks[Current].loops \in Nat /\ blocks[Current].words \in Int
  BY <1>1 DEF BlockRec
<1>3. PICK r : /\ blocks' = [blocks EXCEPT ![Current] = r]
               /\ SameBlock(r, blocks[Current]) /\ r.written = blocks[Current].written
               /\ r.loops = blocks[Current].loops /\ blocks[Current].left \subseteq r.left
               /\ r.left = {} => r.words = blocks[Current].words
  <2>1. CASE Use(x)
    <3>1. PICK e \in KeepRegister(blocks[Current]) : blocks' = [blocks EXCEPT ![Current] = e]
      BY <2>1 DEF Use
    <3>2. /\ SameBlock(e, blocks[Current]) /\ e.written = blocks[Current].written
          /\ e.loops = blocks[Current].loops
          /\ e.left \in {blocks[Current].left, blocks[Current].left \cup {"spill"}}
          /\ e.left = {} => e.words = blocks[Current].words
      BY <1>1, RegisterKept
    <3>3. blocks[Current].left \subseteq e.left
      BY <3>2
    <3> QED
      BY <3>1, <3>2, <3>3
  <2>2. CASE Call(x)
    BY <2>2, CallBlocks
  <2> QED
    BY <2>1, <2>2
<1>4. SameOthers /\ blocks'[Current] = r
  BY <1>3, RecordChange
<1> QED
  BY <1>2, <1>3, <1>4 DEF Counted

LEMMA AssignParts ==
  ASSUME Structure, NEW x \in Name, NEW pointer \in BOOLEAN, Assign(x, pointer)
  PROVE  \E v \in DOMAIN vars :
           /\ Resolves(x, v) /\ Seen(x, v) /\ Assignable(x, pointer)
           /\ acx'.assigned = (acx.assigned \/ (~acx.toplevel /\ x = acx.name))
           /\ SameOthers /\ SameBlock(blocks'[Current], blocks[Current])
           /\ blocks'[Current].written =
                (IF pointer THEN blocks[Current].written ELSE blocks[Current].written \cup {v})
           /\ blocks'[Current].words = blocks[Current].words
           /\ blocks'[Current].loops = blocks[Current].loops
           /\ blocks'[Current].left = blocks[Current].left
<1>1. PICK v \in DOMAIN vars :
        /\ Resolves(x, v) /\ Seen(x, v)
        /\ acx' = [acx EXCEPT !.disp = Disp(x, v),
                              !.assigned = @ \/ (~acx.toplevel /\ x = acx.name)]
        /\ blocks' = IF pointer THEN blocks ELSE [blocks EXCEPT ![Current].written = @ \cup {v}]
  BY DEF Assign
<1>2. acx \in Contexts /\ Assignable(x, pointer)
  BY DEF Structure, Typed, Assign
<1>3. acx'.assigned = (acx.assigned \/ (~acx.toplevel /\ x = acx.name))
  BY <1>1, <1>2 DEF Contexts
<1>4. blocks[Current] \in BlockRec(Len(vars))
  BY Here
<1> DEFINE r == IF pointer THEN blocks[Current]
                ELSE [blocks[Current] EXCEPT !.written = @ \cup {v}]
<1>5. /\ SameBlock(r, blocks[Current]) /\ r.words = blocks[Current].words
      /\ r.loops = blocks[Current].loops /\ r.left = blocks[Current].left
      /\ r.written =
           (IF pointer THEN blocks[Current].written ELSE blocks[Current].written \cup {v})
  BY <1>4 DEF BlockRec, SameBlock
<1>6. SameOthers /\ blocks'[Current] = r
  <2>1. CASE pointer
    BY <1>1, <2>1 DEF SameOthers
  <2>2. CASE ~pointer
    <3>1. blocks' = [blocks EXCEPT ![Current] = r]
      BY <1>1, <2>2
    <3> HIDE DEF r
    <3> QED
      BY <3>1, RecordChange
  <2> QED
    BY <2>1, <2>2
<1> HIDE DEF r
<1> QED
  BY <1>1, <1>2, <1>3, <1>5, <1>6

-----------------------------------------------------------------------------
(* What every step but an error keeps: what a variable is, that it is      *)
(* captured, and what a block is.                                          *)
KeepsVars ==
  \A v \in DOMAIN vars : /\ v \in DOMAIN vars' /\ SameVar(vars'[v], vars[v])
                         /\ vars[v].captured => vars'[v].captured
KeepsBlocks == \A b \in DOMAIN blocks : b \in DOMAIN blocks' /\ SameHead(blocks'[b], blocks[b])

LEMMA SameSelf == (\A p : SameHead(p, p)) /\ (\A p : SameVar(p, p)) /\ (\A p : SameBlock(p, p))
BY DEF SameHead, SameVar, SameBlock

LEMMA SameBlockHead == ASSUME NEW p, NEW q, SameBlock(p, q) PROVE SameHead(p, q) /\ SameNames(p, q)
BY DEF SameBlock, SameHead, SameNames

LEMMA OthersKept ==
  ASSUME Structure, SameOthers, SameHead(blocks'[Current], blocks[Current])
  PROVE  KeepsBlocks
BY SameSelf DEF SameOthers, KeepsBlocks

LEMMA DisplayKept ==
  ASSUME Structure, DisplayStep, phase' # "error",
         \A v \in DOMAIN vars : SameVar(vars'[v], vars[v])
  PROVE  KeepsVars
<1>1. CASE Quiet
  BY <1>1 DEF Quiet, KeepsVars
<1>2. CASE \E v \in DOMAIN vars : Takes(v)
  <2>1. PICK v \in DOMAIN vars : Takes(v)
    BY <1>2
  <2>2. /\ DOMAIN vars' = DOMAIN vars /\ vars'[v].captured
        /\ \A w \in DOMAIN vars : w # v => vars'[w] = vars[w]
    BY <2>1, Captured DEF Takes
  <2> QED
    BY <2>2 DEF KeepsVars
<1> QED
  BY <1>1, <1>2 DEF DisplayStep

LEMMA Keeps ==
  ASSUME Structure, [Next]_sub, phase' # "error"
  PROVE  KeepsVars /\ KeepsBlocks
<1>0. DisplayStep
  BY DisplaySteps
<1>1. ASSUME NEW x \in Name, AddLocal(x) PROVE KeepsVars /\ KeepsBlocks
  <2>1. /\ Declared(x, "local", blocks[Current].locals) /\ blocks[Current].locals \in Int
        /\ SameOthers /\ SameHead(blocks'[Current], blocks[Current])
    BY <1>1, AddLocalParts
  <2>2. "local" \in Role
    BY DEF Role
  <2>3. \A v \in DOMAIN vars : vars'[v] = vars[v]
    BY <2>1, <2>2, DeclaredVars
  <2> QED
    BY <1>0, <2>1, <2>3, OthersKept, DisplayKept, SameSelf
<1>2. CASE EndDecls
  <2>1. /\ IF Current = 1 THEN vars' = vars
           ELSE acx.name \in Name /\ Declared(acx.name, "retslot", blocks[Current].locals)
        /\ blocks[Current].locals \in Int
        /\ SameOthers /\ SameHead(blocks'[Current], blocks[Current])
    BY <1>2, EndDeclsParts
  <2>2. "retslot" \in Role
    BY DEF Role
  <2>3. \A v \in DOMAIN vars : vars'[v] = vars[v]
    <3>1. CASE Current = 1
      BY <2>1, <3>1
    <3>2. CASE Current # 1
      <4>1. acx.name \in Name /\ Declared(acx.name, "retslot", blocks[Current].locals)
            /\ blocks[Current].locals \in Int
        BY <2>1, <3>2
      <4> QED
        BY <2>2, <4>1, DeclaredVars
    <3> QED
      BY <3>1, <3>2
  <2> QED
    BY <1>0, <2>1, <2>3, OthersKept, DisplayKept, SameSelf
<1>3. ASSUME NEW f \in Name, NEW kind \in {"procedure", "function"}, NEW formals \in Formals,
             NEW groups \in 0..Len(formals), BeginSubprogram(f, kind, formals, groups)
      PROVE  KeepsVars /\ KeepsBlocks
  <2>1. groups \in Nat
    OBVIOUS
  <2>2. \A v \in DOMAIN vars : SameVar(vars'[v], vars[v])
    BY <1>3, <2>1, BeginVars
  <2>3. /\ DOMAIN blocks = 1..Len(blocks) /\ DOMAIN blocks' = 1..(Len(blocks) + 1)
        /\ Len(blocks) \in Nat /\ SameHead(blocks'[Current], blocks[Current])
        /\ \A b \in DOMAIN blocks : b # Current => blocks'[b] = blocks[b]
    BY <1>3, <2>1, BeginBlockParts
  <2>4. \A b \in DOMAIN blocks : b \in DOMAIN blocks'
    BY <2>3
  <2>5. \A b \in DOMAIN blocks : SameHead(blocks'[b], blocks[b])
    BY <2>3, SameSelf
  <2> QED
    BY <1>0, <2>2, <2>4, <2>5, DisplayKept DEF KeepsBlocks
<1>4. CASE Prologue
  <2>1. vars' = vars /\ SameOthers /\ SameHead(blocks'[Current], blocks[Current])
    BY <1>4, PrologueParts
  <2> QED
    BY <1>0, <2>1, OthersKept, DisplayKept, SameSelf
<1>5. ASSUME BodyStep PROVE KeepsVars /\ KeepsBlocks
  <2>1. /\ \A v \in DOMAIN vars : SameVar(vars'[v], vars[v])
        /\ \A b \in DOMAIN blocks : SameBlock(blocks'[b], blocks[b])
        /\ blocks' \in Seq(BlockRec(Len(vars))) /\ Len(blocks') = Len(blocks)
    BY <1>5 DEF BodyStep
  <2>2. DOMAIN blocks = 1..Len(blocks)
    BY Here
  <2>3. DOMAIN blocks' = DOMAIN blocks
    BY <2>1, <2>2
  <2> QED
    BY <1>0, <2>1, <2>3, DisplayKept, SameBlockHead DEF KeepsBlocks
<1>6. CASE EndSubprogram
  <2>1. vars' = vars /\ SameOthers /\ SameHead(blocks'[Current], blocks[Current])
    BY <1>6, EndSubParts
  <2> QED
    BY <1>0, <2>1, OthersKept, DisplayKept, SameSelf
<1>7. CASE Reject
  BY <1>7 DEF Reject
<1>8. CASE UNCHANGED sub
  BY <1>8, SameSelf DEF sub, KeepsVars, KeepsBlocks
<1> QED
  BY <1>1, <1>2, <1>3, <1>4, <1>5, <1>6, <1>7, <1>8, UseBody, CallBody, BeginForBody, AssignBody,
     OtherBody DEF Next

LEMMA ErrorStep ==
  ASSUME [Next]_sub, phase' = "error"
  PROVE  Start' \/ UNCHANGED sub
<1>1. CASE Reject
  BY <1>1, RejectStart
<1>2. CASE UNCHANGED sub
  BY <1>2
<1>3. ASSUME Next, ~Reject PROVE FALSE
  BY <1>3 DEF Next, AddLocal, EndDecls, BeginSubprogram, Prologue, Use, Call, BeginFor, Assign,
              Statement, EndFor, Branch, EndSubprogram, EndProgram, At
<1> QED
  BY <1>1, <1>2, <1>3

StartShape ==
  /\ vars = <<>> /\ DOMAIN vars = {} /\ DOMAIN blocks = {1}
  /\ blocks[1] = Block(NONE, "procedure", 0, 0, 0) /\ Len(open) = 1 /\ DOMAIN open = {1}
  /\ open[1].block = 1 /\ Current = 1 /\ acx = NoContext /\ text = NoText

LEMMA StartShapes == Start => StartShape
BY DEF Start, StartShape, Current

LEMMA ShapeAgain == Start' => StartShape'
BY StartShapes, PTL

(* Only an assignment changes what a block is known to write. *)
WrittenSame ==
  \A b \in DOMAIN blocks' :
    blocks'[b].written = IF b \in DOMAIN blocks THEN blocks[b].written ELSE {}

LEMMA OthersWritten ==
  ASSUME SameOthers, blocks'[Current].written = blocks[Current].written
  PROVE  WrittenSame
BY DEF SameOthers, WrittenSame

LEMMA WrittenStep ==
  ASSUME Structure, [Next]_sub, phase' # "error",
         ~\E x \in Name, pointer \in BOOLEAN : Assign(x, pointer)
  PROVE  WrittenSame
<1>1. ASSUME NEW x \in Name, AddLocal(x) PROVE WrittenSame
  BY <1>1, AddLocalParts, OthersWritten
<1>2. CASE EndDecls
  BY <1>2, EndDeclsParts, OthersWritten
<1>3. ASSUME NEW f \in Name, NEW kind \in {"procedure", "function"}, NEW formals \in Formals,
             NEW groups \in 0..Len(formals), BeginSubprogram(f, kind, formals, groups)
      PROVE  WrittenSame
  <2>1. groups \in Nat
    OBVIOUS
  <2>2. /\ DOMAIN blocks = 1..Len(blocks) /\ DOMAIN blocks' = 1..(Len(blocks) + 1)
        /\ Len(blocks) \in Nat /\ blocks'[Current].written = blocks[Current].written
        /\ \A b \in DOMAIN blocks : b # Current => blocks'[b] = blocks[b]
        /\ blocks'[Len(blocks) + 1] = Block(f, kind, Current, Len(formals), groups)
    BY <1>3, <2>1, BeginBlockParts
  <2>3. blocks'[Len(blocks) + 1].written = {}
    BY <2>2 DEF Block
  <2>4. \A b \in DOMAIN blocks' : IF b \in DOMAIN blocks THEN TRUE ELSE b = Len(blocks) + 1
    BY <2>2
  <2>5. \A b \in DOMAIN blocks : blocks'[b].written = blocks[b].written
    BY <2>2
  <2> QED
    BY <2>3, <2>4, <2>5 DEF WrittenSame
<1>4. CASE Prologue
  BY <1>4, PrologueParts, OthersWritten
<1>5. CASE EndSubprogram
  BY <1>5, EndSubParts, OthersWritten
<1>6. ASSUME NEW x \in Name, Use(x) \/ Call(x) PROVE WrittenSame
  BY <1>6, UseParts, OthersWritten DEF Counted
<1>7. ASSUME NEW x \in Name, BeginFor(x) PROVE WrittenSame
  BY <1>7, ForParts, OthersWritten DEF Counted
<1>8. CASE EndFor \/ Branch \/ EndProgram
  BY <1>8 DEF EndFor, Branch, EndProgram, WrittenSame
<1>9. CASE Reject
  BY <1>9 DEF Reject
<1>10. CASE UNCHANGED sub
  BY <1>10 DEF sub, WrittenSame
<1> QED
  BY <1>1, <1>2, <1>3, <1>4, <1>5, <1>6, <1>7, <1>8, <1>9, <1>10 DEF Next

(* A variable of the innermost scope is one of the current block, and the  *)
(* scope is the one its call entered.                                      *)
LEMMA LocalVar ==
  ASSUME Structure, NEW x \in Name, NEW v \in DOMAIN vars, Resolves(x, v), HasLocal(x)
  PROVE  /\ v = Innermost.vars[x] /\ vars[v].owner = Current /\ vars[v].name = x
         /\ Len(chain) = Len(open)
<1>1. /\ Len(chain) \in Nat /\ Len(chain) >= 1 /\ DOMAIN chain = 1..Len(chain)
      /\ Innermost.block = Current
  BY Here
<1>2. Len(chain) \in DOMAIN chain
  BY <1>1
<1>3. PICK i \in DOMAIN chain :
        /\ chain[i].vars[x] = v
        /\ \A j \in (i + 1)..Len(chain) : chain[j].vars[x] = NONE
  BY DEF Resolves
<1>4. chain[Len(chain)].vars[x] # NONE
  BY DEF HasLocal, Innermost
<1>5. i = Len(chain)
  <2>1. CASE i < Len(chain)
    <3>1. Len(chain) \in (i + 1)..Len(chain)
      BY <1>1, <2>1
    <3> QED
      BY <1>3, <1>4, <3>1
  <2> QED
    BY <1>1, <2>1
<1>6. v = Innermost.vars[x]
  BY <1>3, <1>5 DEF Innermost
<1>7. /\ vars[v].owner = Innermost.block /\ vars[v].name = x
  BY <1>2, <1>4, <1>6 DEF Structure, ChainOK, Innermost
<1>8. Len(chain) = Len(open)
  <2>1. Len(chain) <= Len(open)
    BY <1>2, <1>4, Scopes
  <2>2. Len(open) <= Len(chain) /\ Len(open) \in Nat
    BY Here DEF Structure, ChainOK
  <2> QED
    BY <1>1, <2>1, <2>2
<1> QED
  BY <1>1, <1>6, <1>7, <1>8

(* A function may assign only what is local. *)
LEMMA FunctionAssigns ==
  ASSUME Structure, NEW x \in Name, NEW pointer \in BOOLEAN, Assign(x, pointer),
         blocks[Current].kind = "function"
  PROVE  HasLocal(x) /\ ~pointer /\ ~acx.toplevel
<1>1. Assignable(x, pointer)
  BY DEF Assign
<1>2. acx.kind = "function" /\ (acx.toplevel => Current = 1)
  BY DEF Structure, ContextOK, OfBlock
<1>3. Current # 1
  <2>1. Current \in DOMAIN blocks
    BY Here
  <2> QED
    BY <2>1 DEF Structure, ContextOK
<1> QED
  BY <1>1, <1>2, <1>3 DEF Assignable

LEMMA NonlocalStep == Structure /\ RuleNonlocal /\ [Next]_sub => RuleNonlocal'
<1> SUFFICES ASSUME Structure, RuleNonlocal, [Next]_sub PROVE RuleNonlocal'
  OBVIOUS
<1>1. CASE phase' = "error"
  <2>1. CASE Start'
    <3>1. DOMAIN blocks' = {1} /\ blocks'[1] = Block(NONE, "procedure", 0, 0, 0)
      BY <2>1, ShapeAgain DEF StartShape
    <3>2. blocks'[1].kind # "function"
      BY <3>1 DEF Block
    <3> QED
      BY <3>1, <3>2 DEF RuleNonlocal
  <2>2. CASE UNCHANGED sub
    BY <2>2 DEF sub, RuleNonlocal
  <2> QED
    BY <1>1, <2>1, <2>2, ErrorStep
<1>2. CASE phase' # "error"
  <2>1. KeepsVars /\ KeepsBlocks
    BY <1>2, Keeps
  <2>2. \A b \in DOMAIN blocks : blocks[b].written \subseteq DOMAIN vars
    <3>1. blocks \in Seq(BlockRec(Len(vars)))
      BY DEF Structure, Typed
    <3>2. DOMAIN vars = 1..Len(vars)
      BY Here
    <3>3. \A b \in DOMAIN blocks : blocks[b] \in BlockRec(Len(vars))
      BY <3>1
    <3> QED
      BY <3>2, <3>3 DEF BlockRec
  <2>3. CASE \E x \in Name, pointer \in BOOLEAN : Assign(x, pointer)
    <3>1. PICK x \in Name, pointer \in BOOLEAN : Assign(x, pointer)
      BY <2>3
    <3>2. PICK v \in DOMAIN vars :
            /\ Resolves(x, v) /\ SameOthers
            /\ blocks'[Current].written =
                 (IF pointer THEN blocks[Current].written ELSE blocks[Current].written \cup {v})
      BY <3>1, AssignParts
    <3>3. Current \in DOMAIN blocks
      BY Here
    <3>4. ASSUME NEW b \in DOMAIN blocks, blocks[b].kind = "function",
                 NEW w \in blocks'[b].written
          PROVE  vars[w].owner = b /\ w \in DOMAIN vars
      <4>1. CASE w \in blocks[b].written
        BY <2>2, <3>4, <4>1 DEF RuleNonlocal
      <4>2. CASE w \notin blocks[b].written
        <5>1. b = Current /\ w = v
          BY <3>2, <3>4, <4>2 DEF SameOthers
        <5>2. HasLocal(x)
          BY <3>1, <3>4, <5>1, FunctionAssigns
        <5> QED
          BY <3>2, <5>1, <5>2, LocalVar
      <4> QED
        BY <4>1, <4>2
    <3>5. DOMAIN blocks' = DOMAIN blocks
      BY <3>2 DEF SameOthers
    <3> QED
      BY <2>1, <3>4, <3>5 DEF RuleNonlocal, KeepsVars, KeepsBlocks, SameVar, SameHead
  <2>4. CASE ~\E x \in Name, pointer \in BOOLEAN : Assign(x, pointer)
    <3>1. WrittenSame
      BY <1>2, <2>4, WrittenStep
    <3>2. ASSUME NEW b \in DOMAIN blocks', blocks'[b].kind = "function",
                 NEW w \in blocks'[b].written
          PROVE  vars'[w].owner = b
      <4>1. b \in DOMAIN blocks /\ w \in blocks[b].written
        BY <3>1, <3>2 DEF WrittenSame
      <4>2. blocks[b].kind = "function" /\ w \in DOMAIN vars
        BY <2>1, <2>2, <3>2, <4>1 DEF KeepsBlocks, SameHead
      <4> QED
        BY <2>1, <4>1, <4>2 DEF RuleNonlocal, KeepsVars, SameVar
    <3> QED
      BY <3>2 DEF RuleNonlocal
  <2> QED
    BY <2>3, <2>4
<1> QED
  BY <1>1, <1>2

(* Rule 5.4, for programs of any size: a function assigns nothing but what *)
(* is local to it (check_assignability).                                   *)
THEOREM FunctionsAssignLocals == Spec => []RuleNonlocal
<1>1. Init => RuleNonlocal
  BY DEF Init, RuleNonlocal, Block
<1> QED
  BY <1>1, NonlocalStep, StructureInvariant, PTL DEF Spec

-----------------------------------------------------------------------------
(* Rule 5.2.  The scope of a subprogram past its declarations names the    *)
(* return slot, or the formal that took its place; once ret_assigned is    *)
(* set, that variable was assigned.                                        *)
Returned(b) ==
  \/ \E v \in blocks[b].written : HasRole(v, b, "retslot")
  \/ \E v \in DOMAIN vars : HasRole(v, b, "leaked") /\ vars[v].name = blocks[b].name
SlotNamed ==
  \A i \in DOMAIN open :
    open[i].block # 1 /\ blocks[open[i].block].stage \in {"subs", "body"} =>
      /\ chain[i].vars[blocks[open[i].block].name] # NONE
      /\ vars[chain[i].vars[blocks[open[i].block].name]].role \in {"retslot", "leaked"}
AssignedOK == blocks[Current].kind = "function" /\ acx.assigned => Returned(Current)
ReturnOK == RuleReturn /\ SlotNamed /\ AssignedOK

LEMMA WrittenVars ==
  ASSUME Structure
  PROVE  \A b \in DOMAIN blocks : blocks[b].written \subseteq DOMAIN vars
<1>1. blocks \in Seq(BlockRec(Len(vars)))
  BY DEF Structure, Typed
<1>2. DOMAIN vars = 1..Len(vars)
  BY Here
<1>3. \A b \in DOMAIN blocks : blocks[b] \in BlockRec(Len(vars))
  BY <1>1
<1> QED
  BY <1>2, <1>3 DEF BlockRec

LEMMA WrittenGrows ==
  ASSUME Structure, [Next]_sub, phase' # "error"
  PROVE  \A b \in DOMAIN blocks : blocks[b].written \subseteq blocks'[b].written
<1>1. CASE \E x \in Name, pointer \in BOOLEAN : Assign(x, pointer)
  <2>1. PICK x \in Name, pointer \in BOOLEAN : Assign(x, pointer)
    BY <1>1
  <2>2. SameOthers /\ blocks[Current].written \subseteq blocks'[Current].written
    BY <2>1, AssignParts
  <2> QED
    BY <2>2 DEF SameOthers
<1>2. CASE ~\E x \in Name, pointer \in BOOLEAN : Assign(x, pointer)
  <2>1. WrittenSame /\ KeepsBlocks
    BY <1>2, WrittenStep, Keeps
  <2> QED
    BY <2>1 DEF WrittenSame, KeepsBlocks
<1> QED
  BY <1>1, <1>2

LEMMA ReturnedKept ==
  ASSUME Structure, [Next]_sub, phase' # "error", NEW b \in DOMAIN blocks, Returned(b)
  PROVE  Returned(b)'
<1>1. KeepsVars /\ KeepsBlocks /\ blocks[b].written \subseteq blocks'[b].written
      /\ blocks[b].written \subseteq DOMAIN vars
  BY Keeps, WrittenGrows, WrittenVars
<1>2. blocks'[b].name = blocks[b].name
  BY <1>1 DEF KeepsBlocks, SameHead
<1>3. \A v \in DOMAIN vars : /\ v \in DOMAIN vars' /\ vars'[v].owner = vars[v].owner
                             /\ vars'[v].role = vars[v].role /\ vars'[v].name = vars[v].name
  BY <1>1 DEF KeepsVars, SameVar
<1> QED
  BY <1>1, <1>2, <1>3 DEF Returned, HasRole

(* Of the calls under way only the last one is that of the current block. *)
LEMMA Apart ==
  ASSUME Structure
  PROVE  /\ \A i \in DOMAIN open : open[i].block \in DOMAIN blocks
         /\ \A i \in DOMAIN open : i # Len(open) =>
              i < Len(open) /\ open[i].block # Current /\ blocks[open[i].block].stage = "subs"
         /\ Len(open) \in DOMAIN open /\ open[Len(open)].block = Current
         /\ \A i \in DOMAIN open : i \in DOMAIN chain
         /\ DOMAIN open = 1..Len(open) /\ Len(open) \in Nat
<1>1. /\ DOMAIN open = 1..Len(open) /\ Len(open) \in Nat /\ Len(open) >= 1
  BY Here
<1>2. \A i \in DOMAIN open : open[i].block \in DOMAIN blocks
  BY Here
<1>3. DOMAIN blocks = 1..Len(blocks)
  BY Here
<1>4. Len(open) \in DOMAIN open /\ open[Len(open)].block = Current
  BY <1>1 DEF Current
<1>5. ASSUME NEW i \in DOMAIN open, i # Len(open)
      PROVE  i < Len(open) /\ open[i].block # Current /\ blocks[open[i].block].stage = "subs"
  <2>1. i < Len(open)
    BY <1>1, <1>5
  <2>2. open[i].block < open[Len(open)].block /\ blocks[open[i].block].stage = "subs"
    BY <1>4, <2>1 DEF Structure, OpenOK
  <2>3. open[i].block \in 1..Len(blocks) /\ Current \in 1..Len(blocks)
    BY <1>2, <1>3, <1>4
  <2> QED
    BY <1>4, <2>1, <2>2, <2>3
<1>6. \A i \in DOMAIN open : i \in DOMAIN chain
  <2>1. DOMAIN chain = 1..Len(chain) /\ Len(chain) \in Nat
    BY Here
  <2>2. Len(open) <= Len(chain)
    BY DEF Structure, ChainOK
  <2> QED
    BY <1>1, <2>1, <2>2
<1> QED
  BY <1>1, <1>2, <1>4, <1>5, <1>6

(* A body step keeps the calls and their scopes. *)
LEMMA BodyKept ==
  ASSUME Structure, BodyStep
  PROVE  /\ open' = open /\ Current' = Current /\ DOMAIN blocks' = DOMAIN blocks
         /\ blocks[Current].stage = "body"
         /\ \A i \in DOMAIN open : chain'[i] = chain[i]
         /\ \A b \in DOMAIN blocks : SameBlock(blocks'[b], blocks[b])
         /\ \A v \in DOMAIN vars : v \in DOMAIN vars' /\ SameVar(vars'[v], vars[v])
         /\ DOMAIN vars' = DOMAIN vars
<1>1. /\ open' = open /\ Current' = Current /\ blocks[Current].stage = "body"
      /\ \A b \in DOMAIN blocks : SameBlock(blocks'[b], blocks[b])
      /\ \A v \in DOMAIN vars : SameVar(vars'[v], vars[v])
      /\ vars' \in Seq(Variables) /\ Len(vars') = Len(vars)
      /\ blocks' \in Seq(BlockRec(Len(vars))) /\ Len(blocks') = Len(blocks)
  BY DEF BodyStep, Current, At
<1>2. DOMAIN vars = 1..Len(vars) /\ DOMAIN blocks = 1..Len(blocks)
  BY Here
<1>3. DOMAIN vars' = DOMAIN vars /\ DOMAIN blocks' = DOMAIN blocks
  BY <1>1, <1>2
<1>4. ASSUME NEW i \in DOMAIN open PROVE chain'[i] = chain[i]
  <2>1. DOMAIN open = 1..Len(open) /\ Len(open) \in Nat
    BY Apart
  <2>2. Len(open) <= Len(chain') /\ DOMAIN chain' = 1..Len(chain')
        /\ chain' \in Seq(ScopeRec(Len(blocks), Len(vars)))
    BY BodyStepChain
  <2>3. i \in DOMAIN chain' /\ ~(i > Len(open))
    BY <2>1, <2>2
  <2> QED
    BY <2>3, BodyStepChain
<1> QED
  BY <1>1, <1>3, <1>4

(* The name of a subprogram under way is an identifier. *)
LEMMA OpenName ==
  ASSUME Structure, NEW i \in DOMAIN open, open[i].block # 1
  PROVE  blocks[open[i].block].name \in Name
BY Apart DEF Structure, ContextOK

LEMMA SlotNamedDeclared ==
  ASSUME Structure, SlotNamed, NEW x \in Name, NEW role \in Role, NEW k \in Int,
         Declared(x, role, k), SameOthers, SameHead(blocks'[Current], blocks[Current]),
         open' = open, blocks[Current].stage = "decls",
         \/ blocks'[Current].stage = "decls"
         \/ role = "retslot" /\ x = blocks[Current].name
  PROVE  SlotNamed'
<1> SUFFICES ASSUME NEW i \in DOMAIN open, open[i].block # 1,
                    blocks'[open[i].block].stage \in {"subs", "body"}
             PROVE  /\ chain'[i].vars[blocks'[open[i].block].name] # NONE
                    /\ vars'[chain'[i].vars[blocks'[open[i].block].name]].role
                         \in {"retslot", "leaked"}
  BY DEF SlotNamed
<1>1. blocks[open[i].block].name \in Name /\ i \in DOMAIN chain
      /\ open[i].block \in DOMAIN blocks
  BY OpenName, Apart
<1>2. Len(chain) = Len(open) /\ Len(vars) \in Nat
  BY Here
<1>3. CASE i = Len(open)
  <2>1. open[i].block = Current /\ blocks'[Current].stage # "decls"
    BY <1>3 DEF Current
  <2>2. blocks'[Current].name = x /\ role = "retslot"
    BY <2>1 DEF SameHead
  <2>3. chain'[i].vars[x] = Len(vars) + 1
    BY <1>1, <1>2, <1>3, DeclaredChain
  <2>4. vars'[Len(vars) + 1] = Var(Current, x, role, k)
    BY DeclaredVars
  <2>5. vars'[Len(vars) + 1].role = "retslot"
    BY <2>2, <2>4 DEF Var
  <2>6. Len(vars) + 1 # NONE
    BY <1>2, SubprogramsAssumption
  <2> QED
    BY <2>1, <2>2, <2>3, <2>5, <2>6
<1>4. CASE i # Len(open)
  <2>1. open[i].block # Current
    BY <1>4, Apart
  <2>2. blocks'[open[i].block] = blocks[open[i].block]
    BY <1>1, <2>1 DEF SameOthers
  <2> DEFINE y == blocks[open[i].block].name
  <2>3. chain'[i].vars[y] = chain[i].vars[y]
    BY <1>1, <1>2, <1>4, DeclaredChain
  <2>4. chain[i].vars[y] # NONE /\ vars[chain[i].vars[y]].role \in {"retslot", "leaked"}
    BY <2>2 DEF SlotNamed
  <2>5. chain[i].vars[y] \in DOMAIN vars
    BY <1>1, <2>4, Scopes
  <2>6. vars'[chain[i].vars[y]] = vars[chain[i].vars[y]]
    BY <2>5, DeclaredVars
  <2> QED
    BY <2>2, <2>3, <2>4, <2>6
<1> QED
  BY <1>3, <1>4

LEMMA SlotNamedBegin ==
  ASSUME Structure, SlotNamed, NEW f \in Name, NEW kind \in {"procedure", "function"},
         NEW s \in Formals, NEW g \in Nat, BeginSubprogram(f, kind, s, g)
  PROVE  SlotNamed'
<1> DEFINE no == Len(open)
           nb == Len(blocks)
           m == Len(vars)
           n == Len(s)
<1>1. /\ DOMAIN open' = 1..(no + 1) /\ \A i \in 1..no : open'[i] = open[i]
      /\ open'[no + 1].block = nb + 1
  BY BeginOpen
<1>2. /\ blocks[Current].stage = "subs"
      /\ \A b \in DOMAIN blocks : b # Current => blocks'[b] = blocks[b]
      /\ blocks'[Current].name = blocks[Current].name
      /\ blocks'[nb + 1].stage = "decls"
  <2>1. /\ blocks'[nb + 1] = Block(f, kind, Current, Len(s), g) /\ blocks[Current].stage = "subs"
        /\ \A b \in DOMAIN blocks : b # Current => blocks'[b] = blocks[b]
        /\ SameHead(blocks'[Current], blocks[Current])
    BY BeginBlockParts
  <2>2. Block(f, kind, Current, Len(s), g).stage = "decls"
    BY DEF Block
  <2>3. blocks'[Current].name = blocks[Current].name
    BY <2>1 DEF SameHead
  <2>4. blocks'[nb + 1].stage = "decls"
    BY <2>1, <2>2
  <2> HIDE DEF nb
  <2> QED
    BY <2>1, <2>3, <2>4
<1>3. no \in Nat /\ DOMAIN open = 1..no
  BY Apart
<1>4. Len(chain) = no /\ m \in Nat
  BY <1>2, Here
<1> SUFFICES ASSUME NEW i \in 1..(no + 1), open'[i].block # 1,
                    blocks'[open'[i].block].stage \in {"subs", "body"}
             PROVE  /\ chain'[i].vars[blocks'[open'[i].block].name] # NONE
                    /\ vars'[chain'[i].vars[blocks'[open'[i].block].name]].role
                         \in {"retslot", "leaked"}
  BY <1>1 DEF SlotNamed
<1>5. i \in 1..no
  <2>1. i # no + 1
    BY <1>1, <1>2
  <2> QED
    BY <1>3, <2>1
<1> DEFINE b == open[i].block
           y == blocks[b].name
<1>6. /\ open'[i] = open[i] /\ b \in DOMAIN blocks /\ y \in Name /\ i \in DOMAIN chain
  BY <1>1, <1>3, <1>5, Apart, OpenName
<1>7. blocks'[b].name = y /\ blocks[b].stage = "subs"
  <2>1. CASE b = Current
    BY <1>2, <2>1
  <2>2. CASE b # Current
    BY <1>2, <1>3, <1>5, <1>6, <2>2, Apart
  <2> QED
    BY <2>1, <2>2
<1>8. chain[i].vars[y] # NONE /\ vars[chain[i].vars[y]].role \in {"retslot", "leaked"}
  BY <1>3, <1>5, <1>6, <1>7 DEF SlotNamed
<1>9. chain[i].vars[y] \in DOMAIN vars
  BY <1>6, <1>8, Scopes
<1>10. vars'[chain[i].vars[y]].role = vars[chain[i].vars[y]].role
  BY <1>9, BeginVars DEF SameVar
<1>11. CASE i = no /\ y \in Bound(s)
  <2>1. chain'[i].vars[y] = m + Index(s, y)
    BY <1>4, <1>6, <1>11, BeginChain
  <2>2. Index(s, y) \in 1..n
    BY <1>11, Indexed
  <2>3. vars'[m + Index(s, y)] = Var(Current, s[Index(s, y)], "leaked", -1)
    BY <2>2, BeginVars
  <2>4. vars'[m + Index(s, y)].role = "leaked"
    BY <2>3 DEF Var
  <2>5. m + Index(s, y) # NONE
    BY <1>4, <2>2, SubprogramsAssumption
  <2> QED
    BY <1>6, <1>7, <2>1, <2>4, <2>5
<1>12. CASE i = no /\ y \notin Bound(s)
  <2>1. chain'[i].vars[y] = chain[i].vars[y]
    <3>1. chain'[Len(chain)].vars[y] = Innermost.vars[y]
      BY <1>6, <1>12, BeginChain
    <3> QED
      BY <1>4, <1>12, <3>1 DEF Innermost
  <2> QED
    BY <1>6, <1>7, <1>8, <1>10, <2>1
<1>13. CASE i # no
  <2>1. chain'[i].vars = chain[i].vars
    BY <1>4, <1>5, <1>13, BeginChain
  <2> QED
    BY <1>6, <1>7, <1>8, <1>10, <2>1
<1> QED
  BY <1>11, <1>12, <1>13

LEMMA SlotNamedBody ==
  ASSUME Structure, SlotNamed, BodyStep
  PROVE  SlotNamed'
<1>1. /\ open' = open
      /\ \A i \in DOMAIN open : chain'[i] = chain[i] /\ open[i].block \in DOMAIN blocks
                                /\ i \in DOMAIN chain
      /\ \A b \in DOMAIN blocks : blocks'[b].name = blocks[b].name
                                  /\ blocks'[b].stage = blocks[b].stage
      /\ \A v \in DOMAIN vars : vars'[v].role = vars[v].role
  BY BodyKept, Apart DEF SameBlock, SameVar
<1> SUFFICES ASSUME NEW i \in DOMAIN open, open[i].block # 1,
                    blocks[open[i].block].stage \in {"subs", "body"}
             PROVE  /\ chain[i].vars[blocks[open[i].block].name] # NONE
                    /\ vars'[chain[i].vars[blocks[open[i].block].name]].role
                         \in {"retslot", "leaked"}
  BY <1>1 DEF SlotNamed
<1>2. /\ chain[i].vars[blocks[open[i].block].name] # NONE
      /\ vars[chain[i].vars[blocks[open[i].block].name]].role \in {"retslot", "leaked"}
  BY DEF SlotNamed
<1>3. chain[i].vars[blocks[open[i].block].name] \in DOMAIN vars
  <2>1. blocks[open[i].block].name \in Name
    BY OpenName
  <2> QED
    BY <1>1, <1>2, <2>1, Scopes
<1> QED
  BY <1>1, <1>2, <1>3

LEMMA SlotNamedStep ==
  ASSUME Structure, SlotNamed, [Next]_sub, phase' # "error"
  PROVE  SlotNamed'
<1>1. ASSUME NEW x \in Name, AddLocal(x) PROVE SlotNamed'
  <2>1. /\ Declared(x, "local", blocks[Current].locals) /\ blocks[Current].locals \in Int
        /\ blocks[Current].stage = "decls" /\ SameOthers /\ open' = open
        /\ SameHead(blocks'[Current], blocks[Current]) /\ blocks'[Current].stage = "decls"
    BY <1>1, AddLocalParts
  <2>2. "local" \in Role
    BY DEF Role
  <2> QED
    BY <2>1, <2>2, SlotNamedDeclared
<1>2. CASE EndDecls
  <2>1. CASE Current = 1
    <3>1. vars' = vars /\ chain' = chain /\ open' = open /\ SameOthers
      BY <1>2, <2>1, EndDeclsParts
    <3> QED
      BY <2>1, <3>1, Apart DEF SlotNamed, SameOthers
  <2>2. CASE Current # 1
    <3>1. /\ acx.name \in Name /\ acx.name = blocks[Current].name
          /\ Declared(acx.name, "retslot", blocks[Current].locals)
          /\ blocks[Current].locals \in Int
          /\ blocks[Current].stage = "decls" /\ SameOthers /\ open' = open
          /\ SameHead(blocks'[Current], blocks[Current])
      BY <1>2, <2>2, EndDeclsParts
    <3>2. "retslot" \in Role
      BY DEF Role
    <3> QED
      BY <3>1, <3>2, SlotNamedDeclared
  <2> QED
    BY <2>1, <2>2
<1>3. ASSUME NEW f \in Name, NEW kind \in {"procedure", "function"}, NEW formals \in Formals,
             NEW groups \in 0..Len(formals), BeginSubprogram(f, kind, formals, groups)
      PROVE  SlotNamed'
  <2>1. groups \in Nat
    OBVIOUS
  <2> QED
    BY <1>3, <2>1, SlotNamedBegin
<1>4. CASE Prologue
  <2>1. /\ vars' = vars /\ chain' = chain /\ open' = open /\ SameOthers
        /\ blocks'[Current].name = blocks[Current].name /\ blocks[Current].stage = "subs"
    BY <1>4, PrologueParts DEF SameHead
  <2> QED
    BY <2>1, Apart DEF SlotNamed, SameOthers
<1>5. ASSUME BodyStep PROVE SlotNamed'
  BY <1>5, SlotNamedBody
<1>6. CASE EndSubprogram
  <2> DEFINE n == Len(open)
  <2>1. /\ DOMAIN open' = 1..(n - 1) /\ \A i \in 1..(n - 1) : open'[i] = open[i]
        /\ \A i \in 1..(n - 1) : chain'[i] = chain[i]
        /\ vars' = vars
    BY <1>6, EndParts
  <2>2. n \in Nat /\ DOMAIN open = 1..n
    BY Apart
  <2>3. \A i \in 1..(n - 1) : i \in DOMAIN open /\ i # n
    <3> HIDE DEF n
    <3> QED
      BY <2>2
  <2>4. \A i \in 1..(n - 1) : open[i].block # Current /\ open[i].block \in DOMAIN blocks
    BY <2>3, Apart
  <2>5. SameOthers
    BY <1>6, EndSubParts
  <2> HIDE DEF n
  <2> QED
    BY <2>1, <2>3, <2>4, <2>5 DEF SlotNamed, SameOthers
<1>7. CASE Reject
  BY <1>7 DEF Reject
<1>8. CASE UNCHANGED sub
  BY <1>8 DEF sub, SlotNamed
<1> QED
  BY <1>1, <1>2, <1>3, <1>4, <1>5, <1>6, <1>7, <1>8, UseBody, CallBody, BeginForBody, AssignBody,
     OtherBody DEF Next

(* A block is finished by the end of its subprogram, and by nothing else. *)
DoneOnly ==
  \A b \in DOMAIN blocks' : blocks'[b].stage = "done" =>
    b \in DOMAIN blocks /\ (blocks[b].stage = "done" \/ (b = Current /\ EndSubprogram))

LEMMA OthersDone ==
  ASSUME SameOthers, blocks'[Current].stage # "done"
  PROVE  DoneOnly
BY DEF SameOthers, DoneOnly

LEMMA DoneStep ==
  ASSUME Structure, [Next]_sub, phase' # "error"
  PROVE  DoneOnly
<1>1. ASSUME NEW x \in Name, AddLocal(x) PROVE DoneOnly
  BY <1>1, AddLocalParts, OthersDone
<1>2. CASE EndDecls
  BY <1>2, EndDeclsParts, OthersDone
<1>3. ASSUME NEW f \in Name, NEW kind \in {"procedure", "function"}, NEW formals \in Formals,
             NEW groups \in 0..Len(formals), BeginSubprogram(f, kind, formals, groups)
      PROVE  DoneOnly
  <2>1. groups \in Nat
    OBVIOUS
  <2>2. /\ DOMAIN blocks = 1..Len(blocks) /\ DOMAIN blocks' = 1..(Len(blocks) + 1)
        /\ Len(blocks) \in Nat /\ blocks'[Current].stage = "subs"
        /\ \A b \in DOMAIN blocks : b # Current => blocks'[b] = blocks[b]
        /\ blocks'[Len(blocks) + 1] = Block(f, kind, Current, Len(formals), groups)
    BY <1>3, <2>1, BeginBlockParts
  <2>3. blocks'[Len(blocks) + 1].stage = "decls"
    BY <2>2 DEF Block
  <2>4. \A b \in DOMAIN blocks' : b \in DOMAIN blocks \/ b = Len(blocks) + 1
    BY <2>2
  <2> QED
    BY <2>2, <2>3, <2>4 DEF DoneOnly
<1>4. CASE Prologue
  BY <1>4, PrologueParts, OthersDone
<1>5. CASE EndSubprogram
  BY <1>5, EndSubParts DEF SameOthers, DoneOnly
<1>6. ASSUME BodyStep PROVE DoneOnly
  BY <1>6, BodyKept DEF SameBlock, DoneOnly
<1>7. CASE Reject
  BY <1>7 DEF Reject
<1>8. CASE UNCHANGED sub
  BY <1>8 DEF sub, DoneOnly
<1> QED
  BY <1>1, <1>2, <1>3, <1>4, <1>5, <1>6, <1>7, <1>8, UseBody, CallBody, BeginForBody, AssignBody,
     OtherBody DEF Next

LEMMA AssignReturns ==
  ASSUME Structure, SlotNamed, NEW x \in Name, NEW pointer \in BOOLEAN, Assign(x, pointer),
         blocks[Current].kind = "function", x = acx.name
  PROVE  Returned(Current)'
<1>1. PICK v \in DOMAIN vars :
        /\ Resolves(x, v) /\ SameBlock(blocks'[Current], blocks[Current])
        /\ blocks'[Current].written =
             (IF pointer THEN blocks[Current].written ELSE blocks[Current].written \cup {v})
  BY AssignParts
<1>2. HasLocal(x) /\ ~pointer /\ ~acx.toplevel
  BY FunctionAssigns
<1>3. v = Innermost.vars[x] /\ vars[v].owner = Current /\ vars[v].name = x
      /\ Len(chain) = Len(open)
  BY <1>1, <1>2, LocalVar
<1>4. /\ BodyStep /\ Current' = Current /\ blocks[Current].stage = "body"
      /\ v \in DOMAIN vars' /\ SameVar(vars'[v], vars[v])
  BY AssignBody, BodyKept
<1>5. x = blocks[Current].name /\ Current # 1
  <2>1. OfBlock(acx, Current) /\ Current \in DOMAIN blocks
    BY Here DEF Structure, ContextOK
  <2>2. blocks[1].kind = "procedure" \/ Current # 1
    BY <2>1 DEF Structure, ContextOK
  <2> QED
    BY <2>1, <2>2 DEF OfBlock
<1>6. Len(open) \in DOMAIN open /\ open[Len(open)].block = Current
  BY Apart
<1>7. vars[chain[Len(open)].vars[x]].role \in {"retslot", "leaked"}
  BY <1>4, <1>5, <1>6 DEF SlotNamed
<1>8. vars[v].role \in {"retslot", "leaked"}
  BY <1>3, <1>7 DEF Innermost
<1>9. /\ vars'[v].owner = Current /\ vars'[v].name = x /\ vars'[v].role \in {"retslot", "leaked"}
      /\ blocks'[Current].name = x /\ v \in blocks'[Current].written
  BY <1>1, <1>2, <1>3, <1>4, <1>5, <1>8 DEF SameVar, SameBlock
<1> QED
  BY <1>4, <1>9 DEF Returned, HasRole

LEMMA AssignedStep ==
  ASSUME Structure, SlotNamed, AssignedOK, [Next]_sub, phase' # "error"
  PROVE  AssignedOK'
<1>0. Current \in DOMAIN blocks
  BY Here
<1>1. ASSUME Current' = Current, acx'.assigned = acx.assigned PROVE AssignedOK'
  <2>1. blocks'[Current].kind = blocks[Current].kind
    BY <1>0, Keeps DEF KeepsBlocks, SameHead
  <2>2. Returned(Current) => Returned(Current)'
    BY <1>0, <1>1, ReturnedKept DEF Returned, HasRole
  <2> QED
    BY <1>1, <2>1, <2>2 DEF AssignedOK
<1>2. ASSUME open' = open, acx' = acx PROVE AssignedOK'
  BY <1>1, <1>2 DEF Current
<1>3. ASSUME NEW x \in Name, AddLocal(x) PROVE AssignedOK'
  BY <1>2, <1>3, AddLocalParts
<1>4. CASE EndDecls
  BY <1>2, <1>4, EndDeclsParts
<1>5. ASSUME NEW f \in Name, NEW kind \in {"procedure", "function"}, NEW formals \in Formals,
             NEW groups \in 0..Len(formals), BeginSubprogram(f, kind, formals, groups)
      PROVE  AssignedOK'
  <2>1. acx \in Contexts /\ acx' = Started(acx, f, kind)
    BY <1>5, BeginParts DEF Structure, Typed
  <2>2. ~acx'.assigned
    BY <2>1, ContextStarted
  <2> QED
    BY <2>2 DEF AssignedOK
<1>6. CASE Prologue
  <2>1. open' = open /\ acx \in Contexts /\ (acx' = acx \/ acx' = [acx EXCEPT !.toplevel = TRUE])
    BY <1>6 DEF Prologue, Structure, Typed
  <2>2. acx'.assigned = acx.assigned /\ Current' = Current
    BY <2>1 DEF Contexts, Current
  <2> QED
    BY <1>1, <2>2
<1>15. ASSUME NEW x \in Name, Call(x) PROVE AssignedOK'
  BY <1>2, <1>15 DEF Call
<1>7. ASSUME NEW x \in Name, Use(x) PROVE AssignedOK'
  <2>1. open' = open /\ acx \in Contexts /\ \E v : acx' = [acx EXCEPT !.disp = Disp(x, v)]
    BY <1>7 DEF Use, Structure, Typed
  <2>2. acx'.assigned = acx.assigned /\ Current' = Current
    BY <2>1 DEF Contexts, Current
  <2> QED
    BY <1>1, <2>2
<1>8. ASSUME NEW x \in Name, BeginFor(x) PROVE AssignedOK'
  <2>1. open' = open /\ acx \in Contexts
        /\ \E v : acx' = [acx EXCEPT !.disp = Disp(x, v), !.label = acx.label + 2]
    BY <1>8 DEF BeginFor, Structure, Typed
  <2>2. acx'.assigned = acx.assigned /\ Current' = Current
    BY <2>1 DEF Contexts, Current
  <2> QED
    BY <1>1, <2>2
<1>9. ASSUME NEW x \in Name, NEW pointer \in BOOLEAN, Assign(x, pointer) PROVE AssignedOK'
  <2>1. acx'.assigned = (acx.assigned \/ (~acx.toplevel /\ x = acx.name)) /\ open' = open
    BY <1>9, AssignParts DEF Assign
  <2>2. Current' = Current
    BY <2>1 DEF Current
  <2>3. CASE x = acx.name /\ blocks[Current].kind = "function"
    <3>1. Returned(Current)'
      BY <1>9, <2>3, AssignReturns
    <3> QED
      BY <3>1 DEF AssignedOK
  <2>4. CASE blocks[Current].kind # "function"
    <3>1. blocks'[Current].kind = blocks[Current].kind
      BY <1>0, Keeps DEF KeepsBlocks, SameHead
    <3> QED
      BY <2>2, <2>4, <3>1 DEF AssignedOK
  <2>5. CASE x # acx.name
    <3>1. acx'.assigned = acx.assigned
      <4>1. acx.assigned \in BOOLEAN
        BY DEF Structure, Typed, Contexts
      <4> QED
        BY <2>1, <2>5, <4>1
    <3> QED
      BY <1>1, <2>2, <3>1
  <2> QED
    BY <2>3, <2>4, <2>5
<1>10. CASE EndFor \/ EndProgram
  BY <1>2, <1>10 DEF EndFor, EndProgram
<1>11. CASE Branch
  <2>1. open' = open /\ acx \in Contexts /\ acx' = [acx EXCEPT !.label = acx.label + 2]
    BY <1>11 DEF Branch, Structure, Typed
  <2>2. acx'.assigned = acx.assigned /\ Current' = Current
    BY <2>1 DEF Contexts, Current
  <2> QED
    BY <1>1, <2>2
<1>12. CASE EndSubprogram
  <2>1. Structure'
    BY StructureStep
  <2>2. blocks'[Current'].stage # "body"
    <3> DEFINE n == Len(open)
    <3>1. /\ n \in Nat /\ n > 1 /\ Len(open') = n - 1 /\ \A i \in 1..(n - 1) : open'[i] = open[i]
      BY <1>12, EndParts
    <3>2. n - 1 \in 1..(n - 1) /\ n - 1 \in 1..n /\ n - 1 # n
      BY <3>1
    <3>3. Current' = open[n - 1].block
      BY <3>1, <3>2 DEF Current
    <3>4. /\ open[n - 1].block # Current /\ blocks[open[n - 1].block].stage = "subs"
          /\ open[n - 1].block \in DOMAIN blocks
      BY <3>2, Apart
    <3>5. SameOthers
      BY <1>12, EndSubParts
    <3> HIDE DEF n
    <3> QED
      BY <3>3, <3>4, <3>5 DEF SameOthers
  <2>3. ~acx'.assigned
    BY <2>1, <2>2 DEF Structure, ContextOK, AtRest
  <2> QED
    BY <2>3 DEF AssignedOK
<1>13. CASE Reject
  BY <1>13 DEF Reject
<1>14. CASE UNCHANGED sub
  BY <1>2, <1>14 DEF sub
<1> QED
  BY <1>3, <1>4, <1>5, <1>6, <1>7, <1>15, <1>8, <1>9, <1>10, <1>11, <1>12, <1>13, <1>14 DEF Next

LEMMA ReturnStart == StartShape => ReturnOK
<1> SUFFICES ASSUME StartShape PROVE ReturnOK
  OBVIOUS
<1>1. DOMAIN blocks = {1} /\ blocks[1].kind = "procedure" /\ DOMAIN open = {1}
      /\ open[1].block = 1 /\ Current = 1
  BY DEF StartShape, Block
<1> QED
  BY <1>1 DEF ReturnOK, RuleReturn, SlotNamed, AssignedOK

LEMMA ReturnAgain == StartShape' => ReturnOK'
BY ReturnStart, PTL

LEMMA ReturnStep == Structure /\ ReturnOK /\ [Next]_sub => ReturnOK'
<1> SUFFICES ASSUME Structure, ReturnOK, [Next]_sub PROVE ReturnOK'
  OBVIOUS
<1>1. CASE phase' = "error"
  <2>1. CASE Start'
    BY <2>1, ShapeAgain, ReturnAgain
  <2>2. CASE UNCHANGED sub
    BY <2>2 DEF sub, ReturnOK, RuleReturn, SlotNamed, AssignedOK, Returned, HasRole, Current
  <2> QED
    BY <1>1, <2>1, <2>2, ErrorStep
<1>2. CASE phase' # "error"
  <2>1. SlotNamed' /\ AssignedOK'
    BY <1>2, SlotNamedStep, AssignedStep DEF ReturnOK
  <2>2. ASSUME NEW b \in DOMAIN blocks', blocks'[b].kind = "function", blocks'[b].stage = "done"
        PROVE  Returned(b)'
    <3>1. b \in DOMAIN blocks /\ (blocks[b].stage = "done" \/ (b = Current /\ EndSubprogram))
      BY <1>2, <2>2, DoneStep DEF DoneOnly
    <3>2. blocks[b].kind = "function"
      BY <1>2, <2>2, <3>1, Keeps DEF KeepsBlocks, SameHead
    <3>3. Returned(b)
      <4>1. CASE blocks[b].stage = "done"
        BY <3>1, <3>2, <4>1 DEF ReturnOK, RuleReturn, Returned
      <4>2. CASE b = Current /\ EndSubprogram
        BY <3>2, <4>2, EndSubParts DEF ReturnOK, AssignedOK
      <4> QED
        BY <3>1, <4>1, <4>2
    <3> QED
      BY <1>2, <3>1, <3>3, ReturnedKept
  <2>3. RuleReturn'
    BY <2>2 DEF RuleReturn, Returned
  <2> QED
    BY <2>1, <2>3 DEF ReturnOK
<1> QED
  BY <1>1, <1>2

(* Rule 5.2, for programs of any size: a function that is accepted assigns *)
(* its return slot, or has a subprogram with a formal of its name          *)
(* (analyze_subprog, acx->ret_assigned).                                   *)
THEOREM FunctionsReturn == Spec => []RuleReturn
<1>1. Init => ReturnOK
  BY StartShapes, ReturnStart DEF Init, Start
<1>2. ReturnOK => RuleReturn
  BY DEF ReturnOK
<1> QED
  BY <1>1, <1>2, ReturnStep, StructureInvariant, PTL DEF Spec

-----------------------------------------------------------------------------
(* Offsets: locals count up from 0, the return slot comes after the last   *)
(* one, and formals count down from the number of groups plus one.         *)
OffsetIn(v) ==
  LET b == blocks[vars[v].owner] IN
  /\ vars[v].role = "local" => vars[v].offset \in 0..(b.locals - 1)
  /\ vars[v].role = "retslot" => vars[v].offset = b.locals /\ b.stage # "decls"
  /\ vars[v].role = "formal" =>
       vars[v].offset \in (b.groups + 2 - b.formals)..(b.groups + 1)
OffsetsUnique ==
  \A v, w \in DOMAIN vars :
    /\ vars[v].owner = vars[w].owner /\ vars[v].role = vars[w].role
    /\ vars[v].role # "leaked" /\ vars[v].offset = vars[w].offset
    => v = w
OffsetsOK == (\A v \in DOMAIN vars : OffsetIn(v)) /\ OffsetsUnique

(* The records of blocks as the offsets see them *)
SameFrame ==
  \A b \in DOMAIN blocks :
    /\ SameHead(blocks'[b], blocks[b]) /\ blocks'[b].locals = blocks[b].locals
    /\ blocks[b].stage # "decls" => blocks'[b].stage # "decls"

LEMMA OffsetKept ==
  ASSUME Structure, SameFrame, NEW v \in DOMAIN vars, SameVar(vars'[v], vars[v]), OffsetIn(v)
  PROVE  OffsetIn(v)'
<1>1. vars[v].owner \in DOMAIN blocks
  BY DEF Structure, OwnersOK
<1> DEFINE p == blocks[vars[v].owner]
           q == blocks'[vars[v].owner]
<1>2. /\ q.locals = p.locals /\ q.groups = p.groups /\ q.formals = p.formals
      /\ (p.stage # "decls" => q.stage # "decls")
  BY <1>1 DEF SameFrame, SameHead
<1>3. /\ vars'[v].owner = vars[v].owner /\ vars'[v].role = vars[v].role
      /\ vars'[v].offset = vars[v].offset
  BY DEF SameVar
<1>4. /\ vars[v].role = "local" => vars[v].offset \in 0..(p.locals - 1)
      /\ vars[v].role = "retslot" => vars[v].offset = p.locals /\ p.stage # "decls"
      /\ vars[v].role = "formal" =>
           vars[v].offset \in (p.groups + 2 - p.formals)..(p.groups + 1)
  BY DEF OffsetIn
<1>5. blocks'[vars'[v].owner] = q
  BY <1>3
<1> HIDE DEF p, q
<1> QED
  BY <1>2, <1>3, <1>4, <1>5 DEF OffsetIn

LEMMA OffsetsFrame ==
  ASSUME Structure, OffsetsOK, SameFrame, DOMAIN vars' = DOMAIN vars,
         \A v \in DOMAIN vars : SameVar(vars'[v], vars[v])
  PROVE  OffsetsOK'
<1>1. \A v \in DOMAIN vars' : OffsetIn(v)'
  BY OffsetKept DEF OffsetsOK
<1>2. OffsetsUnique'
  BY DEF OffsetsOK, OffsetsUnique, SameVar
<1> QED
  BY <1>1, <1>2 DEF OffsetsOK

LEMMA OffsetsAddLocal ==
  ASSUME Structure, OffsetsOK, NEW x \in Name, AddLocal(x)
  PROVE  OffsetsOK'
<1> DEFINE n == Len(vars) + 1
           l == blocks[Current].locals
<1>1. /\ Declared(x, "local", l) /\ l \in Nat /\ blocks[Current].stage = "decls" /\ SameOthers
      /\ SameHead(blocks'[Current], blocks[Current]) /\ blocks'[Current].locals = l + 1
      /\ blocks'[Current].stage = "decls"
  BY AddLocalParts
<1>2. "local" \in Role /\ l \in Int
  BY <1>1 DEF Role
<1>3. /\ \A v \in DOMAIN vars : v \in DOMAIN vars' /\ vars'[v] = vars[v]
      /\ vars'[n] = Var(Current, x, "local", l) /\ DOMAIN vars' = 1..n
  BY <1>1, <1>2, DeclaredVars
<1>4. /\ vars'[n].owner = Current /\ vars'[n].role = "local" /\ vars'[n].offset = l
  BY <1>3 DEF Var
<1>5. \A v \in DOMAIN vars' : v \in DOMAIN vars \/ v = n
  <2>1. Len(vars) \in Nat /\ DOMAIN vars = 1..Len(vars)
    BY Here
  <2> QED
    BY <1>3, <2>1
<1> HIDE DEF n
<1>6. ASSUME NEW v \in DOMAIN vars PROVE OffsetIn(v)'
  <2>1. vars'[v] = vars[v] /\ vars[v].owner \in DOMAIN blocks /\ OffsetIn(v)
    BY <1>3 DEF Structure, OwnersOK, OffsetsOK
  <2>2. CASE vars[v].owner = Current
    <3>1. /\ blocks'[Current].groups = blocks[Current].groups
          /\ blocks'[Current].formals = blocks[Current].formals
      BY <1>1 DEF SameHead
    <3>2. /\ vars[v].role = "local" => vars[v].offset \in 0..(l - 1)
          /\ vars[v].role # "retslot"
          /\ vars[v].role = "formal" => vars[v].offset \in
               (blocks[Current].groups + 2 - blocks[Current].formals)..(blocks[Current].groups + 1)
      BY <1>1, <2>1, <2>2 DEF OffsetIn
    <3>3. vars[v].role = "local" => vars[v].offset \in 0..((l + 1) - 1)
      <4> HIDE DEF l
      <4> QED
        BY <1>1, <3>2
    <3> QED
      BY <1>1, <2>1, <2>2, <3>1, <3>2, <3>3 DEF OffsetIn
  <2>3. CASE vars[v].owner # Current
    <3>1. blocks'[vars[v].owner] = blocks[vars[v].owner]
      BY <1>1, <2>1, <2>3 DEF SameOthers
    <3> QED
      BY <2>1, <3>1 DEF OffsetIn
  <2> QED
    BY <2>2, <2>3
<1>7. ASSUME NEW v, v = n PROVE OffsetIn(v)'
  <2>1. l \in 0..((l + 1) - 1)
    <3> HIDE DEF l
    <3> QED
      BY <1>1
  <2> QED
    BY <1>1, <1>4, <1>7, <2>1 DEF OffsetIn
<1>8. \A v \in DOMAIN vars : vars[v].owner = Current /\ vars[v].role = "local" =>
        vars[v].offset # l
  <2>1. \A v \in DOMAIN vars : vars[v].owner = Current /\ vars[v].role = "local" =>
          vars[v].offset \in 0..(l - 1)
    BY DEF OffsetsOK, OffsetIn
  <2> HIDE DEF l
  <2> QED
    BY <1>1, <2>1
<1>9. OffsetsUnique'
  <2>1. OffsetsUnique
    BY DEF OffsetsOK
  <2> HIDE DEF l
  <2> QED
    BY <1>3, <1>4, <1>5, <1>8, <2>1 DEF OffsetsUnique
<1> QED
  BY <1>5, <1>6, <1>7, <1>9 DEF OffsetsOK

LEMMA OffsetsRetslot ==
  ASSUME Structure, OffsetsOK, EndDecls, Current # 1
  PROVE  OffsetsOK'
<1> DEFINE n == Len(vars) + 1
           l == blocks[Current].locals
<1>1. /\ acx.name \in Name /\ Declared(acx.name, "retslot", l) /\ l \in Nat
      /\ blocks[Current].stage = "decls" /\ SameOthers
      /\ SameHead(blocks'[Current], blocks[Current]) /\ blocks'[Current].locals = l
      /\ blocks'[Current].stage = "subs"
  BY EndDeclsParts
<1>2. "retslot" \in Role /\ l \in Int
  BY <1>1 DEF Role
<1>3. /\ \A v \in DOMAIN vars : v \in DOMAIN vars' /\ vars'[v] = vars[v]
      /\ vars'[n] = Var(Current, acx.name, "retslot", l) /\ DOMAIN vars' = 1..n
  BY <1>1, <1>2, DeclaredVars
<1>4. /\ vars'[n].owner = Current /\ vars'[n].role = "retslot" /\ vars'[n].offset = l
  BY <1>3 DEF Var
<1>5. \A v \in DOMAIN vars' : v \in DOMAIN vars \/ v = n
  <2>1. Len(vars) \in Nat /\ DOMAIN vars = 1..Len(vars)
    BY Here
  <2> QED
    BY <1>3, <2>1
<1>6. SameFrame
  BY <1>1, SameSelf DEF SameFrame, SameOthers
<1> HIDE DEF n
<1>7. \A v \in DOMAIN vars : OffsetIn(v)'
  BY <1>3, <1>6, OffsetKept, SameSelf DEF OffsetsOK
<1>8. ASSUME NEW v, v = n PROVE OffsetIn(v)'
  BY <1>1, <1>4, <1>8 DEF OffsetIn
<1>9. \A v \in DOMAIN vars : vars[v].owner = Current => vars[v].role # "retslot"
  BY <1>1 DEF OffsetsOK, OffsetIn
<1>10. OffsetsUnique'
  <2>1. OffsetsUnique
    BY DEF OffsetsOK
  <2> QED
    BY <1>3, <1>4, <1>5, <1>9, <2>1 DEF OffsetsUnique
<1> QED
  BY <1>5, <1>7, <1>8, <1>10 DEF OffsetsOK

LEMMA OffsetsBegin ==
  ASSUME Structure, OffsetsOK, NEW f \in Name, NEW kind \in {"procedure", "function"},
         NEW s \in Formals, NEW g \in Nat, BeginSubprogram(f, kind, s, g)
  PROVE  OffsetsOK'
<1> DEFINE m == Len(vars)
           n == Len(s)
           nb == Len(blocks)
<1>1. m \in Nat /\ DOMAIN vars = 1..m /\ n \in Nat
  BY Here, FormalsType
<1>2. /\ nb \in Nat /\ DOMAIN blocks = 1..nb
      /\ \A b \in DOMAIN blocks : b # Current => blocks'[b] = blocks[b]
      /\ SameHead(blocks'[Current], blocks[Current])
      /\ blocks'[Current].locals = blocks[Current].locals /\ blocks'[Current].stage = "subs"
      /\ blocks'[nb + 1] = Block(f, kind, Current, n, g)
  BY BeginBlockParts
<1>3. SameFrame
  BY <1>2, SameSelf DEF SameFrame
<1>4. blocks'[nb + 1].formals = n /\ blocks'[nb + 1].groups = g
  BY <1>2 DEF Block
<1>5. /\ DOMAIN vars' = 1..(m + n + n)
      /\ \A v \in DOMAIN vars : SameVar(vars'[v], vars[v])
  BY BeginVars
<1>6. \A i \in 1..n : /\ vars'[m + i].role = "leaked"
                      /\ vars'[m + n + i].role = "formal" /\ vars'[m + n + i].owner = nb + 1
                      /\ vars'[m + n + i].offset = g + 2 - i
  <2>1. \A i \in 1..n : /\ vars'[m + i] = Var(Current, s[i], "leaked", -1)
                        /\ vars'[m + n + i] = Var(nb + 1, s[i], "formal", FormalOffset(g, i))
    BY BeginNew DEF NewVars
  <2>2. \A o, x, r, k : /\ Var(o, x, r, k).role = r /\ Var(o, x, r, k).owner = o
                        /\ Var(o, x, r, k).offset = k
    BY DEF Var
  <2> HIDE DEF m, n, nb
  <2> QED
    BY <2>1, <2>2 DEF FormalOffset
<1> HIDE DEF m, n, nb
<1>7. \A v \in DOMAIN vars' : \/ v \in DOMAIN vars
                              \/ \E i \in 1..n : v = m + i
                              \/ \E i \in 1..n : v = m + n + i
  <2>1. \A v \in 1..(m + n + n) : \/ v \in 1..m
                                  \/ \E i \in 1..n : v = m + i
                                  \/ \E i \in 1..n : v = m + n + i
    BY <1>1, BeginVarCases
  <2> QED
    BY <1>1, <1>5, <2>1
<1>8. ASSUME NEW v \in DOMAIN vars' PROVE OffsetIn(v)'
  <2>1. CASE v \in DOMAIN vars
    BY <1>3, <1>5, <2>1, OffsetKept DEF OffsetsOK
  <2>2. CASE \E i \in 1..n : v = m + i
    BY <1>6, <2>2 DEF OffsetIn
  <2>3. CASE \E i \in 1..n : v = m + n + i
    <3>1. PICK i \in 1..n : v = m + n + i
      BY <2>3
    <3>2. g + 2 - i \in (g + 2 - n)..(g + 1)
      BY <1>1
    <3> QED
      BY <1>4, <1>6, <3>1, <3>2 DEF OffsetIn
  <2> QED
    BY <1>7, <2>1, <2>2, <2>3
<1>9. ASSUME NEW v \in DOMAIN vars', NEW w \in DOMAIN vars',
             vars'[v].owner = vars'[w].owner, vars'[v].role = vars'[w].role,
             vars'[v].role # "leaked", vars'[v].offset = vars'[w].offset
      PROVE  v = w
  <2>1. \A u \in DOMAIN vars : vars'[u].owner # nb + 1
    <3>1. \A u \in DOMAIN vars : vars'[u].owner \in 1..nb
      BY <1>2, <1>5 DEF Structure, OwnersOK, SameVar
    <3> QED
      BY <1>2, <3>1
  <2>2. CASE v \in DOMAIN vars /\ w \in DOMAIN vars
    BY <1>5, <1>9, <2>2 DEF OffsetsOK, OffsetsUnique, SameVar
  <2>3. CASE v \in DOMAIN vars /\ w \notin DOMAIN vars
    BY <1>6, <1>7, <1>9, <2>1, <2>3
  <2>4. CASE v \notin DOMAIN vars /\ w \in DOMAIN vars
    BY <1>6, <1>7, <1>9, <2>1, <2>4
  <2>5. CASE v \notin DOMAIN vars /\ w \notin DOMAIN vars
    <3>1. PICK i \in 1..n : v = m + n + i
      BY <1>6, <1>7, <1>9, <2>5
    <3>2. PICK j \in 1..n : w = m + n + j
      BY <1>6, <1>7, <1>9, <2>5
    <3>3. g + 2 - i = g + 2 - j
      BY <1>6, <1>9, <3>1, <3>2
    <3> QED
      BY <1>1, <3>1, <3>2, <3>3
  <2> QED
    BY <2>2, <2>3, <2>4, <2>5
<1>10. OffsetsUnique'
  BY <1>9 DEF OffsetsUnique
<1> QED
  BY <1>8, <1>10 DEF OffsetsOK

LEMMA OffsetsStep == Structure /\ OffsetsOK /\ [Next]_sub => OffsetsOK'
<1> SUFFICES ASSUME Structure, OffsetsOK, [Next]_sub PROVE OffsetsOK'
  OBVIOUS
<1>1. ASSUME NEW x \in Name, AddLocal(x) PROVE OffsetsOK'
  BY <1>1, OffsetsAddLocal
<1>2. CASE EndDecls
  <2>1. CASE Current = 1
    <3>1. /\ vars' = vars /\ SameOthers /\ SameHead(blocks'[Current], blocks[Current])
          /\ blocks'[Current].locals = blocks[Current].locals /\ blocks'[Current].stage = "subs"
      BY <1>2, <2>1, EndDeclsParts
    <3>2. SameFrame
      BY <3>1, SameSelf DEF SameFrame, SameOthers
    <3> QED
      BY <3>1, <3>2, OffsetsFrame, SameSelf
  <2> QED
    BY <1>2, <2>1, OffsetsRetslot
<1>3. ASSUME NEW f \in Name, NEW kind \in {"procedure", "function"}, NEW formals \in Formals,
             NEW groups \in 0..Len(formals), BeginSubprogram(f, kind, formals, groups)
      PROVE  OffsetsOK'
  <2>1. groups \in Nat
    OBVIOUS
  <2> QED
    BY <1>3, <2>1, OffsetsBegin
<1>4. CASE Prologue
  <2>1. /\ vars' = vars /\ SameOthers /\ SameHead(blocks'[Current], blocks[Current])
        /\ blocks'[Current].locals = blocks[Current].locals /\ blocks'[Current].stage = "body"
    BY <1>4, PrologueParts
  <2>2. SameFrame
    BY <2>1, SameSelf DEF SameFrame, SameOthers
  <2> QED
    BY <2>1, <2>2, OffsetsFrame, SameSelf
<1>5. ASSUME BodyStep PROVE OffsetsOK'
  <2>1. SameFrame
    BY <1>5, BodyKept DEF SameFrame, SameBlock, SameHead
  <2> QED
    BY <1>5, <2>1, BodyKept, OffsetsFrame
<1>6. CASE EndSubprogram
  <2>1. /\ vars' = vars /\ SameOthers /\ SameHead(blocks'[Current], blocks[Current])
        /\ blocks'[Current].locals = blocks[Current].locals /\ blocks'[Current].stage = "done"
    BY <1>6, EndSubParts
  <2>2. SameFrame
    BY <2>1, SameSelf DEF SameFrame, SameOthers
  <2> QED
    BY <2>1, <2>2, OffsetsFrame, SameSelf
<1>7. CASE Reject
  <2>1. DOMAIN vars' = {}
    BY <1>7, RejectStart, ShapeAgain DEF StartShape
  <2> QED
    BY <2>1 DEF OffsetsOK, OffsetsUnique
<1>8. CASE UNCHANGED sub
  BY <1>8 DEF sub, OffsetsOK, OffsetsUnique, OffsetIn
<1> QED
  BY <1>1, <1>2, <1>3, <1>4, <1>5, <1>6, <1>7, <1>8, UseBody, CallBody, BeginForBody, AssignBody,
     OtherBody DEF Next

LEMMA OffsetsApart == Structure /\ OffsetsOK => OffsetsDistinct
<1> SUFFICES ASSUME Structure, OffsetsOK, NEW v \in DOMAIN vars, NEW w \in DOMAIN vars,
                    LET b == blocks[vars[v].owner] IN
                    b.formals = 0 \/ b.formals + b.locals <= b.groups + 1,
                    vars[v].owner = vars[w].owner, vars[v].role # "leaked",
                    vars[w].role # "leaked", vars[v].offset = vars[w].offset
             PROVE  v = w
  BY DEF OffsetsDistinct
<1> DEFINE b == blocks[vars[v].owner]
           n == b.formals
           l == b.locals
           g == b.groups
<1>1. n \in Nat /\ l \in Nat /\ g \in Nat
  <2>1. vars[v].owner \in DOMAIN blocks /\ blocks \in Seq(BlockRec(Len(vars)))
    BY DEF Structure, OwnersOK, Typed
  <2>2. b \in BlockRec(Len(vars))
    BY <2>1
  <2> QED
    BY <2>2 DEF BlockRec
<1>2. \A u \in {v, w} : /\ vars[u].role = "local" => vars[u].offset \in 0..(l - 1)
                        /\ vars[u].role = "retslot" => vars[u].offset = l
                        /\ vars[u].role = "formal" => vars[u].offset \in (g + 2 - n)..(g + 1)
  BY DEF OffsetsOK, OffsetIn
<1>3. /\ vars[v].role \in {"local", "formal", "retslot"}
      /\ vars[w].role \in {"local", "formal", "retslot"}
  <2>1. vars[v] \in Variables /\ vars[w] \in Variables
    BY DEF Structure, Typed
  <2> QED
    BY <2>1 DEF Variables, Role
<1>4. n = 0 \/ n + l <= g + 1
  OBVIOUS
<1> HIDE DEF n, l, g, b
<1>5. vars[v].role = vars[w].role
  BY <1>1, <1>2, <1>3, <1>4
<1> QED
  BY <1>5 DEF OffsetsOK, OffsetsUnique

(* Offsets in a frame are distinct for any number of variables and         *)
(* formals, as long as the formals are few or come in groups of one        *)
(* (analyze_subprog, stab_add_var).                                        *)
THEOREM FrameOffsetsDistinct == Spec => []OffsetsDistinct
<1>1. Init => OffsetsOK
  BY DEF Init, OffsetsOK, OffsetsUnique
<1> QED
  BY <1>1, OffsetsStep, OffsetsApart, StructureInvariant, PTL DEF Spec

-----------------------------------------------------------------------------
(* The stack: in a body lie what the prologue pushed and the counters of   *)
(* loops, as long as nothing else is known to have been left; a prologue   *)
(* pushes only for captured variables.                                     *)
WordsIn(b) ==
  LET p == blocks[b] IN
  /\ p.stage \in {"decls", "subs"} => p.pushed = 0 /\ p.words = 0 /\ p.loops = 0 /\ p.left = {}
  /\ p.stage = "body" /\ p.left = {} => p.words = p.pushed + p.loops
  /\ p.stage = "done" /\ p.pushed = 0 /\ p.left = {} => p.words = p.loops
  /\ b # 1 /\ p.pushed # 0 => HasCaptured(b)
WordsOK == \A b \in DOMAIN blocks : WordsIn(b)

LEMMA FillsOwned ==
  ASSUME Structure
  PROVE  \A v \in Fills : /\ v \in DOMAIN vars /\ vars[v].captured /\ vars[v].owner = Current
                          /\ vars[v].name \in Name \ LastBucket
<1> SUFFICES ASSUME NEW v \in Fills
             PROVE  /\ v \in DOMAIN vars /\ vars[v].captured /\ vars[v].owner = Current
                    /\ vars[v].name \in Name \ LastBucket
  OBVIOUS
<1>1. PICK x \in Name \ LastBucket : v = Innermost.vars[x] /\ v # NONE /\ vars[v].captured
  BY DEF Fills
<1>2. Len(chain) \in DOMAIN chain /\ Innermost.block = Current
  <2>1. Len(chain) \in Nat /\ Len(chain) >= 1 /\ DOMAIN chain = 1..Len(chain)
    BY Here
  <2>2. Innermost.block = Current
    BY Here
  <2> QED
    BY <2>1, <2>2
<1>3. v \in DOMAIN vars
  BY <1>1, <1>2, Scopes DEF Innermost
<1>4. vars[v].owner = Innermost.block /\ vars[v].name = x
  BY <1>1, <1>2 DEF Structure, ChainOK, Innermost
<1> QED
  BY <1>1, <1>2, <1>3, <1>4

LEMMA CapturedKept ==
  ASSUME KeepsVars, NEW b, HasCaptured(b)
  PROVE  HasCaptured(b)'
BY DEF KeepsVars, HasCaptured, SameVar

LEMMA WordsSame ==
  ASSUME KeepsVars, NEW b, WordsIn(b), blocks'[b].stage = blocks[b].stage,
         SameBody(blocks'[b], blocks[b])
  PROVE  WordsIn(b)'
<1>1. HasCaptured(b) => HasCaptured(b)'
  BY CapturedKept
<1> QED
  BY <1>1 DEF WordsIn, SameBody

LEMMA WordsChange ==
  ASSUME Structure, WordsOK, KeepsVars, SameOthers,
         \A c \in {Current} : WordsIn(c)'
  PROVE  WordsOK'
<1>1. \A b \in DOMAIN blocks : b # Current => WordsIn(b)'
  <2>1. \A b \in DOMAIN blocks : b # Current => blocks'[b] = blocks[b]
    BY DEF SameOthers
  <2>2. \A p : SameBody(p, p)
    BY DEF SameBody
  <2> QED
    BY <2>1, <2>2, WordsSame DEF WordsOK
<1> QED
  BY <1>1 DEF WordsOK, SameOthers

LEMMA WordsStep == Structure /\ WordsOK /\ [Next]_sub => WordsOK'
<1> SUFFICES ASSUME Structure, WordsOK, [Next]_sub PROVE WordsOK'
  OBVIOUS
<1>0. Current \in DOMAIN blocks
  BY Here
<1>1. CASE phase' = "error"
  <2>1. CASE Start'
    <3>1. DOMAIN blocks' = {1} /\ blocks'[1] = Block(NONE, "procedure", 0, 0, 0)
      BY <2>1, ShapeAgain DEF StartShape
    <3>2. blocks'[1].stage = "decls" /\ blocks'[1].pushed = 0 /\ blocks'[1].words = 0
          /\ blocks'[1].loops = 0 /\ blocks'[1].left = {}
      BY <3>1 DEF Block
    <3> QED
      BY <3>1, <3>2 DEF WordsOK, WordsIn
  <2>2. CASE UNCHANGED sub
    BY <2>2 DEF sub, WordsOK, WordsIn, HasCaptured
  <2> QED
    BY <1>1, <2>1, <2>2, ErrorStep
<1>2. CASE phase' # "error"
  <2>0. KeepsVars
    BY <1>2, Keeps
  <2>1. ASSUME NEW x \in Name, AddLocal(x) PROVE WordsOK'
    <3>1. /\ SameOthers /\ SameBody(blocks'[Current], blocks[Current])
          /\ blocks[Current].stage = "decls" /\ blocks'[Current].stage = "decls"
      BY <2>1, AddLocalParts
    <3>2. \A c \in {Current} : WordsIn(c)'
      BY <1>0, <2>0, <3>1, WordsSame DEF WordsOK
    <3> QED
      BY <2>0, <3>1, <3>2, WordsChange
  <2>2. CASE EndDecls
    <3>1. /\ SameOthers /\ SameBody(blocks'[Current], blocks[Current])
          /\ blocks[Current].stage = "decls" /\ blocks'[Current].stage = "subs"
      BY <2>2, EndDeclsParts
    <3>2. /\ blocks'[Current].pushed = 0 /\ blocks'[Current].words = 0
          /\ blocks'[Current].loops = 0 /\ blocks'[Current].left = {}
      BY <1>0, <3>1 DEF WordsOK, WordsIn, SameBody
    <3>3. \A c \in {Current} : WordsIn(c)'
      BY <3>1, <3>2 DEF WordsIn
    <3> QED
      BY <2>0, <3>1, <3>3, WordsChange
  <2>3. ASSUME NEW f \in Name, NEW kind \in {"procedure", "function"}, NEW formals \in Formals,
               NEW groups \in 0..Len(formals), BeginSubprogram(f, kind, formals, groups)
        PROVE  WordsOK'
    <3> DEFINE nb == Len(blocks)
    <3>1. groups \in Nat
      OBVIOUS
    <3>2. /\ DOMAIN blocks = 1..nb /\ DOMAIN blocks' = 1..(nb + 1) /\ nb \in Nat
          /\ blocks'[Current].stage = "subs" /\ blocks[Current].stage = "subs"
          /\ SameBody(blocks'[Current], blocks[Current])
          /\ \A b \in DOMAIN blocks : b # Current => blocks'[b] = blocks[b]
          /\ blocks'[nb + 1] = Block(f, kind, Current, Len(formals), groups)
      BY <2>3, <3>1, BeginBlockParts
    <3>3. /\ blocks'[nb + 1].stage = "decls" /\ blocks'[nb + 1].pushed = 0
          /\ blocks'[nb + 1].words = 0 /\ blocks'[nb + 1].loops = 0
          /\ blocks'[nb + 1].left = {}
      BY <3>2 DEF Block
    <3>4. \A b \in DOMAIN blocks' : b \in DOMAIN blocks \/ b = nb + 1
      BY <3>2
    <3>5. \A p : SameBody(p, p)
      BY DEF SameBody
    <3>6. \A b \in DOMAIN blocks : /\ blocks'[b].stage = blocks[b].stage
                                   /\ SameBody(blocks'[b], blocks[b])
      BY <3>2, <3>5
    <3> HIDE DEF nb
    <3>7. \A b \in DOMAIN blocks : WordsIn(b)'
      BY <2>0, <3>6, WordsSame DEF WordsOK
    <3>8. ASSUME NEW b, b = nb + 1 PROVE WordsIn(b)'
      BY <3>3, <3>8 DEF WordsIn
    <3> QED
      BY <3>4, <3>7, <3>8 DEF WordsOK
  <2>4. CASE Prologue
    <3>1. /\ SameOthers /\ blocks[Current].stage = "subs" /\ blocks'[Current].stage = "body"
          /\ blocks'[Current].loops = blocks[Current].loops
          /\ blocks'[Current].pushed = (IF Current = 1 THEN 0 ELSE Pushes)
          /\ blocks'[Current].words = blocks'[Current].pushed
      BY <2>4, PrologueParts
    <3>2. blocks'[Current].loops = 0 /\ Pushes \in Nat
      BY <1>0, <3>1, FillsVars DEF WordsOK, WordsIn
    <3>3. ASSUME Current # 1, Pushes # 0 PROVE HasCaptured(Current)
      <4>1. Fills # {}
        BY <3>3, FillsVars
      <4> QED
        BY <4>1, FillsOwned DEF HasCaptured
    <3>4. blocks'[Current].words = blocks'[Current].pushed + blocks'[Current].loops
      BY <3>1, <3>2
    <3>5. ASSUME NEW c, c = Current PROVE WordsIn(c)'
      <4>1. c # 1 /\ blocks'[c].pushed # 0 => HasCaptured(c)'
        BY <2>0, <3>1, <3>3, <3>5, CapturedKept
      <4> QED
        BY <3>1, <3>4, <3>5, <4>1 DEF WordsIn
    <3> QED
      BY <2>0, <3>1, <3>5, WordsChange
  <2>5. ASSUME NEW k \in {0, 1}, Counted(k), blocks[Current].stage = "body" PROVE WordsOK'
    <3>1. /\ SameOthers /\ SameBlock(blocks'[Current], blocks[Current])
          /\ blocks'[Current].loops = blocks[Current].loops + k
          /\ blocks[Current].left \subseteq blocks'[Current].left
          /\ blocks'[Current].left = {} => blocks'[Current].words = blocks[Current].words + k
      BY <2>5 DEF Counted
    <3>3. /\ blocks'[Current].stage = "body" /\ blocks'[Current].pushed = blocks[Current].pushed
      BY <2>5, <3>1 DEF SameBlock
    <3>4. blocks'[Current].left = {} =>
            blocks'[Current].words = blocks'[Current].pushed + blocks'[Current].loops
      <4>0. SUFFICES ASSUME blocks'[Current].left = {}
                     PROVE  blocks'[Current].words = blocks'[Current].pushed + blocks'[Current].loops
        OBVIOUS
      <4>1. blocks[Current].words = blocks[Current].pushed + blocks[Current].loops
        BY <1>0, <2>5, <3>1, <4>0 DEF WordsOK, WordsIn
      <4>2. /\ blocks[Current] \in BlockRec(Len(vars))
        BY Here
      <4>3. blocks[Current].pushed \in Nat /\ blocks[Current].loops \in Nat
        BY <4>2 DEF BlockRec
      <4> QED
        BY <3>1, <3>3, <4>0, <4>1, <4>3
    <3>5. ASSUME NEW c, c = Current PROVE WordsIn(c)'
      <4>1. c # 1 /\ blocks'[c].pushed # 0 => HasCaptured(c)'
        BY <1>0, <2>0, <3>3, <3>5, CapturedKept DEF WordsOK, WordsIn
      <4> QED
        BY <3>3, <3>4, <3>5, <4>1 DEF WordsIn
    <3> QED
      BY <2>0, <3>1, <3>5, WordsChange
  <2>9. ASSUME NEW x \in Name, Use(x) \/ Call(x) PROVE WordsOK'
    <3>1. blocks[Current].stage = "body"
      BY <2>9 DEF Use, Call, Statement, At
    <3> QED
      BY <2>5, <2>9, <3>1, UseParts
  <2>10. ASSUME NEW x \in Name, BeginFor(x) PROVE WordsOK'
    <3>1. blocks[Current].stage = "body"
      BY <2>10 DEF BeginFor, Statement, At
    <3> QED
      BY <2>5, <2>10, <3>1, ForParts
  <2>6. ASSUME NEW x \in Name, NEW pointer \in BOOLEAN, Assign(x, pointer) PROVE WordsOK'
    <3>1. /\ SameOthers /\ SameBlock(blocks'[Current], blocks[Current])
          /\ blocks'[Current].words = blocks[Current].words
          /\ blocks'[Current].loops = blocks[Current].loops
          /\ blocks'[Current].left = blocks[Current].left
      BY <2>6, AssignParts
    <3>2. SameBody(blocks'[Current], blocks[Current])
          /\ blocks'[Current].stage = blocks[Current].stage
      BY <3>1 DEF SameBlock, SameBody
    <3>3. \A c \in {Current} : WordsIn(c)'
      BY <1>0, <2>0, <3>2, WordsSame DEF WordsOK
    <3> QED
      BY <2>0, <3>1, <3>3, WordsChange
  <2>7. CASE EndSubprogram
    <3>1. /\ SameOthers /\ blocks[Current].stage = "body" /\ blocks'[Current].stage = "done"
          /\ blocks'[Current].loops = blocks[Current].loops
          /\ blocks'[Current].left = blocks[Current].left
          /\ blocks'[Current].pushed = blocks[Current].pushed
          /\ (blocks[Current].pushed = 0 => blocks'[Current].words = blocks[Current].words)
      BY <2>7, EndSubParts
    <3>2. blocks'[Current].pushed = 0 /\ blocks'[Current].left = {} =>
            blocks'[Current].words = blocks'[Current].loops
      <4>1. blocks[Current].left = {} =>
              blocks[Current].words = blocks[Current].pushed + blocks[Current].loops
        BY <1>0, <3>1 DEF WordsOK, WordsIn
      <4>2. blocks[Current] \in BlockRec(Len(vars))
        BY Here
      <4>3. blocks[Current].loops \in Nat
        BY <4>2 DEF BlockRec
      <4> QED
        BY <3>1, <4>1, <4>3
    <3>3. ASSUME NEW c, c = Current PROVE WordsIn(c)'
      <4>1. c # 1 /\ blocks'[c].pushed # 0 => HasCaptured(c)'
        BY <1>0, <2>0, <3>1, <3>3, CapturedKept DEF WordsOK, WordsIn
      <4> QED
        BY <3>1, <3>2, <3>3, <4>1 DEF WordsIn
    <3> QED
      BY <2>0, <3>1, <3>3, WordsChange
  <2>8. ASSUME blocks' = blocks PROVE WordsOK'
    <3>1. \A p : SameBody(p, p)
      BY DEF SameBody
    <3> QED
      BY <2>0, <2>8, <3>1, WordsSame DEF WordsOK
  <2> QED
    BY <1>2, <2>1, <2>2, <2>3, <2>4, <2>6, <2>7, <2>8, <2>9, <2>10
       DEF Next, EndFor, Branch, EndProgram, Reject, sub
<1> QED
  BY <1>1, <1>2

LEMMA WordsReturn == Structure /\ WordsOK => ReturnsToCaller
<1> SUFFICES ASSUME Structure, WordsOK, NEW b \in DOMAIN blocks \ {1}, blocks[b].stage = "done"
             PROVE  \/ blocks[b].words = 0 \/ blocks[b].loops > 0
                    \/ blocks[b].left # {} \/ HasCaptured(b)
  BY DEF ReturnsToCaller
<1>1. blocks[b] \in BlockRec(Len(vars))
  BY DEF Structure, Typed
<1>2. blocks[b].loops \in Nat
  BY <1>1 DEF BlockRec
<1>3. blocks[b].pushed = 0 /\ blocks[b].left = {} => blocks[b].words = blocks[b].loops
  BY DEF WordsOK, WordsIn
<1>4. blocks[b].pushed # 0 => HasCaptured(b)
  BY DEF WordsOK, WordsIn
<1> QED
  BY <1>2, <1>3, <1>4

(* A subprogram finds its caller's address at ret if it has no FOR, no     *)
(* captured variable, no call with arguments and no register that stayed   *)
(* on the stack, in programs of any size (analyze_subprog, analyze_call).  *)
THEOREM StackRestored == Spec => []ReturnsToCaller
<1>1. Init => WordsOK
  BY DEF Init, WordsOK, WordsIn, Block
<1> QED
  BY <1>1, WordsStep, WordsReturn, StructureInvariant, PTL DEF Spec
-----------------------------------------------------------------------------
(* The display *)

(* A captured variable belongs to a block past its declarations.  As long  *)
(* as the block is at its subprograms the scope names the variable, so the *)
(* prologue will find it; from then on the prologue has found it.          *)
Excused(v) == vars[v].lost # {} \/ vars[v].role = "leaked"
Awaited(v) ==
  \A i \in DOMAIN open :
    open[i].block = vars[v].owner => chain[i].vars[vars[v].name] = v
Prepared(v) == v \in blocks[vars[v].owner].fills \/ vars[v].name \in LastBucket
FilledIn(v) ==
  vars[v].captured =>
    /\ blocks[vars[v].owner].stage # "decls"
    /\ \/ Excused(v)
       \/ blocks[vars[v].owner].stage = "subs" /\ Awaited(v)
       \/ blocks[vars[v].owner].stage \in {"body", "done"} /\ Prepared(v)
FilledOK == \A v \in DOMAIN vars : FilledIn(v)

LEMMA Owned ==
  ASSUME Structure
  PROVE  \A v \in DOMAIN vars : vars[v].owner \in DOMAIN blocks /\ vars[v].name \in Name
<1>1. \A v \in DOMAIN vars : vars[v].owner \in DOMAIN blocks
  BY DEF Structure, OwnersOK
<1>2. \A v \in DOMAIN vars : vars[v] \in Variables
  BY DEF Structure, Typed
<1>3. \A v \in DOMAIN vars : vars[v].name \in Name
  BY <1>2 DEF Variables
<1> QED
  BY <1>1, <1>3

(* A variable whose block and scope stay as they are *)
LEMMA FilledKept ==
  ASSUME NEW v, FilledIn(v), SameVar(vars'[v], vars[v]),
         vars'[v].captured => vars[v].captured, vars[v].lost \subseteq vars'[v].lost,
         blocks'[vars[v].owner].stage = blocks[vars[v].owner].stage,
         blocks'[vars[v].owner].fills = blocks[vars[v].owner].fills,
         vars'[v].lost # {} \/
           \A i \in DOMAIN open' : open'[i].block = vars[v].owner =>
             /\ i \in DOMAIN open /\ open'[i] = open[i]
             /\ chain'[i].vars[vars[v].name] = chain[i].vars[vars[v].name]
  PROVE  FilledIn(v)'
<1>1. vars'[v].owner = vars[v].owner /\ vars'[v].name = vars[v].name
      /\ vars'[v].role = vars[v].role
  BY DEF SameVar
<1>2. Excused(v) => Excused(v)'
  BY <1>1 DEF Excused
<1>3. Prepared(v) => Prepared(v)'
  BY <1>1 DEF Prepared
<1>4. Awaited(v) => Awaited(v)' \/ Excused(v)'
  BY <1>1 DEF Awaited, Excused
<1> QED
  BY <1>1, <1>2, <1>3, <1>4 DEF FilledIn

(* A declaration, with or without the end of the declarations *)
LEMMA FilledDeclared ==
  ASSUME Structure, FilledOK, NEW x \in Name, NEW role \in Role, NEW k \in Int,
         Declared(x, role, k), SameOthers, open' = open, blocks[Current].stage = "decls"
  PROVE  FilledOK'
<1>1. /\ Len(vars) \in Nat /\ DOMAIN vars = 1..Len(vars) /\ Len(chain) = Len(open)
  BY Here
<1>2. /\ DOMAIN vars' = 1..(Len(vars) + 1) /\ \A v \in DOMAIN vars : vars'[v] = vars[v]
      /\ vars'[Len(vars) + 1] = Var(Current, x, role, k)
  BY DeclaredVars
<1>3. ~vars'[Len(vars) + 1].captured
  BY <1>2 DEF Var
<1> SUFFICES ASSUME NEW v \in DOMAIN vars' PROVE FilledIn(v)'
  BY DEF FilledOK
<1>4. CASE v \notin DOMAIN vars
  <2>1. v = Len(vars) + 1
    BY <1>1, <1>2, <1>4
  <2> QED
    BY <1>3, <2>1 DEF FilledIn
<1>5. CASE v \in DOMAIN vars /\ ~vars[v].captured
  BY <1>2, <1>5 DEF FilledIn
<1>6. CASE v \in DOMAIN vars /\ vars[v].captured
  <2> DEFINE o == vars[v].owner
  <2>1. FilledIn(v) /\ o \in DOMAIN blocks /\ vars'[v] = vars[v] /\ vars[v].name \in Name
    BY <1>2, <1>6, Owned DEF FilledOK
  <2>2. o # Current
    BY <1>6, <2>1 DEF FilledIn
  <2>3. blocks'[o] = blocks[o]
    BY <2>1, <2>2 DEF SameOthers
  <2>4. ASSUME NEW i \in DOMAIN open, open[i].block = o
        PROVE  chain'[i].vars[vars[v].name] = chain[i].vars[vars[v].name]
    <3>1. i # Len(open) /\ i \in DOMAIN chain
      BY <2>2, <2>4, Apart
    <3> QED
      BY <1>1, <2>1, <3>1, DeclaredChain
  <2>5. SameVar(vars'[v], vars[v])
    BY <2>1, SameSelf
  <2> QED
    BY <2>1, <2>3, <2>4, <2>5, FilledKept
<1> QED
  BY <1>4, <1>5, <1>6

LEMMA FilledBegin ==
  ASSUME Structure, FilledOK, NEW f \in Name, NEW kind \in {"procedure", "function"},
         NEW s \in Formals, NEW g \in Nat, BeginSubprogram(f, kind, s, g)
  PROVE  FilledOK'
<1> DEFINE m == Len(vars)
           n == Len(s)
           no == Len(open)
           nb == Len(blocks)
<1>1. /\ m \in Nat /\ DOMAIN vars = 1..m /\ n \in Nat /\ no \in Nat /\ DOMAIN open = 1..no
      /\ nb \in Nat /\ DOMAIN blocks = 1..nb
  BY Here, FormalsType
<1>2. /\ DOMAIN vars' = 1..(m + n + n)
      /\ \A v \in DOMAIN vars : SameVar(vars'[v], vars[v]) /\ SameUse(vars'[v], vars[v])
      /\ \A v \in DOMAIN vars : "hidden" \in vars'[v].lost \/ v \notin Hidden(s)
  BY BeginVars
<1>3. \A i \in 1..n : ~vars'[m + i].captured /\ ~vars'[m + n + i].captured
  <2>1. \A i \in 1..n : /\ vars'[m + i] = Var(Current, s[i], "leaked", -1)
                        /\ vars'[m + n + i]
                             = Var(Len(blocks) + 1, s[i], "formal", FormalOffset(g, i))
    BY BeginNew DEF NewVars
  <2>2. \A o, x, r, k : Var(o, x, r, k).captured = FALSE
    BY DEF Var
  <2> HIDE DEF m, n
  <2> QED
    BY <2>1, <2>2
<1>4. /\ blocks[Current].stage = "subs" /\ blocks'[Current].stage = "subs"
      /\ blocks'[Current].fills = blocks[Current].fills
      /\ \A b \in DOMAIN blocks : b # Current => blocks'[b] = blocks[b]
  BY BeginBlockParts DEF SameBody
<1>5. /\ DOMAIN open' = 1..(no + 1) /\ \A i \in 1..no : open'[i] = open[i]
      /\ open'[no + 1].block = nb + 1
  BY BeginOpen
<1>6. Len(chain) = no
  BY <1>4, Here
<1>7. /\ \A i \in 1..no : i # no => chain'[i].vars = chain[i].vars
      /\ \A x \in Name : x \notin Bound(s) => chain'[no].vars[x] = Innermost.vars[x]
  BY <1>6, BeginChain
<1>8. Innermost = chain[no]
  BY <1>6 DEF Innermost
<1> SUFFICES ASSUME NEW v \in DOMAIN vars' PROVE FilledIn(v)'
  BY DEF FilledOK
<1> HIDE DEF m, n, no, nb
<1>9. CASE v \notin DOMAIN vars
  <2>1. v \in 1..(m + n + n) /\ v \notin 1..m
    BY <1>1, <1>2, <1>9
  <2>2. ~vars'[v].captured
    <3>1. m \in Nat /\ n \in Nat
      BY <1>1
    <3>2. \/ v \in 1..m
          \/ \E i \in 1..n : v = m + i
          \/ \E i \in 1..n : v = m + n + i
      BY <2>1, <3>1, BeginVarCases
    <3> QED
      BY <1>3, <2>1, <3>2
  <2> QED
    BY <2>2 DEF FilledIn
<1>10. CASE v \in DOMAIN vars
  <2> DEFINE o == vars[v].owner
             x == vars[v].name
  <2>1. FilledIn(v) /\ o \in DOMAIN blocks /\ x \in Name
    BY <1>10, Owned DEF FilledOK
  <2>2. /\ SameVar(vars'[v], vars[v]) /\ (vars'[v].captured => vars[v].captured)
        /\ vars[v].lost \subseteq vars'[v].lost
    BY <1>2, <1>10 DEF SameUse
  <2>3. blocks'[o].stage = blocks[o].stage /\ blocks'[o].fills = blocks[o].fills
    BY <1>4, <2>1
  <2>4. CASE vars'[v].lost # {}
    BY <2>1, <2>2, <2>3, <2>4, FilledKept
  <2>5. CASE vars'[v].lost = {} /\ ~Awaited(v)
    <3>1. ASSUME vars'[v].captured
          PROVE  Excused(v) \/ (blocks[o].stage \in {"body", "done"} /\ Prepared(v))
      <4>1. vars[v].captured
        BY <2>2, <3>1
      <4> QED
        BY <2>1, <2>5, <4>1, Zenon DEF FilledIn
    <3>2. Excused(v) => Excused(v)'
      BY <2>2 DEF Excused, SameVar
    <3>3. Prepared(v) => Prepared(v)'
      BY <2>2, <2>3 DEF Prepared, SameVar
    <3>4. vars'[v].captured => blocks[o].stage # "decls"
      BY <2>1, <2>2 DEF FilledIn
    <3>5. vars'[v].owner = o
      BY <2>2 DEF SameVar
    <3> QED
      BY <2>3, <3>1, <3>2, <3>3, <3>4, <3>5 DEF FilledIn
  <2>6. CASE vars'[v].lost = {} /\ Awaited(v)
    <3>1. ASSUME NEW i \in DOMAIN open', open'[i].block = o
          PROVE  /\ i \in DOMAIN open /\ open'[i] = open[i] /\ chain'[i].vars[x] = chain[i].vars[x]
      <4>1. i \in 1..no
        <5>1. i # no + 1
          BY <1>1, <1>5, <2>1, <3>1
        <5> QED
          BY <1>1, <1>5, <5>1
      <4>2. i \in DOMAIN open /\ open'[i] = open[i]
        BY <1>1, <1>5, <4>1
      <4>3. CASE i # no
        BY <1>7, <4>1, <4>2, <4>3
      <4>4. CASE i = no
        <5>1. Innermost.vars[x] = v
          BY <1>8, <2>6, <3>1, <4>2, <4>4 DEF Awaited
        <5>2. x \notin Bound(s)
          BY <1>2, <1>10, <2>6, <5>1 DEF Hidden
        <5> QED
          BY <1>7, <1>8, <2>1, <4>2, <4>4, <5>2
      <4> QED
        BY <4>3, <4>4
    <3> QED
      BY <2>1, <2>2, <2>3, <3>1, FilledKept
  <2> QED
    BY <2>4, <2>5, <2>6
<1> QED
  BY <1>9, <1>10

LEMMA FilledPrologue ==
  ASSUME Structure, FilledOK, Prologue
  PROVE  FilledOK'
<1>1. /\ blocks[Current].stage = "subs" /\ Len(chain) = Len(open) /\ SameOthers
      /\ blocks'[Current].stage = "body" /\ blocks'[Current].fills = Fills
      /\ open' = open /\ chain' = chain /\ vars' = vars
  BY PrologueParts
<1> SUFFICES ASSUME NEW v \in DOMAIN vars PROVE FilledIn(v)'
  BY <1>1 DEF FilledOK
<1> DEFINE o == vars[v].owner
<1>2. FilledIn(v) /\ o \in DOMAIN blocks /\ vars[v].name \in Name
  BY Owned DEF FilledOK
<1>3. CASE o # Current
  <2>1. blocks'[o] = blocks[o]
    BY <1>1, <1>2, <1>3 DEF SameOthers
  <2> QED
    BY <1>1, <1>2, <2>1 DEF FilledIn, Excused, Awaited, Prepared
<1>4. CASE o = Current
  <2>1. Excused(v) => Excused(v)'
    BY <1>1 DEF Excused
  <2>2. ASSUME vars[v].captured, Awaited(v) PROVE Prepared(v)'
    <3>1. Innermost.vars[vars[v].name] = v
      BY <1>1, <1>4, <2>2, Apart DEF Awaited, Innermost
    <3>2. v # NONE
      <4>1. Len(vars) \in Nat /\ DOMAIN vars = 1..Len(vars)
        BY Here
      <4>2. v \in Nat
        BY <4>1
      <4> QED
        BY <4>2, SubprogramsAssumption
    <3>3. vars[v].name \in LastBucket \/ v \in Fills
      BY <1>2, <2>2, <3>1, <3>2 DEF Fills
    <3> QED
      BY <1>1, <1>4, <3>3 DEF Prepared
  <2> QED
    BY <1>1, <1>2, <1>4, <2>1, <2>2 DEF FilledIn
<1> QED
  BY <1>3, <1>4

(* A step of a body: at most one variable is captured. *)
Catches(x, v) == Resolves(x, v) /\ Captures(x, v) /\ vars' = Capture(v)

LEMMA CaughtIn ==
  ASSUME Structure, BodyStep, NEW x \in Name, NEW v \in DOMAIN vars, Catches(x, v)
  PROVE  FilledIn(v)'
<1> DEFINE o == vars[v].owner
<1>1. PICK i \in DOMAIN chain : chain[i].vars[x] = v
  BY DEF Catches, Resolves
<1>2. v # NONE
  <2>1. Len(vars) \in Nat /\ DOMAIN vars = 1..Len(vars)
    BY Here
  <2>2. v \in Nat
    BY <2>1
  <2> QED
    BY <2>2, SubprogramsAssumption
<1>3. i <= Len(open) /\ o = open[i].block /\ vars[v].name = x
  BY <1>1, <1>2, Scopes
<1>4. i \in DOMAIN open
  <2>1. Len(open) \in Nat /\ DOMAIN open = 1..Len(open) /\ DOMAIN chain = 1..Len(chain)
        /\ Len(chain) \in Nat
    BY Here
  <2> QED
    BY <1>3, <2>1
<1>5. /\ open' = open /\ blocks[Current].stage = "body" /\ o \in DOMAIN blocks
      /\ \A j \in DOMAIN open : chain'[j] = chain[j]
      /\ blocks'[o].stage = blocks[o].stage
      /\ vars'[v].owner = o /\ vars'[v].name = x
  <2>1. o \in DOMAIN blocks
    BY Owned
  <2>2. SameBlock(blocks'[o], blocks[o]) /\ SameVar(vars'[v], vars[v])
    BY <2>1, BodyKept
  <2>3. /\ open' = open /\ blocks[Current].stage = "body"
        /\ \A j \in DOMAIN open : chain'[j] = chain[j]
    BY BodyKept
  <2> QED
    BY <1>3, <2>1, <2>2, <2>3 DEF SameBlock, SameVar
<1>6. CASE o = Current
  <2>1. "loop" \in vars'[v].lost
    BY <1>6, Captured DEF Catches
  <2> QED
    BY <1>5, <1>6, <2>1 DEF FilledIn, Excused
<1>7. CASE o # Current
  <2>1. blocks[o].stage = "subs"
    BY <1>3, <1>4, <1>7, Apart DEF Current
  <2>2. ASSUME NEW j \in DOMAIN open, open[j].block = o PROVE j = i
    <3>1. /\ DOMAIN open = 1..Len(open) /\ Len(open) \in Nat
          /\ \A k \in DOMAIN open : open[k].block \in DOMAIN blocks
          /\ DOMAIN blocks = 1..Len(blocks)
      BY Here
    <3>2. \A k, l \in DOMAIN open : k < l => open[k].block < open[l].block
      BY DEF Structure, OpenOK
    <3>3. ~(i < j) /\ ~(j < i)
      BY <1>3, <1>4, <2>2, <3>1, <3>2
    <3> QED
      BY <1>4, <3>1, <3>3
  <2>3. Awaited(v)'
    BY <1>1, <1>5, <2>2 DEF Awaited
  <2> QED
    BY <1>5, <2>1, <2>3 DEF FilledIn
<1> QED
  BY <1>6, <1>7

LEMMA FilledBody ==
  ASSUME Structure, FilledOK, BodyStep,
         vars' = vars \/ \E x \in Name, v \in DOMAIN vars : Catches(x, v)
  PROVE  FilledOK'
<1>1. /\ open' = open /\ DOMAIN vars' = DOMAIN vars
      /\ \A i \in DOMAIN open : chain'[i] = chain[i]
      /\ \A b \in DOMAIN blocks : blocks'[b].stage = blocks[b].stage
                                  /\ blocks'[b].fills = blocks[b].fills
  BY BodyKept DEF SameBlock
<1>2. ASSUME NEW w \in DOMAIN vars, vars'[w] = vars[w] PROVE FilledIn(w)'
  <2>1. FilledIn(w) /\ vars[w].owner \in DOMAIN blocks /\ SameVar(vars'[w], vars[w])
    BY <1>2, Owned, SameSelf DEF FilledOK
  <2> QED
    BY <1>1, <1>2, <2>1, FilledKept
<1>3. CASE vars' = vars
  BY <1>1, <1>2, <1>3 DEF FilledOK
<1>4. CASE \E x \in Name, v \in DOMAIN vars : Catches(x, v)
  <2>1. PICK x \in Name, v \in DOMAIN vars : Catches(x, v)
    BY <1>4
  <2>2. FilledIn(v)'
    BY <2>1, CaughtIn
  <2>3. \A w \in DOMAIN vars : w # v => vars'[w] = vars[w]
    BY <2>1, Captured DEF Catches
  <2> QED
    BY <1>1, <1>2, <2>2, <2>3 DEF FilledOK
<1> QED
  BY <1>3, <1>4

LEMMA FilledEnd ==
  ASSUME Structure, FilledOK, EndSubprogram
  PROVE  FilledOK'
<1> DEFINE n == Len(open)
<1>1. /\ DOMAIN open' = 1..(n - 1) /\ \A i \in 1..(n - 1) : open'[i] = open[i]
      /\ \A i \in 1..(n - 1) : chain'[i] = chain[i]
      /\ vars' = vars
  BY EndParts
<1>2. /\ SameOthers /\ blocks[Current].stage = "body" /\ blocks'[Current].stage = "done"
      /\ blocks'[Current].fills = blocks[Current].fills
  BY EndSubParts
<1>3. n \in Nat /\ DOMAIN open = 1..n
  BY Apart
<1> SUFFICES ASSUME NEW v \in DOMAIN vars PROVE FilledIn(v)'
  BY <1>1 DEF FilledOK
<1> DEFINE o == vars[v].owner
<1>4. FilledIn(v) /\ o \in DOMAIN blocks
  BY Owned DEF FilledOK
<1> HIDE DEF n
<1>5. \A i \in DOMAIN open' : i \in DOMAIN open /\ open'[i] = open[i] /\ chain'[i] = chain[i]
  BY <1>1, <1>3
<1>6. CASE o # Current
  <2>1. blocks'[o] = blocks[o]
    BY <1>2, <1>4, <1>6 DEF SameOthers
  <2>2. SameVar(vars'[v], vars[v])
    BY <1>1, SameSelf
  <2> QED
    BY <1>1, <1>4, <1>5, <2>1, <2>2, FilledKept
<1>7. CASE o = Current
  BY <1>1, <1>2, <1>4, <1>7 DEF FilledIn, Excused, Prepared
<1> QED
  BY <1>6, <1>7

LEMMA SeenCatches ==
  ASSUME NEW x \in Name, NEW v \in DOMAIN vars, Resolves(x, v), Seen(x, v)
  PROVE  vars' = vars \/ Catches(x, v)
BY DEF Seen, Catches

LEMMA FilledStep == Structure /\ FilledOK /\ [Next]_sub => FilledOK'
<1> SUFFICES ASSUME Structure, FilledOK, [Next]_sub PROVE FilledOK'
  OBVIOUS
<1>1. ASSUME NEW x \in Name, AddLocal(x) PROVE FilledOK'
  <2>1. /\ Declared(x, "local", blocks[Current].locals) /\ blocks[Current].locals \in Int
        /\ blocks[Current].stage = "decls" /\ SameOthers /\ open' = open
    BY <1>1, AddLocalParts
  <2>2. "local" \in Role
    BY DEF Role
  <2> QED
    BY <2>1, <2>2, FilledDeclared
<1>2. CASE EndDecls
  <2>0. blocks[Current].stage = "decls" /\ SameOthers /\ open' = open
    BY <1>2, EndDeclsParts
  <2>1. CASE Current = 1
    <3>1. vars' = vars /\ chain' = chain
      BY <1>2, <2>1, EndDeclsParts
    <3>2. ASSUME NEW v \in DOMAIN vars PROVE FilledIn(v)'
      <4>1. FilledIn(v) /\ vars[v].owner \in DOMAIN blocks
        BY Owned DEF FilledOK
      <4>2. CASE vars[v].owner = Current
        BY <2>0, <3>1, <4>1, <4>2 DEF FilledIn
      <4>3. CASE vars[v].owner # Current
        BY <2>0, <3>1, <4>1, <4>3 DEF SameOthers, FilledIn, Excused, Awaited, Prepared
      <4> QED
        BY <4>2, <4>3
    <3> QED
      BY <3>1, <3>2 DEF FilledOK
  <2>2. CASE Current # 1
    <3>1. /\ acx.name \in Name /\ Declared(acx.name, "retslot", blocks[Current].locals)
          /\ blocks[Current].locals \in Int
      BY <1>2, <2>2, EndDeclsParts
    <3>2. "retslot" \in Role
      BY DEF Role
    <3> QED
      BY <2>0, <3>1, <3>2, FilledDeclared
  <2> QED
    BY <2>1, <2>2
<1>3. ASSUME NEW f \in Name, NEW kind \in {"procedure", "function"}, NEW formals \in Formals,
             NEW groups \in 0..Len(formals), BeginSubprogram(f, kind, formals, groups)
      PROVE  FilledOK'
  <2>1. groups \in Nat
    OBVIOUS
  <2> QED
    BY <1>3, <2>1, FilledBegin
<1>4. CASE Prologue
  BY <1>4, FilledPrologue
<1>5. ASSUME NEW x \in Name, Use(x) PROVE FilledOK'
  <2>1. PICK v \in DOMAIN vars : Resolves(x, v) /\ Seen(x, v)
    BY <1>5 DEF Use
  <2> QED
    BY <1>5, <2>1, SeenCatches, UseBody, FilledBody
<1>6. ASSUME NEW x \in Name, BeginFor(x) PROVE FilledOK'
  <2>1. PICK v \in DOMAIN vars : Resolves(x, v) /\ Seen(x, v)
    BY <1>6 DEF BeginFor
  <2> QED
    BY <1>6, <2>1, SeenCatches, BeginForBody, FilledBody
<1>7. ASSUME NEW x \in Name, NEW pointer \in BOOLEAN, Assign(x, pointer) PROVE FilledOK'
  <2>1. PICK v \in DOMAIN vars : Resolves(x, v) /\ Seen(x, v)
    BY <1>7 DEF Assign
  <2> QED
    BY <1>7, <2>1, SeenCatches, AssignBody, FilledBody
<1>8. CASE (\E x \in Name : Call(x)) \/ EndFor \/ Branch \/ EndProgram
  <2>1. vars' = vars
    BY <1>8 DEF Call, EndFor, Branch, EndProgram
  <2> QED
    BY <1>8, <2>1, CallBody, OtherBody, FilledBody
<1>9. CASE EndSubprogram
  BY <1>9, FilledEnd
<1>10. CASE Reject
  <2>1. DOMAIN vars' = {}
    BY <1>10 DEF Reject
  <2> QED
    BY <2>1 DEF FilledOK
<1>11. CASE UNCHANGED sub
  BY <1>11 DEF sub, FilledOK, FilledIn, Excused, Awaited, Prepared
<1> QED
  BY <1>1, <1>2, <1>3, <1>4, <1>5, <1>6, <1>7, <1>8, <1>9, <1>10, <1>11 DEF Next

(* An accepted program is at the end of the body of block 1. *)
EndedOK == phase = "done" => Current = 1 /\ blocks[1].stage = "body"

LEMMA EndedStep == EndedOK /\ [Next]_sub => EndedOK'
<1> SUFFICES ASSUME EndedOK, [Next]_sub, phase' = "done" PROVE Current' = 1 /\ blocks'[1].stage = "body"
  BY DEF EndedOK
<1>1. CASE EndProgram
  BY <1>1 DEF EndProgram, At, Current
<1>2. CASE UNCHANGED sub
  BY <1>2 DEF sub, EndedOK, Current
<1>3. ASSUME ~EndProgram, sub' # sub PROVE phase' # "done"
  <2>1. ASSUME NEW x \in Name, AddLocal(x) PROVE phase' = "run"
    BY <2>1 DEF AddLocal, At
  <2>2. CASE EndDecls
    BY <2>2 DEF EndDecls, At
  <2>3. ASSUME NEW f \in Name, NEW kind \in {"procedure", "function"}, NEW formals \in Formals,
               NEW groups \in 0..Len(formals), BeginSubprogram(f, kind, formals, groups)
        PROVE  phase' = "run"
    BY <2>3, BeginParts DEF At
  <2>4. CASE Prologue
    BY <2>4 DEF Prologue, At
  <2>5. ASSUME NEW x \in Name, Use(x) \/ Call(x) \/ BeginFor(x) PROVE phase' = "run"
    BY <2>5 DEF Use, Call, BeginFor, Statement, At
  <2>6. ASSUME NEW x \in Name, NEW pointer \in BOOLEAN, Assign(x, pointer) PROVE phase' = "run"
    BY <2>6 DEF Assign, Statement, At
  <2>7. CASE EndFor \/ Branch
    BY <2>7 DEF EndFor, Branch, Statement, At
  <2>8. CASE EndSubprogram
    BY <2>8 DEF EndSubprogram, At
  <2>9. CASE Reject
    BY <2>9 DEF Reject
  <2> QED
    BY <1>3, <2>1, <2>2, <2>3, <2>4, <2>5, <2>6, <2>7, <2>8, <2>9 DEF Next
<1> QED
  BY <1>1, <1>2, <1>3

LEMMA FilledAtEnd == Structure /\ FilledOK /\ EndedOK => DisplayFilled
<1> SUFFICES ASSUME Structure, FilledOK, EndedOK, phase = "done",
                    NEW v \in DOMAIN vars, vars[v].captured
             PROVE  Prepared(v) \/ Excused(v)
  BY DEF DisplayFilled, Prepared, Excused
<1> DEFINE b == vars[v].owner
<1>1. b \in DOMAIN blocks /\ FilledIn(v)
  BY Owned DEF FilledOK
<1>2. Current = 1 /\ blocks[1].stage = "body"
  BY DEF EndedOK
<1>3. ASSUME NEW i \in DOMAIN open PROVE open[i].block = 1
  <2>1. /\ DOMAIN open = 1..Len(open) /\ Len(open) \in Nat /\ Len(open) \in DOMAIN open
        /\ open[i].block \in DOMAIN blocks
    BY Apart
  <2>2. DOMAIN blocks = 1..Len(blocks) /\ Len(blocks) \in Nat
    BY Here
  <2>3. open[Len(open)].block = 1
    BY <1>2 DEF Current
  <2>4. i < Len(open) => open[i].block < open[Len(open)].block
    BY <2>1 DEF Structure, OpenOK
  <2>5. i = Len(open)
    BY <2>1, <2>2, <2>3, <2>4
  <2> QED
    BY <2>3, <2>5
<1>4. blocks[b].stage # "subs"
  <2>1. b \in {open[i].block : i \in DOMAIN open} \/ blocks[b].stage = "done"
    BY <1>1 DEF Structure, OpenOK
  <2> QED
    BY <1>2, <1>3, <2>1
<1> QED
  BY <1>1, <1>4 DEF FilledIn

(* In the text of an accepted program of any size, with any number of      *)
(* nested subprograms and any placement of identifiers in buckets, the     *)
(* prologue of a block enters every captured variable of the block into    *)
(* the display, but for the exceptions DisplayFilled names (type_of_path,  *)
(* analyze_subprog, analyze).                                              *)
THEOREM CapturedFilled == Spec => []DisplayFilled
<1>1. Init => FilledOK /\ EndedOK
  BY DEF Init, FilledOK, EndedOK
<1> QED
  BY <1>1, FilledStep, EndedStep, FilledAtEnd, StructureInvariant, PTL DEF Spec
-----------------------------------------------------------------------------
(* Nesting *)

(* A block inside which another is under way, and one from inside which a  *)
(* variable is captured, has a subprogram; the program itself does not     *)
(* count.                                                                  *)
NestOK ==
  /\ ~blocks[1].nested
  /\ \A i \in DOMAIN open : 1 < i /\ i < Len(open) => blocks[open[i].block].nested
  /\ \A v \in DOMAIN vars :
       vars[v].captured /\ vars[v].owner # 1 /\ blocks[vars[v].owner].stage = "subs" =>
         blocks[vars[v].owner].nested
  /\ \A b \in DOMAIN blocks : b # 1 /\ blocks[b].fills # {} => blocks[b].nested

NestedSame == \A b \in DOMAIN blocks : blocks'[b].nested = blocks[b].nested

LEMMA OthersNested ==
  ASSUME SameOthers, SameNames(blocks'[Current], blocks[Current])
  PROVE  NestedSame /\ \A b \in DOMAIN blocks : blocks'[b].funcs = blocks[b].funcs
BY DEF SameOthers, SameNames, NestedSame

LEMMA FirstBlock == ASSUME Structure PROVE 1 \in DOMAIN blocks /\ 1 \in DOMAIN open /\ open[1].block = 1
<1>1. Len(open) \in Nat /\ Len(open) >= 1 /\ DOMAIN open = 1..Len(open)
      /\ \A i \in DOMAIN open : open[i].block \in DOMAIN blocks
  BY Here
<1>2. 1 \in DOMAIN open
  BY <1>1
<1>3. open[1].block = 1
  BY DEF Structure, OpenOK
<1> QED
  BY <1>1, <1>2, <1>3

(* A step that leaves the calls under way as they are *)
LEMMA NestSame ==
  ASSUME Structure, NestOK, open' = open, NestedSame, DOMAIN blocks' = DOMAIN blocks,
         \A v \in DOMAIN vars' :
           vars'[v].captured /\ vars'[v].owner # 1 /\ blocks'[vars'[v].owner].stage = "subs" =>
             vars'[v].owner \in DOMAIN blocks /\ blocks[vars'[v].owner].nested,
         \A b \in DOMAIN blocks : b # 1 /\ blocks'[b].fills # {} => blocks[b].nested
  PROVE  NestOK'
<1>1. 1 \in DOMAIN blocks /\ \A i \in DOMAIN open : open[i].block \in DOMAIN blocks
  BY FirstBlock, Apart
<1>2. ~blocks'[1].nested
  BY <1>1 DEF NestOK, NestedSame
<1>3. \A i \in DOMAIN open' : 1 < i /\ i < Len(open') => blocks'[open'[i].block].nested
  BY <1>1 DEF NestOK, NestedSame
<1>4. \A v \in DOMAIN vars' :
        vars'[v].captured /\ vars'[v].owner # 1 /\ blocks'[vars'[v].owner].stage = "subs" =>
          blocks'[vars'[v].owner].nested
  BY DEF NestedSame
<1>5. \A b \in DOMAIN blocks' : b # 1 /\ blocks'[b].fills # {} => blocks'[b].nested
  BY DEF NestedSame
<1> QED
  BY <1>2, <1>3, <1>4, <1>5 DEF NestOK

LEMMA NestDeclared ==
  ASSUME Structure, FilledOK, NestOK, SameOthers, open' = open, blocks[Current].stage = "decls",
         SameBody(blocks'[Current], blocks[Current]),
         SameNames(blocks'[Current], blocks[Current]),
         \A v \in DOMAIN vars' : ~vars'[v].captured \/ (v \in DOMAIN vars /\ vars'[v] = vars[v])
  PROVE  NestOK'
<1>1. NestedSame /\ DOMAIN blocks' = DOMAIN blocks
  BY OthersNested DEF SameOthers
<1>2. ASSUME NEW v \in DOMAIN vars', vars'[v].captured, vars'[v].owner # 1,
             blocks'[vars'[v].owner].stage = "subs"
      PROVE  vars'[v].owner \in DOMAIN blocks /\ blocks[vars'[v].owner].nested
  <2>1. v \in DOMAIN vars /\ vars'[v] = vars[v]
    BY <1>2
  <2>2. vars[v].owner \in DOMAIN blocks /\ FilledIn(v)
    BY <2>1, Owned DEF FilledOK
  <2>3. vars[v].owner # Current
    BY <1>2, <2>1, <2>2 DEF FilledIn
  <2>4. blocks'[vars[v].owner] = blocks[vars[v].owner]
    BY <2>2, <2>3 DEF SameOthers
  <2> QED
    BY <1>2, <2>1, <2>2, <2>4 DEF NestOK
<1>3. \A b \in DOMAIN blocks : blocks'[b].fills = blocks[b].fills
  BY DEF SameOthers, SameBody
<1>4. \A b \in DOMAIN blocks : b # 1 /\ blocks'[b].fills # {} => blocks[b].nested
  BY <1>3 DEF NestOK
<1> QED
  BY <1>1, <1>2, <1>4, NestSame

LEMMA CaughtNested ==
  ASSUME Structure, NestOK, NEW x \in Name, NEW v \in DOMAIN vars, Resolves(x, v),
         vars[v].owner # 1, vars[v].owner # Current
  PROVE  blocks[vars[v].owner].nested
<1>1. PICK i \in DOMAIN chain : chain[i].vars[x] = v
  BY DEF Resolves
<1>2. v # NONE
  <2>1. Len(vars) \in Nat /\ DOMAIN vars = 1..Len(vars)
    BY Here
  <2>2. v \in Nat
    BY <2>1
  <2> QED
    BY <2>2, SubprogramsAssumption
<1>3. i <= Len(open) /\ vars[v].owner = open[i].block
  BY <1>1, <1>2, Scopes
<1>4. /\ Len(open) \in Nat /\ DOMAIN open = 1..Len(open)
      /\ DOMAIN chain = 1..Len(chain) /\ Len(chain) \in Nat
  BY Here
<1>5. open[1].block = 1 /\ open[Len(open)].block = Current
  BY FirstBlock, Apart
<1>6. i \in DOMAIN open /\ 1 < i /\ i < Len(open)
  BY <1>3, <1>4, <1>5
<1> QED
  BY <1>3, <1>6 DEF NestOK

LEMMA NestBody ==
  ASSUME Structure, NestOK, BodyStep,
         vars' = vars \/ \E x \in Name, v \in DOMAIN vars : Catches(x, v)
  PROVE  NestOK'
<1>1. /\ open' = open /\ DOMAIN vars' = DOMAIN vars /\ DOMAIN blocks' = DOMAIN blocks
      /\ blocks[Current].stage = "body"
      /\ \A b \in DOMAIN blocks : SameBlock(blocks'[b], blocks[b])
      /\ \A v \in DOMAIN vars : vars'[v].owner = vars[v].owner
  BY BodyKept DEF SameVar
<1>2. NestedSame
  BY <1>1 DEF NestedSame, SameBlock
<1>3. ASSUME NEW v \in DOMAIN vars', vars'[v].captured, vars'[v].owner # 1,
             blocks'[vars'[v].owner].stage = "subs"
      PROVE  vars'[v].owner \in DOMAIN blocks /\ blocks[vars'[v].owner].nested
  <2> DEFINE o == vars[v].owner
  <2>1. v \in DOMAIN vars /\ vars'[v].owner = o /\ o \in DOMAIN blocks
    BY <1>1, Owned
  <2>2. blocks[o].stage = "subs" /\ o # 1 /\ o # Current
    BY <1>1, <1>3, <2>1 DEF SameBlock
  <2>3. CASE vars[v].captured
    BY <2>1, <2>2, <2>3 DEF NestOK
  <2>4. CASE ~vars[v].captured
    <3>1. PICK x \in Name, w \in DOMAIN vars : Catches(x, w)
      BY <1>3, <2>4
    <3>2. w = v
      BY <1>3, <2>1, <2>4, <3>1, Captured DEF Catches
    <3> QED
      BY <2>1, <2>2, <3>1, <3>2, CaughtNested DEF Catches
  <2> QED
    BY <2>3, <2>4
<1>4. \A b \in DOMAIN blocks : b # 1 /\ blocks'[b].fills # {} => blocks[b].nested
  BY <1>1 DEF NestOK, SameBlock
<1> QED
  BY <1>1, <1>2, <1>3, <1>4, NestSame

LEMMA NestPrologue ==
  ASSUME Structure, NestOK, Prologue
  PROVE  NestOK'
<1>1. /\ blocks[Current].stage = "subs" /\ SameOthers /\ SameNames(blocks'[Current], blocks[Current])
      /\ blocks'[Current].stage = "body" /\ blocks'[Current].fills = Fills
      /\ open' = open /\ vars' = vars
  BY PrologueParts
<1>2. NestedSame /\ DOMAIN blocks' = DOMAIN blocks
  BY <1>1, OthersNested DEF SameOthers
<1>3. ASSUME NEW v \in DOMAIN vars', vars'[v].captured, vars'[v].owner # 1,
             blocks'[vars'[v].owner].stage = "subs"
      PROVE  vars'[v].owner \in DOMAIN blocks /\ blocks[vars'[v].owner].nested
  <2>1. vars[v].owner \in DOMAIN blocks /\ vars[v].owner # Current /\ vars' = vars
    BY <1>1, <1>3, Owned
  <2>2. blocks'[vars[v].owner] = blocks[vars[v].owner]
    BY <1>1, <2>1 DEF SameOthers
  <2> QED
    BY <1>3, <2>1, <2>2 DEF NestOK
<1>4. ASSUME NEW b \in DOMAIN blocks, b # 1, blocks'[b].fills # {} PROVE blocks[b].nested
  <2>1. CASE b = Current
    <3>1. PICK v \in Fills : TRUE
      BY <1>1, <1>4, <2>1
    <3>2. v \in DOMAIN vars /\ vars[v].captured /\ vars[v].owner = Current
      BY FillsOwned
    <3> QED
      BY <1>1, <1>4, <2>1, <3>2 DEF NestOK
  <2>2. CASE b # Current
    BY <1>1, <1>4, <2>2 DEF NestOK, SameOthers
  <2> QED
    BY <2>1, <2>2
<1> QED
  BY <1>1, <1>2, <1>3, <1>4, NestSame

LEMMA NestEnd ==
  ASSUME Structure, NestOK, EndSubprogram
  PROVE  NestOK'
<1> DEFINE n == Len(open)
<1>1. /\ DOMAIN open' = 1..(n - 1) /\ \A i \in 1..(n - 1) : open'[i] = open[i]
      /\ Len(open') = n - 1 /\ n \in Nat /\ n > 1
  BY EndParts
<1>2. /\ SameOthers /\ SameNames(blocks'[Current], blocks[Current])
      /\ blocks'[Current].stage = "done" /\ blocks'[Current].fills = blocks[Current].fills
      /\ vars' = vars
  BY EndSubParts
<1>3. NestedSame /\ DOMAIN blocks' = DOMAIN blocks /\ 1 \in DOMAIN blocks
  BY <1>2, OthersNested, FirstBlock DEF SameOthers
<1>4. DOMAIN open = 1..n /\ \A i \in DOMAIN open : open[i].block \in DOMAIN blocks
  BY Apart
<1>5. ~blocks'[1].nested
  BY <1>3 DEF NestOK, NestedSame
<1>6. ASSUME NEW i \in DOMAIN open', 1 < i, i < Len(open') PROVE blocks'[open'[i].block].nested
  <2> HIDE DEF n
  <2>1. i \in 1..n /\ i < n /\ open'[i] = open[i]
    BY <1>1, <1>6
  <2>2. blocks[open[i].block].nested
    BY <1>4, <1>6, <2>1 DEF NestOK, n
  <2> QED
    BY <1>3, <1>4, <2>1, <2>2 DEF NestedSame
<1>7. ASSUME NEW v \in DOMAIN vars', vars'[v].captured, vars'[v].owner # 1,
             blocks'[vars'[v].owner].stage = "subs"
      PROVE  blocks'[vars'[v].owner].nested
  <2>1. vars[v].owner \in DOMAIN blocks /\ vars[v].owner # Current /\ vars' = vars
    BY <1>2, <1>7, Owned
  <2>2. blocks'[vars[v].owner] = blocks[vars[v].owner]
    BY <1>2, <2>1 DEF SameOthers
  <2> QED
    BY <1>7, <2>1, <2>2 DEF NestOK
<1>8. \A b \in DOMAIN blocks' : b # 1 /\ blocks'[b].fills # {} => blocks'[b].nested
  <2>1. \A b \in DOMAIN blocks : blocks'[b].fills = blocks[b].fills
    BY <1>2 DEF SameOthers
  <2> QED
    BY <1>3, <2>1 DEF NestOK, NestedSame
<1> QED
  BY <1>5, <1>6, <1>7, <1>8 DEF NestOK

LEMMA NestBegin ==
  ASSUME Structure, NestOK, NEW f \in Name, NEW kind \in {"procedure", "function"},
         NEW s \in Formals, NEW g \in Nat, BeginSubprogram(f, kind, s, g)
  PROVE  NestOK'
<1> DEFINE m == Len(vars)
           n == Len(s)
           no == Len(open)
           nb == Len(blocks)
<1>1. /\ m \in Nat /\ DOMAIN vars = 1..m /\ n \in Nat /\ no \in Nat /\ DOMAIN open = 1..no
      /\ nb \in Nat /\ DOMAIN blocks = 1..nb /\ Current \in DOMAIN blocks
  BY Here, FormalsType
<1>2. /\ DOMAIN vars' = 1..(m + n + n)
      /\ \A v \in DOMAIN vars : vars'[v].owner = vars[v].owner /\ vars'[v].captured = vars[v].captured
  BY BeginVars DEF SameVar, SameUse
<1>3. \A i \in 1..n : ~vars'[m + i].captured /\ ~vars'[m + n + i].captured
  <2>1. \A i \in 1..n : /\ vars'[m + i] = Var(Current, s[i], "leaked", -1)
                        /\ vars'[m + n + i]
                             = Var(Len(blocks) + 1, s[i], "formal", FormalOffset(g, i))
    BY BeginNew DEF NewVars
  <2>2. \A o, x, r, k : Var(o, x, r, k).captured = FALSE
    BY DEF Var
  <2> HIDE DEF m, n
  <2> QED
    BY <2>1, <2>2
<1>4. /\ blocks'[Current].nested = (Current # 1) /\ DOMAIN blocks' = 1..(nb + 1)
      /\ \A b \in DOMAIN blocks : b # Current => blocks'[b] = blocks[b]
      /\ blocks'[nb + 1] = Block(f, kind, Current, Len(s), g)
  BY BeginBlockParts
<1>5. blocks'[nb + 1].fills = {}
  BY <1>4 DEF Block
<1>6. /\ DOMAIN open' = 1..(no + 1) /\ Len(open') = no + 1 /\ \A i \in 1..no : open'[i] = open[i]
  BY BeginOpen
<1>7. /\ 1 \in DOMAIN blocks /\ 1 \in DOMAIN open /\ open[1].block = 1
      /\ \A i \in DOMAIN open : open[i].block \in DOMAIN blocks
      /\ \A i \in DOMAIN open : i # no => open[i].block # Current
      /\ open[no].block = Current
  BY FirstBlock, Apart
<1> HIDE DEF m, n, no, nb
<1>8. ~blocks'[1].nested
  BY <1>4, <1>7 DEF NestOK
<1>9. ASSUME NEW i \in DOMAIN open', 1 < i, i < Len(open') PROVE blocks'[open'[i].block].nested
  <2>1. i \in DOMAIN open /\ i <= no /\ open'[i] = open[i]
    BY <1>1, <1>6, <1>9
  <2>2. CASE i = no
    <3>1. Current # 1
      BY <1>1, <1>7, <1>9, <2>2
    <3> QED
      BY <1>4, <1>7, <2>1, <2>2, <3>1
  <2>3. CASE i # no
    <3>1. i < no
      BY <1>1, <2>1, <2>3
    <3>2. blocks[open[i].block].nested
      BY <1>9, <2>1, <3>1 DEF NestOK, no
    <3> QED
      BY <1>4, <1>7, <2>1, <2>3, <3>2
  <2> QED
    BY <2>2, <2>3
<1>10. ASSUME NEW v \in DOMAIN vars', vars'[v].captured, vars'[v].owner # 1,
              blocks'[vars'[v].owner].stage = "subs"
       PROVE  blocks'[vars'[v].owner].nested
  <2>1. v \in DOMAIN vars
    <3>1. m \in Nat /\ n \in Nat /\ v \in 1..(m + n + n)
      BY <1>1, <1>2
    <3>2. \/ v \in 1..m
          \/ \E i \in 1..n : v = m + i
          \/ \E i \in 1..n : v = m + n + i
      BY <3>1, BeginVarCases
    <3> QED
      BY <1>1, <1>3, <1>10, <3>2
  <2>2. vars[v].captured /\ vars'[v].owner = vars[v].owner /\ vars[v].owner \in DOMAIN blocks
    BY <1>2, <1>10, <2>1, Owned
  <2> QED
    BY <1>4, <1>10, <2>1, <2>2 DEF NestOK
<1>11. ASSUME NEW b \in DOMAIN blocks', b # 1, blocks'[b].fills # {} PROVE blocks'[b].nested
  <2>1. b # nb + 1
    BY <1>5, <1>11
  <2>2. b \in DOMAIN blocks
    BY <1>1, <1>4, <2>1
  <2> QED
    BY <1>4, <1>11, <2>2 DEF NestOK
<1> QED
  BY <1>8, <1>9, <1>10, <1>11 DEF NestOK

LEMMA NestStart == StartShape => NestOK
<1> SUFFICES ASSUME StartShape PROVE NestOK
  OBVIOUS
<1>1. DOMAIN blocks = {1} /\ ~blocks[1].nested /\ DOMAIN open = {1} /\ DOMAIN vars = {}
  BY DEF StartShape, Block
<1> QED
  BY <1>1 DEF NestOK

LEMMA NestAgain == StartShape' => NestOK'
BY NestStart, PTL

LEMMA NestStep == Structure /\ FilledOK /\ NestOK /\ [Next]_sub => NestOK'
<1> SUFFICES ASSUME Structure, FilledOK, NestOK, [Next]_sub PROVE NestOK'
  OBVIOUS
<1>0. ASSUME NEW x \in Name, NEW role \in Role, NEW k \in Int, Declared(x, role, k)
      PROVE  \A v \in DOMAIN vars' : ~vars'[v].captured \/ (v \in DOMAIN vars /\ vars'[v] = vars[v])
  <2>1. /\ Len(vars) \in Nat /\ DOMAIN vars = 1..Len(vars)
        /\ DOMAIN vars' = 1..(Len(vars) + 1) /\ \A v \in DOMAIN vars : vars'[v] = vars[v]
        /\ vars'[Len(vars) + 1] = Var(Current, x, role, k)
    BY <1>0, Here, DeclaredVars
  <2>2. ~vars'[Len(vars) + 1].captured
    BY <2>1 DEF Var
  <2> QED
    BY <2>1, <2>2
<1>1. ASSUME NEW x \in Name, AddLocal(x) PROVE NestOK'
  <2>1. /\ Declared(x, "local", blocks[Current].locals) /\ blocks[Current].locals \in Int
        /\ "local" \in Role
    BY <1>1, AddLocalParts DEF Role
  <2>2. \A v \in DOMAIN vars' : ~vars'[v].captured \/ (v \in DOMAIN vars /\ vars'[v] = vars[v])
    BY <1>0, <2>1
  <2> QED
    BY <1>1, <2>2, AddLocalParts, NestDeclared
<1>2. CASE EndDecls
  <2>1. CASE Current = 1
    BY <1>2, <2>1, EndDeclsParts, NestDeclared
  <2>2. CASE Current # 1
    <3>1. /\ Declared(acx.name, "retslot", blocks[Current].locals) /\ acx.name \in Name
          /\ blocks[Current].locals \in Int /\ "retslot" \in Role
      BY <1>2, <2>2, EndDeclsParts DEF Role
    <3>2. \A v \in DOMAIN vars' : ~vars'[v].captured \/ (v \in DOMAIN vars /\ vars'[v] = vars[v])
      BY <1>0, <3>1
    <3> QED
      BY <1>2, <3>2, EndDeclsParts, NestDeclared
  <2> QED
    BY <2>1, <2>2
<1>3. ASSUME NEW f \in Name, NEW kind \in {"procedure", "function"}, NEW formals \in Formals,
             NEW groups \in 0..Len(formals), BeginSubprogram(f, kind, formals, groups)
      PROVE  NestOK'
  <2>1. groups \in Nat
    OBVIOUS
  <2> QED
    BY <1>3, <2>1, NestBegin
<1>4. CASE Prologue
  BY <1>4, NestPrologue
<1>5. ASSUME NEW x \in Name, Use(x) PROVE NestOK'
  <2>1. PICK v \in DOMAIN vars : Resolves(x, v) /\ Seen(x, v)
    BY <1>5 DEF Use
  <2> QED
    BY <1>5, <2>1, SeenCatches, UseBody, NestBody
<1>6. ASSUME NEW x \in Name, BeginFor(x) PROVE NestOK'
  <2>1. PICK v \in DOMAIN vars : Resolves(x, v) /\ Seen(x, v)
    BY <1>6 DEF BeginFor
  <2> QED
    BY <1>6, <2>1, SeenCatches, BeginForBody, NestBody
<1>7. ASSUME NEW x \in Name, NEW pointer \in BOOLEAN, Assign(x, pointer) PROVE NestOK'
  <2>1. PICK v \in DOMAIN vars : Resolves(x, v) /\ Seen(x, v)
    BY <1>7 DEF Assign
  <2> QED
    BY <1>7, <2>1, SeenCatches, AssignBody, NestBody
<1>8. CASE (\E x \in Name : Call(x)) \/ EndFor \/ Branch \/ EndProgram
  <2>1. vars' = vars
    BY <1>8 DEF Call, EndFor, Branch, EndProgram
  <2> QED
    BY <1>8, <2>1, CallBody, OtherBody, NestBody
<1>9. CASE EndSubprogram
  BY <1>9, NestEnd
<1>10. CASE Reject
  BY <1>10, RejectStart, ShapeAgain, NestAgain
<1>11. CASE UNCHANGED sub
  BY <1>11 DEF sub, NestOK
<1> QED
  BY <1>1, <1>2, <1>3, <1>4, <1>5, <1>6, <1>7, <1>8, <1>9, <1>10, <1>11 DEF Next

-----------------------------------------------------------------------------
(* Labels *)

(* Where subprograms contain none and have no reserved name: no label was  *)
(* put twice, those put so far are the reserved ones, those of subprograms *)
(* declared in the program, and of the program itself once its body has    *)
(* begun; while a body is written its labels lie below the counter.        *)
Flat == \A b \in DOMAIN blocks : ~blocks[b].nested
Tidy == \A b \in DOMAIN blocks : blocks[b].name \notin Reserved
Placed(f) ==
  f \in Reserved \/ f \in blocks[1].funcs \/ (f = NONE /\ blocks[1].stage = "body")
Writing == Current # 1 \/ blocks[1].stage = "body"
LabelsOK ==
  /\ ~text.clash
  /\ \A l \in text.labels : Placed(l[1])
  /\ Writing => /\ text.here = acx.name /\ Placed(acx.name)
                /\ \A l \in text.labels : l[1] = acx.name => l[2] < acx.label

LEMMA TwoLabels ==
  ASSUME NEW t \in TextType, NEW n \in Nat, ~t.clash,
         \A l \in t.labels : l[1] = t.here => l[2] < n
  PROVE  LET u == Local(Local(t, n), n + 1)
         IN  /\ u.here = t.here /\ ~u.clash
             /\ u.labels = t.labels \cup {<<t.here, n>>, <<t.here, n + 1>>}
<1> DEFINE u == Local(t, n)
           w == Local(u, n + 1)
<1>1. <<t.here, n>> \notin t.labels /\ <<t.here, n + 1>> \notin t.labels
  OBVIOUS
<1>2. u.here = t.here /\ ~u.clash /\ u.labels = t.labels \cup {<<t.here, n>>}
  BY <1>1 DEF Local, TextType
<1>3. u \in TextType
  BY Texts
<1>4. <<t.here, n + 1>> \notin u.labels
  BY <1>1, <1>2
<1> HIDE DEF u
<1>5. w.here = t.here /\ ~w.clash /\ w.labels = u.labels \cup {<<t.here, n + 1>>}
  BY <1>2, <1>3, <1>4 DEF Local, TextType
<1> QED
  BY <1>2, <1>5 DEF u

LEMMA Typing ==
  ASSUME Structure
  PROVE  /\ text \in TextType /\ acx \in Contexts /\ acx.label \in Nat
         /\ blocks[1].funcs \subseteq Name /\ NONE \notin blocks[1].funcs
<1>1. text \in TextType /\ acx \in Contexts
  BY DEF Structure, Typed, TextType
<1>2. blocks[1] \in BlockRec(Len(vars))
  BY FirstBlock DEF Structure, Typed
<1> QED
  BY <1>1, <1>2, SubprogramsAssumption DEF Contexts, BlockRec

(* A step that puts no label and leaves block 1 where it is *)
LEMMA LabelsSame ==
  ASSUME LabelsOK, text' = text, Writing' => Writing, acx'.name = acx.name, acx'.label = acx.label,
         blocks'[1].funcs = blocks[1].funcs,
         blocks'[1].stage = "body" <=> blocks[1].stage = "body"
  PROVE  LabelsOK'
<1>1. \A f : Placed(f) => Placed(f)'
  BY DEF Placed
<1> QED
  BY <1>1 DEF LabelsOK

(* A statement puts no label, or two from the counter on. *)
PutsTwo ==
  text' = Local(Local(text, acx.label), acx.label + 1) /\ acx'.label = acx.label + 2

LEMMA LabelsBody ==
  ASSUME Structure, LabelsOK, BodyStep, (text' = text /\ acx'.label = acx.label) \/ PutsTwo
  PROVE  LabelsOK'
<1>1. /\ blocks'[1].funcs = blocks[1].funcs /\ blocks'[1].stage = blocks[1].stage
      /\ Current' = Current /\ blocks[Current].stage = "body" /\ acx'.name = acx.name
  BY FirstBlock, BodyKept DEF BodyStep, SameBlock
<1>2. Writing /\ (\A f : Placed(f) => Placed(f)')
  BY <1>1 DEF Writing, Placed
<1>3. CASE text' = text /\ acx'.label = acx.label
  BY <1>1, <1>2, <1>3, LabelsSame
<1>4. CASE PutsTwo
  <2>1. /\ text.here = acx.name /\ Placed(acx.name) /\ ~text.clash
        /\ \A l \in text.labels : Placed(l[1])
        /\ \A l \in text.labels : l[1] = acx.name => l[2] < acx.label
    BY <1>2 DEF LabelsOK
  <2>2. text \in TextType /\ acx.label \in Nat
    BY Typing
  <2>3. \A l \in text.labels : l[1] = text.here => l[2] < acx.label
    BY <2>1
  <2>4. /\ text'.here = text.here /\ ~text'.clash
        /\ text'.labels = text.labels \cup {<<text.here, acx.label>>, <<text.here, acx.label + 1>>}
    BY <1>4, <2>1, <2>2, <2>3, TwoLabels DEF PutsTwo
  <2>5. ASSUME NEW l \in text'.labels
        PROVE  Placed(l[1])' /\ (l[1] = acx.name => l[2] < acx'.label)
    <3>1. acx'.label = acx.label + 2
      BY <1>4 DEF PutsTwo
    <3>2. CASE l \in text.labels
      <4>1. l[2] \in Int
        BY <2>2, <3>2 DEF TextType
      <4>2. l[1] = acx.name => l[2] < acx.label
        BY <2>1, <3>2
      <4>3. l[1] = acx.name => l[2] < acx.label + 2
        BY <2>2, <4>1, <4>2
      <4> QED
        BY <1>2, <2>1, <3>1, <3>2, <4>3
    <3>3. CASE l = <<text.here, acx.label>>
      BY <1>2, <2>1, <2>2, <3>1, <3>3
    <3>4. CASE l = <<text.here, acx.label + 1>>
      BY <1>2, <2>1, <2>2, <3>1, <3>4
    <3> QED
      BY <2>4, <3>2, <3>3, <3>4
  <2> QED
    BY <1>1, <1>2, <2>1, <2>4, <2>5 DEF LabelsOK
<1> QED
  BY <1>3, <1>4

LEMMA LabelsBegin ==
  ASSUME Structure, NestOK, Flat => LabelsOK, Flat', Tidy', NEW f \in Name,
         NEW kind \in {"procedure", "function"}, NEW s \in Formals, NEW g \in Nat,
         BeginSubprogram(f, kind, s, g)
  PROVE  LabelsOK'
<1> DEFINE nb == Len(blocks)
<1>1. /\ blocks[Current].stage = "subs" /\ f \notin blocks[Current].funcs
      /\ nb \in Nat /\ DOMAIN blocks = 1..nb /\ DOMAIN blocks' = 1..(nb + 1)
      /\ \A b \in DOMAIN blocks : b # Current => blocks'[b] = blocks[b]
      /\ blocks'[Current].nested = (Current # 1)
      /\ blocks'[Current].funcs = blocks[Current].funcs \cup {f}
  BY BeginBlockParts
<1>2. Current \in DOMAIN blocks
  BY Here
<1>3. Current = 1 /\ nb # 0
  <2>1. Current \in DOMAIN blocks' /\ nb # 0
    BY <1>1, <1>2
  <2> QED
    BY <1>1, <2>1 DEF Flat
<1>4. Flat
  <2>1. ASSUME NEW b \in DOMAIN blocks PROVE ~blocks[b].nested
    <3>1. b \in DOMAIN blocks'
      BY <1>1
    <3>2. CASE b = 1
      BY <3>2 DEF NestOK
    <3>3. CASE b # 1
      BY <1>1, <1>3, <3>1, <3>3 DEF Flat
    <3> QED
      BY <3>2, <3>3
  <2> QED
    BY <2>1 DEF Flat
<1>5. /\ ~text.clash /\ blocks[1].stage = "subs" /\ f \notin blocks[1].funcs
      /\ \A l \in text.labels : l[1] \in Reserved \/ l[1] \in blocks[1].funcs
  BY <1>1, <1>3, <1>4 DEF LabelsOK, Placed
<1>6. text' = Global(text, f) /\ acx' = Started(acx, f, kind)
  BY BeginParts
<1>7. acx'.name = f /\ acx'.label = 0
  BY <1>6, Typing, ContextStarted
<1>13. f \notin Reserved
  <2>1. blocks'[nb + 1] = Block(f, kind, Current, Len(s), g)
    BY BeginBlockParts
  <2>3. nb + 1 \in DOMAIN blocks'
    BY <1>1
  <2>2. Block(f, kind, Current, Len(s), g).name = f
    BY DEF Block
  <2> HIDE DEF nb
  <2> QED
    BY <2>1, <2>2, <2>3 DEF Tidy
<1>8. <<f, -1>> \notin text.labels
  BY <1>5, <1>13
<1>9. text'.here = f /\ ~text'.clash /\ text'.labels = text.labels \cup {<<f, -1>>}
  BY <1>5, <1>6, <1>8 DEF Global
<1>10. blocks'[1].funcs = blocks[1].funcs \cup {f}
  BY <1>1, <1>3
<1>11. ASSUME NEW l \in text'.labels PROVE Placed(l[1])' /\ (l[1] = f => l[2] < 0)
  <2>1. CASE l \in text.labels
    BY <1>5, <1>10, <1>13, <2>1 DEF Placed
  <2>2. CASE l = <<f, -1>>
    BY <1>10, <2>2 DEF Placed
  <2> QED
    BY <1>9, <2>1, <2>2
<1>12. Placed(f)'
  BY <1>10 DEF Placed
<1> QED
  BY <1>7, <1>9, <1>11, <1>12 DEF LabelsOK

LEMMA LabelsPrologue ==
  ASSUME Structure, LabelsOK, Prologue
  PROVE  LabelsOK'
<1>1. /\ blocks[Current].stage = "subs" /\ SameOthers /\ SameNames(blocks'[Current], blocks[Current])
      /\ blocks'[Current].stage = "body" /\ open' = open
  BY PrologueParts
<1>2. 1 \in DOMAIN blocks /\ Current' = Current /\ acx \in Contexts
  BY <1>1, FirstBlock, Typing DEF Current
<1>3. CASE Current # 1
  <2>1. text' = text /\ acx' = acx /\ blocks'[1] = blocks[1]
    BY <1>1, <1>2, <1>3 DEF Prologue, SameOthers
  <2> QED
    BY <1>3, <2>1, LabelsSame DEF Writing
<1>4. CASE Current = 1
  <2>1. text' = Global(text, NONE) /\ acx' = [acx EXCEPT !.toplevel = TRUE]
    BY <1>4 DEF Prologue
  <2>2. acx.name = NONE /\ acx.label = 0
    BY <1>1, <1>2, <1>4 DEF Structure, ContextOK, OfBlock, AtRest
  <2>3. acx'.name = NONE /\ acx'.label = 0
    BY <1>2, <2>1, <2>2 DEF Contexts
  <2>4. ~text.clash /\ \A l \in text.labels : l[1] \in Reserved \/ l[1] \in blocks[1].funcs
    BY <1>1, <1>4 DEF LabelsOK, Placed
  <2>5. NONE \notin blocks[1].funcs /\ NONE \notin Reserved
    BY Typing, SubprogramsAssumption
  <2>6. <<NONE, -1>> \notin text.labels
    BY <2>4, <2>5
  <2>7. text'.here = NONE /\ ~text'.clash /\ text'.labels = text.labels \cup {<<NONE, -1>>}
    BY <2>1, <2>4, <2>6 DEF Global
  <2>8. blocks'[1].funcs = blocks[1].funcs /\ blocks'[1].stage = "body"
    BY <1>1, <1>4 DEF SameNames
  <2>9. ASSUME NEW l \in text'.labels PROVE Placed(l[1])' /\ (l[1] = NONE => l[2] < 0)
    <3>1. CASE l \in text.labels
      BY <2>4, <2>5, <2>8, <3>1 DEF Placed
    <3>2. CASE l = <<NONE, -1>>
      BY <2>8, <3>2 DEF Placed
    <3> QED
      BY <2>7, <3>1, <3>2
  <2>10. Placed(NONE)'
    BY <2>8 DEF Placed
  <2> QED
    BY <2>3, <2>7, <2>9, <2>10 DEF LabelsOK
<1> QED
  BY <1>3, <1>4

LEMMA LabelsEnd ==
  ASSUME Structure, NestOK, Flat, LabelsOK, EndSubprogram
  PROVE  LabelsOK'
<1> DEFINE n == Len(open)
<1>1. /\ DOMAIN open' = 1..(n - 1) /\ \A i \in 1..(n - 1) : open'[i] = open[i]
      /\ Len(open') = n - 1 /\ n \in Nat /\ n > 1 /\ text' = text
  BY EndParts
<1>2. DOMAIN open = 1..n /\ \A i \in DOMAIN open : open[i].block \in DOMAIN blocks
  BY Apart
<1> HIDE DEF n
<1>3. n = 2
  <2>1. SUFFICES ASSUME 2 < n PROVE FALSE
    BY <1>1
  <2>2. 2 \in DOMAIN open
    BY <1>1, <1>2, <2>1
  <2>3. blocks[open[2].block].nested
    BY <2>1, <2>2 DEF NestOK, n
  <2> QED
    BY <1>2, <2>2, <2>3 DEF Flat
<1>4. open[1].block = 1 /\ 1 \in DOMAIN open /\ 1 \in DOMAIN blocks
  BY FirstBlock
<1>5. Current' = 1
  BY <1>1, <1>3, <1>4 DEF Current
<1>6. blocks[1].stage = "subs" /\ Current # 1
  BY <1>3, <1>4, Apart DEF n
<1>7. blocks'[1] = blocks[1]
  BY <1>4, <1>6, EndSubParts DEF SameOthers
<1>8. ~Writing'
  BY <1>5, <1>6, <1>7 DEF Writing
<1>9. \A f : Placed(f) => Placed(f)'
  BY <1>7 DEF Placed
<1> QED
  BY <1>1, <1>8, <1>9 DEF LabelsOK

LEMMA LabelsStart == StartShape => LabelsOK
<1> SUFFICES ASSUME StartShape PROVE LabelsOK
  OBVIOUS
<1>1. /\ Current = 1 /\ blocks[1].stage = "decls" /\ ~text.clash
      /\ \A l \in text.labels : l[1] \in Reserved
  BY DEF StartShape, Block, NoText
<1> QED
  BY <1>1 DEF LabelsOK, Writing, Placed

LEMMA LabelsAgain == StartShape' => LabelsOK'
BY LabelsStart, PTL

(* What has nested subprograms keeps them. *)
LEMMA FlatBefore ==
  ASSUME Flat', NestedSame, DOMAIN blocks' = DOMAIN blocks
  PROVE  Flat
BY DEF Flat, NestedSame

LEMMA BodyFlat ==
  ASSUME Structure, BodyStep, Flat'
  PROVE  Flat
<1>1. NestedSame /\ DOMAIN blocks' = DOMAIN blocks
  BY BodyKept DEF NestedSame, SameBlock
<1> QED
  BY <1>1, FlatBefore

LEMMA LabelsMoves ==
  ASSUME Structure, NestOK, Flat => LabelsOK, [Next]_sub, Flat', Tidy'
  PROVE  LabelsOK'
<1>0. 1 \in DOMAIN blocks /\ acx \in Contexts
  BY FirstBlock, Typing
<1>1. ASSUME SameOthers, SameNames(blocks'[Current], blocks[Current]), open' = open, text' = text,
             acx' = acx, blocks[Current].stage = "decls", blocks'[Current].stage # "body"
      PROVE  LabelsOK'
  <2>1. Flat
    BY <1>1, OthersNested, FlatBefore DEF SameOthers
  <2>2. blocks'[1].funcs = blocks[1].funcs
    BY <1>0, <1>1, OthersNested
  <2>3. blocks'[1].stage = "body" <=> blocks[1].stage = "body"
    BY <1>0, <1>1 DEF SameOthers
  <2>4. Writing' => Writing
    BY <1>1, <2>3 DEF Writing, Current
  <2> QED
    BY <1>1, <2>1, <2>2, <2>3, <2>4, LabelsSame
<1>2. ASSUME NEW x \in Name, AddLocal(x) PROVE LabelsOK'
  <2>1. /\ SameOthers /\ SameNames(blocks'[Current], blocks[Current]) /\ open' = open
        /\ text' = text /\ acx' = acx /\ blocks[Current].stage = "decls"
        /\ blocks'[Current].stage = "decls"
    BY <1>2, AddLocalParts
  <2> QED
    BY <1>1, <2>1
<1>3. CASE EndDecls
  <2>1. /\ SameOthers /\ SameNames(blocks'[Current], blocks[Current]) /\ open' = open
        /\ text' = text /\ acx' = acx /\ blocks[Current].stage = "decls"
        /\ blocks'[Current].stage = "subs"
    BY <1>3, EndDeclsParts
  <2> QED
    BY <1>1, <2>1
<1>4. ASSUME NEW f \in Name, NEW kind \in {"procedure", "function"}, NEW formals \in Formals,
             NEW groups \in 0..Len(formals), BeginSubprogram(f, kind, formals, groups)
      PROVE  LabelsOK'
  <2>1. groups \in Nat
    OBVIOUS
  <2> QED
    BY <1>4, <2>1, LabelsBegin
<1>5. CASE Prologue
  <2>1. Flat
    BY <1>5, PrologueParts, OthersNested, FlatBefore DEF SameOthers
  <2> QED
    BY <1>5, <2>1, LabelsPrologue
<1>6. ASSUME NEW x \in Name, Use(x) PROVE LabelsOK'
  <2>1. BodyStep
    BY <1>6, UseBody
  <2>2. text' = text /\ acx'.label = acx.label
    BY <1>0, <1>6 DEF Use, Contexts
  <2> QED
    BY <2>1, <2>2, BodyFlat, LabelsBody
<1>7. ASSUME NEW x \in Name, BeginFor(x) PROVE LabelsOK'
  <2>1. BodyStep
    BY <1>7, BeginForBody
  <2>2. text' = Local(Local(text, acx.label), acx.label + 1)
    BY <1>7 DEF BeginFor
  <2>3. acx'.label = acx.label + 2
    BY <1>0, <1>7 DEF BeginFor, Contexts
  <2> QED
    BY <2>1, <2>2, <2>3, BodyFlat, LabelsBody DEF PutsTwo
<1>8. ASSUME NEW x \in Name, NEW pointer \in BOOLEAN, Assign(x, pointer) PROVE LabelsOK'
  <2>1. BodyStep
    BY <1>8, AssignBody
  <2>2. text' = text /\ acx'.label = acx.label
    BY <1>0, <1>8 DEF Assign, Contexts
  <2> QED
    BY <2>1, <2>2, BodyFlat, LabelsBody
<1>9. CASE (\E x \in Name : Call(x)) \/ EndFor \/ Branch \/ EndProgram
  <2>1. BodyStep
    BY <1>9, CallBody, OtherBody
  <2>2. (text' = text /\ acx' = acx) \/ PutsTwo
    BY <1>0, <1>9 DEF Call, EndFor, Branch, EndProgram, PutsTwo, Contexts
  <2> QED
    BY <2>1, <2>2, BodyFlat, LabelsBody
<1>10. CASE EndSubprogram
  <2>1. Flat
    BY <1>10, EndSubParts, OthersNested, FlatBefore DEF SameOthers
  <2> QED
    BY <1>10, <2>1, LabelsEnd
<1>11. CASE Reject
  BY <1>11, RejectStart, ShapeAgain, LabelsAgain
<1>12. CASE UNCHANGED sub
  BY <1>12 DEF sub, Flat, LabelsOK, Placed, Writing, Current
<1> QED
  BY <1>2, <1>3, <1>4, <1>5, <1>6, <1>7, <1>8, <1>9, <1>10, <1>11, <1>12 DEF Next

LEMMA LabelsStep ==
  Structure /\ NestOK /\ (Flat /\ Tidy => LabelsOK) /\ [Next]_sub => (Flat /\ Tidy => LabelsOK)'
<1> SUFFICES ASSUME Structure, NestOK, Flat /\ Tidy => LabelsOK, [Next]_sub, Flat', Tidy'
             PROVE  LabelsOK'
  OBVIOUS
<1>1. CASE phase' = "error"
  <2>1. CASE Start'
    BY <2>1, ShapeAgain, LabelsAgain
  <2>2. CASE UNCHANGED sub
    BY <2>2 DEF sub, Flat, Tidy, LabelsOK, Placed, Writing, Current
  <2> QED
    BY <1>1, <2>1, <2>2, ErrorStep
<1>2. CASE phase' # "error"
  <2>1. Tidy
    BY <1>2, Keeps DEF Tidy, KeepsBlocks, SameHead
  <2> QED
    BY <2>1, LabelsMoves
<1> QED
  BY <1>1, <1>2

(* In a program of any size whose subprograms contain none and do not have *)
(* the name of a label of the first lines, no label is put twice, whatever *)
(* its subprograms, loops and branches are and in whatever order they come,*)
(* and, whatever the names, no subprogram has a captured variable to save  *)
(* (acx->label and its saving and restoring in analyze_subprog).           *)
THEOREM LabelsDistinct == Spec => []Assembles
<1>1. Init => FilledOK /\ NestOK /\ (Flat /\ Tidy => LabelsOK)
  <2>1. Init => Start
    BY DEF Init, Start
  <2>2. Init => FilledOK
    BY DEF Init, FilledOK
  <2> QED
    BY <2>1, <2>2, StartShapes, NestStart, LabelsStart
<1>2. NestOK /\ (Flat /\ Tidy => LabelsOK) => Assembles
  BY DEF NestOK, Flat, Tidy, LabelsOK, Assembles
<1> QED
  BY <1>1, <1>2, FilledStep, NestStep, LabelsStep, StructureInvariant, PTL DEF Spec
=============================================================================
