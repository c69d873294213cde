------------------------- MODULE SymbolTableProofs --------------------------
(***************************************************************************)
(* Proofs about SymbolTable, for any identifiers and any bounds: what the  *)
(* tables of the scopes name, that types are acyclic, that the chain of    *)
(* open scopes is nested, that a declared variable is not lost to another  *)
(* declaration, and that the table implements ShadowStacks.                *)
(***************************************************************************)
EXTENDS SymbolTable, WellFoundedInduction, TLAPS

VarEntry == [name : Name, type : Int, by : Maker, scope : Nat]
BuiltinTag == {"integer", "real", "string", "boolean", "char", "void"}
TypeEntry == [tag : BuiltinTag \cup {"pointer", "array", "record", "function"},
              parts : Seq(Int), args : Seq(Int)]
Env == [Kind -> [Name -> Nat \cup {NONE}]]

(* The entry at position i of the arena of types, when the variables are   *)
(* vs: made of earlier types, with formals made for a signature.           *)
EntryOK(i, e, vs) ==
  /\ e.tag \in {"pointer", "array", "record", "function"} \cup
                 {Builtin[j] : j \in DOMAIN Builtin}
  /\ \A j \in DOMAIN e.parts : e.parts[j] \in (-1)..(i - 2)
  /\ \A j \in DOMAIN e.args : e.args[j] \in Index(vs) /\ vs[e.args[j] + 1].by = "signature"

(* The meanings a scope gives, when the arenas are vs and ts. *)
MeansOK(env, vs, ts) ==
  \A n \in Name :
    /\ env["vars"][n] # NONE =>
         env["vars"][n] \in Index(vs) /\ vs[env["vars"][n] + 1].name = n
    /\ env["funcs"][n] # NONE =>
         env["funcs"][n] \in Index(ts) /\ ts[env["funcs"][n] + 1].tag = "function"
    /\ env["types"][n] # NONE =>
         env["types"][n] \in Index(ts) /\ ts[env["types"][n] + 1].tag # "function"

VarsOK(vs, ts) ==
  /\ vs \in Seq(VarEntry)
  /\ \A i \in DOMAIN vs : vs[i].type \in Index(ts) \cup {NONE}

(* The builtin types stay where stab_new put them: INTEGER_TYPE_IDX and    *)
(* the others are compiled into the rest of the program.                   *)
TypesOK(ts, vs) ==
  /\ ts \in Seq(TypeEntry)
  /\ \A i \in DOMAIN ts : EntryOK(i, ts[i], vs)
  /\ \A i \in DOMAIN Builtin : i \in DOMAIN ts /\ ts[i].tag = Builtin[i]

ScopesOK(ss, vs, ts) ==
  /\ ss \in Seq(Env)
  /\ \A s \in DOMAIN ss : MeansOK(ss[s], vs, ts)

ChainOK(ch, ss) ==
  /\ ch \in Seq(DOMAIN ss) /\ ch # <<>>
  /\ ch[1] = 1
  /\ \A i, j \in DOMAIN ch : i < j => ch[i] < ch[j]

(* The inductive invariant. *)
IInv ==
  /\ VarsOK(vars, types)
  /\ TypesOK(types, vars)
  /\ ScopesOK(scopes, vars, types)
  /\ ChainOK(chain, scopes)
  /\ phase \in {"ready", "error", "crash", "undefined"}

-----------------------------------------------------------------------------
(* A set of naturals that is not empty has a least element ... *)
LEMMA LessWellFounded ==
  \E R : IsWellFoundedOn(R, Nat) /\ \A x, y \in Nat : x < y => <<x, y>> \in R
<1>1. IsWellFoundedOn(OpToRel(<, Nat), Nat)
  BY NatLessThanWellFounded
<1>2. \A x, y \in Nat : x < y => <<x, y>> \in OpToRel(<, Nat)
  BY DEF OpToRel
<1> QED
  BY <1>1, <1>2

LEMMA Least ==
  ASSUME NEW U, U \subseteq Nat, U # {}
  PROVE  \E u \in U : \A y \in U : u <= y
<1>1. PICK R : IsWellFoundedOn(R, Nat) /\ \A x, y \in Nat : x < y => <<x, y>> \in R
  BY LessWellFounded
<1>2. \E u \in U : \A y \in U : ~(<<y, u>> \in R)
  <2>1. IsWellFoundedOn(R, Nat)
    BY <1>1
  <2> QED
    BY <2>1, WFMin
<1>3. PICK u \in U : \A y \in U : ~(<<y, u>> \in R)
  BY <1>2
<1>4. ASSUME NEW y \in U PROVE u <= y
  <2>1. u \in Nat /\ y \in Nat
    OBVIOUS
  <2>2. ~(<<y, u>> \in R)
    BY <1>3
  <2>3. ~(y < u)
    BY <1>1, <2>1, <2>2
  <2> QED
    BY <2>1, <2>3
<1> QED
  BY <1>4

(* ... and a set of positions a greatest one. *)
LEMMA Greatest ==
  ASSUME NEW n \in Nat, NEW T \in SUBSET (1..n), T # {}
  PROVE  \E x \in T : \A y \in T : y <= x
<1> DEFINE U == {n - x : x \in T}
<1>1. U \subseteq Nat /\ U # {}
  <2>1. \A x \in T : n - x \in Nat
    OBVIOUS
  <2> QED
    BY <2>1
<1>2. PICK u \in U : \A y \in U : u <= y
  <2> HIDE DEF U
  <2> QED
    BY <1>1, Least
<1>3. PICK x \in T : u = n - x
  BY <1>2
<1>4. \A y \in T : n - y \in U
  OBVIOUS
<1>5. \A y \in T : u <= n - y
  <2> HIDE DEF U
  <2> QED
    BY <1>2, <1>4
<1>6. \A y \in T : y <= x
  BY <1>3, <1>5
<1> QED
  BY <1>6

-----------------------------------------------------------------------------
(* The tags of the builtin types. *)
LEMMA BuiltinTags ==
  /\ DOMAIN Builtin = 1..6 /\ Builtin \in [1..6 -> BuiltinTag]
  /\ \A i \in 1..6 : Builtin[i] # "function"
<1>1. Builtin \in [1..6 -> BuiltinTag]
  BY DEF Builtin, BuiltinTag
<1>2. DOMAIN Builtin = 1..6
  BY <1>1
<1>3. \A i \in 1..6 : i = 1 \/ i = 2 \/ i = 3 \/ i = 4 \/ i = 5 \/ i = 6
  OBVIOUS
<1>4. \A i \in 1..6 : Builtin[i] # "function"
  BY <1>3 DEF Builtin
<1> QED
  BY <1>1, <1>2, <1>4

(* The invariant contains what the runs check of single states. *)
LEMMA IInvProperties == IInv => TypeOK /\ TablesName /\ TypesAcyclic /\ ChainNested
<1> SUFFICES ASSUME IInv PROVE TypeOK /\ TablesName /\ TypesAcyclic /\ ChainNested
  OBVIOUS
<1>1. TypeOK
  <2>1. vars \in Seq([name : Name, type : Index(types) \cup {NONE}, by : Maker, scope : Nat])
    <3> DEFINE T == [name : Name, type : Index(types) \cup {NONE}, by : Maker, scope : Nat]
    <3>1. vars \in Seq(VarEntry) /\ vars \in [1..Len(vars) -> VarEntry] /\ Len(vars) \in Nat
      BY DEF IInv, VarsOK
    <3>2. \A i \in 1..Len(vars) : vars[i] \in T
      BY <3>1 DEF IInv, VarsOK, VarEntry
    <3> HIDE DEF T
    <3>3. vars \in Seq(T)
      BY <3>1, <3>2
    <3> QED
      BY <3>3 DEF T
  <2>2. ASSUME NEW i \in DOMAIN types
        PROVE  /\ types[i].tag \in {"pointer", "array", "record", "function"} \cup
                                     {Builtin[j] : j \in DOMAIN Builtin}
               /\ \A j \in DOMAIN types[i].parts : types[i].parts[j] \in Index(types) \cup {NONE}
               /\ \A j \in DOMAIN types[i].args : types[i].args[j] \in Index(vars)
    BY DEF IInv, TypesOK, EntryOK, Index, NONE
  <2> QED
    BY <2>1, <2>2 DEF TypeOK, IInv, ScopesOK, ChainOK, Env
<1>2. TablesName
  BY DEF TablesName, IInv, ScopesOK, MeansOK
<1>3. TypesAcyclic
  BY DEF TypesAcyclic, IInv, TypesOK, EntryOK
<1>4. ChainNested
  BY DEF ChainNested, IInv, ChainOK
<1> QED
  BY <1>1, <1>2, <1>3, <1>4

(* stab_new makes the invariant true. *)
LEMMA InitIInv == Init => IInv
<1> SUFFICES ASSUME Init PROVE IInv
  OBVIOUS
<1>1. VarsOK(vars, types)
  BY DEF Init, VarsOK
<1>2. TypesOK(types, vars)
  <2>1. DOMAIN Builtin = 1..6 /\ Builtin \in [1..6 -> BuiltinTag]
    BY BuiltinTags
  <2>2. types = [i \in 1..6 |-> [tag |-> Builtin[i], parts |-> <<>>, args |-> <<>>]]
    BY <2>1 DEF Init, Entry
  <2>3. types \in Seq(TypeEntry)
    <3>1. <<>> \in Seq(Int)
      OBVIOUS
    <3>2. \A i \in 1..6 : types[i] \in TypeEntry
      BY <2>1, <2>2, <3>1 DEF TypeEntry
    <3> QED
      BY <2>2, <3>2
  <2>4. \A i \in DOMAIN types : EntryOK(i, types[i], vars)
    BY <2>1, <2>2 DEF EntryOK
  <2> QED
    BY <2>1, <2>2, <2>3, <2>4 DEF TypesOK
<1>3. ScopesOK(scopes, vars, types)
  <2>1. EmptyScope \in Env /\ \A k \in Kind, n \in Name : EmptyScope[k][n] = NONE
    BY DEF EmptyScope, Env
  <2>2. MeansOK(EmptyScope, vars, types)
    BY <2>1 DEF MeansOK, Kind
  <2>3. scopes = <<EmptyScope>>
    BY DEF Init
  <2> HIDE DEF EmptyScope
  <2> QED
    BY <2>1, <2>2, <2>3 DEF ScopesOK
<1>4. ChainOK(chain, scopes)
  BY DEF Init, ChainOK
<1> QED
  BY <1>1, <1>2, <1>3, <1>4 DEF IInv, Init

-----------------------------------------------------------------------------
(* The facts about the chain that the steps below use. *)
LEMMA ChainFacts ==
  ASSUME IInv
  PROVE  /\ chain \in Seq(DOMAIN scopes) /\ Len(chain) \in Nat \ {0}
         /\ DOMAIN chain = 1..Len(chain) /\ scopes \in Seq(Env)
         /\ Innermost = chain[Len(chain)]
         /\ Innermost \in DOMAIN scopes /\ Innermost \in Nat
         /\ \A j \in 1..Len(chain) : chain[j] \in DOMAIN scopes
         /\ \A j \in 1..Len(chain) : j < Len(chain) => chain[j] # Innermost
<1>1. /\ chain \in Seq(DOMAIN scopes) /\ Len(chain) \in Nat \ {0}
      /\ DOMAIN chain = 1..Len(chain) /\ scopes \in Seq(Env)
      /\ Innermost = chain[Len(chain)]
  BY DEF IInv, ChainOK, ScopesOK, Innermost
<1>2. \A j \in 1..Len(chain) : chain[j] \in DOMAIN scopes /\ chain[j] \in Nat
  BY <1>1
<1>3. \A j \in 1..Len(chain) : j < Len(chain) => chain[j] < chain[Len(chain)]
  BY <1>1 DEF IInv, ChainOK
<1> QED
  BY <1>1, <1>2, <1>3

(* A name resolves to nothing or to what some scope says of it. *)
LEMMA ResolveFinds ==
  ASSUME IInv, NEW k \in Kind, NEW n \in Name, Resolve(k, n) # NONE
  PROVE  \E s \in DOMAIN scopes : scopes[s][k][n] = Resolve(k, n)
<1> DEFINE hits == {i \in DOMAIN chain : scopes[chain[i]][k][n] # NONE}
<1>1. hits # {}
  BY DEF Resolve, ResolveIn
<1>2. Len(chain) \in Nat /\ DOMAIN chain = 1..Len(chain) /\ chain \in Seq(DOMAIN scopes)
  BY DEF IInv, ChainOK
<1>3. \E i \in hits : \A j \in hits : j <= i
  <2>1. hits \in SUBSET (1..Len(chain))
    BY <1>2
  <2> HIDE DEF hits
  <2> QED
    BY <1>1, <1>2, <2>1, Greatest
<1> DEFINE i == CHOOSE i \in hits : \A j \in hits : j <= i
<1>4. i \in hits
  <2> HIDE DEF hits
  <2> QED
    BY <1>3
<1>5. Resolve(k, n) = scopes[chain[i]][k][n]
  BY <1>1 DEF Resolve, ResolveIn
<1> HIDE DEF i
<1>6. i \in DOMAIN chain /\ chain[i] \in DOMAIN scopes
  BY <1>2, <1>4
<1> QED
  BY <1>5, <1>6

(* So a type's name resolves to the index of a type, not of a function,    *)
(* and a basic type expression to such an index or to nothing.             *)
LEMMA ResolveBasicTyped ==
  ASSUME IInv, NEW ty \in Result, ResolveBasic(ty) # NONE
  PROVE  ResolveBasic(ty) \in Index(types) /\ types[ResolveBasic(ty) + 1].tag # "function"
<1>1. CASE ty.tag = "ref"
  <2>1. ty.name \in Name
    BY <1>1 DEF Result, Basic
  <2>2. ResolveBasic(ty) = Resolve("types", ty.name)
    BY <1>1 DEF ResolveBasic
  <2>3. PICK s \in DOMAIN scopes : scopes[s]["types"][ty.name] = Resolve("types", ty.name)
    BY <2>1, <2>2, ResolveFinds DEF Kind
  <2>4. MeansOK(scopes[s], vars, types)
    BY DEF IInv, ScopesOK
  <2> QED
    BY <2>1, <2>2, <2>3, <2>4 DEF MeansOK
<1>2. CASE ty.tag # "ref"
  <2>1. ty.tag \in BuiltinTag
    BY <1>2 DEF Result, Basic, BuiltinTag
  <2>2. \E i \in DOMAIN Builtin : Builtin[i] = ty.tag
    <3>1. ty.tag = Builtin[1] \/ ty.tag = Builtin[6]
      BY <1>2 DEF Result, Basic, Builtin
    <3> QED
      BY <3>1, BuiltinTags
  <2>3. PICK i \in 1..6 : /\ i = CHOOSE j \in DOMAIN Builtin : Builtin[j] = ty.tag
                          /\ Builtin[i] = ty.tag
    BY <2>2, BuiltinTags
  <2>4. ResolveBasic(ty) = i - 1
    BY <1>2, <2>3 DEF ResolveBasic
  <2>5. i \in DOMAIN types /\ types[i].tag = Builtin[i] /\ types \in Seq(TypeEntry)
    BY BuiltinTags DEF IInv, TypesOK
  <2>6. i - 1 \in Index(types) /\ types[(i - 1) + 1].tag # "function"
    BY <2>5, BuiltinTags DEF Index
  <2> QED
    BY <2>4, <2>6
<1> QED
  BY <1>1, <1>2

(* The table of a declared list of names: every name it binds is bound to  *)
(* the entry pushed for one of the name's occurrences.                     *)
LEMMA BoundToEntries ==
  ASSUME NEW m \in Nat, NEW names \in [1..m -> Name], Len(vars) \in Nat
  PROVE  /\ BoundTo(names) \in [Name -> Nat \cup {NONE}]
         /\ \A n \in Name : BoundTo(names)[n] # NONE =>
              \E i \in 1..m : names[i] = n /\ BoundTo(names)[n] = Len(vars) - 1 + i
<1>1. ASSUME NEW n \in Name
      PROVE  \/ BoundTo(names)[n] = NONE
             \/ \E i \in 1..m : names[i] = n /\ BoundTo(names)[n] = Len(vars) - 1 + i
  <2> DEFINE at == {i \in 1..m : names[i] = n}
  <2>1. CASE at = {}
    BY <2>1 DEF BoundTo
  <2>2. CASE at # {}
    <3>1. \E i \in at : \A j \in at : j <= i
      <4>1. at \in SUBSET (1..m)
        OBVIOUS
      <4> HIDE DEF at
      <4> QED
        BY <2>2, <4>1, Greatest
    <3>2. \E i \in DOMAIN names : names[i] = n /\ IsLast(names, i)
      BY <3>1 DEF IsLast
    <3> DEFINE i == CHOOSE i \in DOMAIN names : names[i] = n /\ IsLast(names, i)
    <3>3. i \in 1..m /\ names[i] = n
      BY <3>2
    <3>4. BoundTo(names)[n] = Len(vars) - 1 + i
      BY <2>2 DEF BoundTo
    <3> QED
      BY <3>3, <3>4
  <2> QED
    BY <2>1, <2>2
<1>2. BoundTo(names) = [n \in Name |-> BoundTo(names)[n]]
  BY DEF BoundTo
<1>3. \A i \in 1..m : Len(vars) - 1 + i \in Nat
  OBVIOUS
<1>4. \A n \in Name : BoundTo(names)[n] \in Nat \cup {NONE}
  BY <1>1, <1>3
<1> QED
  BY <1>1, <1>2, <1>4

-----------------------------------------------------------------------------
(* An arena that only grows. *)
Grows(a, b) == Len(a) <= Len(b) /\ \A i \in DOMAIN a : b[i] = a[i]

(* Pushing one entry, or a sequence of them, makes an arena grow. *)
LEMMA AppendGrows ==
  ASSUME NEW S, NEW a \in Seq(S), NEW e \in S
  PROVE  /\ Append(a, e) \in Seq(S) /\ Grows(a, Append(a, e))
         /\ Len(Append(a, e)) = Len(a) + 1 /\ Append(a, e)[Len(a) + 1] = e
         /\ \A i \in DOMAIN Append(a, e) : i \in DOMAIN a \/ i = Len(a) + 1
  BY DEF Grows

LEMMA ConcatGrows ==
  ASSUME NEW S, NEW a \in Seq(S), NEW m \in Nat, NEW b \in [1..m -> S]
  PROVE  /\ a \o b \in Seq(S) /\ Grows(a, a \o b)
         /\ Len(a \o b) = Len(a) + m
         /\ \A i \in 1..m : (a \o b)[Len(a) + i] = b[i]
<1>1. b \in Seq(S) /\ Len(b) = m
  OBVIOUS
<1>2. a \o b \in Seq(S) /\ Len(a \o b) = Len(a) + m /\ Len(a) \in Nat
  BY <1>1
<1>3. \A i \in 1..(Len(a) + m) : (a \o b)[i] = IF i <= Len(a) THEN a[i] ELSE b[i - Len(a)]
  BY <1>1
<1>4. \A i \in 1..m : (a \o b)[Len(a) + i] = b[i]
  BY <1>2, <1>3
<1>5. Grows(a, a \o b)
  BY <1>2, <1>3 DEF Grows
<1> QED
  BY <1>2, <1>4, <1>5

(* What a scope says stays true when the arenas grow. *)
LEMMA MeansGrow ==
  ASSUME NEW env, NEW vs \in Seq(VarEntry), NEW ts \in Seq(TypeEntry), MeansOK(env, vs, ts),
         NEW vt \in Seq(VarEntry), NEW tt \in Seq(TypeEntry), Grows(vs, vt), Grows(ts, tt)
  PROVE  MeansOK(env, vt, tt)
<1>1. \A i \in Index(vs) : i \in Index(vt) /\ vt[i + 1] = vs[i + 1]
  BY DEF Index, Grows
<1>2. \A i \in Index(ts) : i \in Index(tt) /\ tt[i + 1] = ts[i + 1]
  BY DEF Index, Grows
<1> QED
  BY <1>1, <1>2 DEF MeansOK

(* The variables a declaration makes are bound in the innermost scope; one *)
(* of stab_add_decls is what its name means there, and it takes the name   *)
(* from nobody.                                                            *)
Fresh(new) ==
  /\ \A i \in DOMAIN vars' \ DOMAIN vars :
       /\ vars'[i].scope = Innermost
       /\ vars'[i].by = "decls" => new["vars"][vars'[i].name] = i - 1
  /\ \A n \in Name : new["vars"][n] # NONE =>
       /\ new["vars"][n] + 1 \in DOMAIN vars' \ DOMAIN vars
       /\ vars'[new["vars"][n] + 1].by = "decls" => scopes[Innermost]["vars"][n] = NONE

(* What every declaration is: the arenas grow by well-made entries, and    *)
(* the names it binds in the innermost scope name entries of the grown     *)
(* arenas.                                                                 *)
Declares(new) ==
  /\ phase = "ready"
  /\ Bind(new) /\ chain' = chain /\ phase' = phase
  /\ vars' \in Seq(VarEntry) /\ Grows(vars, vars')
  /\ \A i \in DOMAIN vars' : i \in DOMAIN vars \/ vars'[i].type \in Index(types') \cup {NONE}
  /\ types' \in Seq(TypeEntry) /\ Grows(types, types')
  /\ \A i \in DOMAIN types' : i \in DOMAIN types \/ EntryOK(i, types'[i], vars')
  /\ MeansOK(new, vars', types')
  /\ Fresh(new)

(* Every declaration keeps the invariant. *)
LEMMA DeclareIInv ==
  ASSUME IInv, NEW new \in Env, Declares(new)
  PROVE  IInv'
<1>0. /\ Bind(new) /\ chain' = chain /\ phase' = phase
      /\ vars' \in Seq(VarEntry) /\ Grows(vars, vars')
      /\ \A i \in DOMAIN vars' : i \in DOMAIN vars \/ vars'[i].type \in Index(types') \cup {NONE}
      /\ types' \in Seq(TypeEntry) /\ Grows(types, types')
      /\ \A i \in DOMAIN types' : i \in DOMAIN types \/ EntryOK(i, types'[i], vars')
      /\ MeansOK(new, vars', types')
  BY DEF Declares
<1>1. vars \in Seq(VarEntry) /\ types \in Seq(TypeEntry)
  BY DEF IInv, VarsOK, TypesOK
<1>2. /\ \A i \in Index(vars) : i \in Index(vars') /\ vars'[i + 1] = vars[i + 1]
      /\ \A i \in Index(types) : i \in Index(types') /\ types'[i + 1] = types[i + 1]
      /\ \A i \in DOMAIN vars : i \in DOMAIN vars' /\ vars'[i] = vars[i]
      /\ \A i \in DOMAIN types : i \in DOMAIN types' /\ types'[i] = types[i]
  BY <1>0, <1>1 DEF Index, Grows
<1>3. VarsOK(vars', types')
  BY <1>0, <1>2 DEF VarsOK, IInv
<1>4. TypesOK(types', vars')
  <2>1. ASSUME NEW i \in DOMAIN types PROVE EntryOK(i, types'[i], vars')
    <3>1. EntryOK(i, types[i], vars) /\ types'[i] = types[i]
      BY <1>2 DEF IInv, TypesOK
    <3> QED
      BY <1>2, <3>1 DEF EntryOK
  <2>2. \A i \in DOMAIN Builtin : i \in DOMAIN types' /\ types'[i].tag = Builtin[i]
    BY <1>2 DEF IInv, TypesOK
  <2> QED
    BY <1>0, <2>1, <2>2 DEF TypesOK
<1>5. scopes \in Seq(Env) /\ Innermost \in DOMAIN scopes
  BY DEF IInv, ScopesOK, ChainOK, Innermost
<1> DEFINE put == [k \in Kind |-> [n \in Name |->
                    IF new[k][n] = NONE THEN scopes[Innermost][k][n] ELSE new[k][n]]]
<1>6. put \in Env
  <2>1. scopes[Innermost] \in Env
    BY <1>5
  <2> QED
    BY <2>1 DEF Env
<1>7. scopes' = [scopes EXCEPT ![Innermost] = put]
  BY <1>0, <1>5 DEF Bind
<1>8. MeansOK(put, vars', types')
  <2>1. MeansOK(scopes[Innermost], vars', types')
    BY <1>0, <1>1, <1>5, MeansGrow DEF IInv, ScopesOK
  <2> QED
    BY <1>0, <2>1 DEF MeansOK, Kind
<1> HIDE DEF put
<1>9. ScopesOK(scopes', vars', types') /\ DOMAIN scopes' = DOMAIN scopes
  <2>1. scopes' \in Seq(Env) /\ DOMAIN scopes' = DOMAIN scopes
    BY <1>5, <1>6, <1>7
  <2>2. ASSUME NEW s \in DOMAIN scopes PROVE MeansOK(scopes'[s], vars', types')
    <3>1. CASE s = Innermost
      BY <1>5, <1>7, <1>8, <3>1
    <3>2. CASE s # Innermost
      <4>1. scopes'[s] = scopes[s] /\ MeansOK(scopes[s], vars, types)
        BY <1>7, <3>2 DEF IInv, ScopesOK
      <4> QED
        BY <1>0, <1>1, <4>1, MeansGrow
    <3> QED
      BY <3>1, <3>2
  <2> QED
    BY <2>1, <2>2 DEF ScopesOK
<1>10. ChainOK(chain', scopes')
  BY <1>0, <1>9 DEF IInv, ChainOK
<1> QED
  BY <1>0, <1>3, <1>4, <1>9, <1>10 DEF IInv, VarsOK, TypesOK, ScopesOK, ChainOK, MeansOK, EntryOK, Index

-----------------------------------------------------------------------------
(* stab_resolve_type: the arena grows by a well-made entry, if at all, and *)
(* the answer is nothing or the index of a type.                           *)
LEMMA ResolveTypeTyped ==
  ASSUME IInv, NEW ty \in TypeExpr, NEW vs
  PROVE  LET r == ResolveType(ty) IN
         /\ r.types \in Seq(TypeEntry) /\ Grows(types, r.types)
         /\ \A i \in DOMAIN r.types : i \in DOMAIN types \/ EntryOK(i, r.types[i], vs)
         /\ r.id # NONE => r.id \in Index(r.types) /\ r.types[r.id + 1].tag # "function"
         /\ r.id \in Nat \cup {NONE}
<1>1. types \in Seq(TypeEntry)
  BY DEF IInv, TypesOK
<1>2. CASE ty \in Basic
  <2>1. ResolveType(ty).types = types /\ ResolveType(ty).id = ResolveBasic(ty)
    BY <1>2 DEF ResolveType
  <2>2. Grows(types, types)
    BY <1>1 DEF Grows
  <2>3. ty \in Result
    BY <1>2 DEF Result
  <2>4. ResolveBasic(ty) # NONE =>
          ResolveBasic(ty) \in Index(types) /\ types[ResolveBasic(ty) + 1].tag # "function"
    BY <2>3, ResolveBasicTyped
  <2> QED
    BY <1>1, <2>1, <2>2, <2>4 DEF Index
<1>3. CASE ty \notin Basic
  <2>1. ty.tag \in Constructors /\ ty.of \in Basic
    BY <1>3 DEF TypeExpr, Constructed
  <2>2. ty.tag \in {"pointer", "array", "record"}
    BY <2>1, SymbolTableAssumption
  <2>3. ResolveBasic(ty.of) \in Index(types) \cup {NONE}
    BY <2>1, ResolveBasicTyped DEF Result
  <2> DEFINE e == Entry(ty.tag, <<ResolveBasic(ty.of)>>, <<>>)
  <2>4. e \in TypeEntry
    <3>1. <<ResolveBasic(ty.of)>> \in Seq(Int) /\ <<>> \in Seq(Int)
      BY <2>3 DEF Index, NONE
    <3> QED
      BY <2>2, <3>1 DEF Entry, TypeEntry
  <2>5. EntryOK(Len(types) + 1, e, vs) /\ e.tag # "function"
    BY <1>1, <2>2, <2>3 DEF Entry, EntryOK, Index, NONE
  <2>6. ResolveType(ty).types = Append(types, e) /\ ResolveType(ty).id = Len(types)
    BY <1>3 DEF ResolveType
  <2> HIDE DEF e
  <2>7. Len(types) \in Nat
    BY <1>1
  <2> QED
    BY <1>1, <2>4, <2>5, <2>6, <2>7, AppendGrows DEF Index
<1> QED
  BY <1>2, <1>3

(* The arena vt after m variables were pushed, with types from the arena   *)
(* ts, and `bound` naming the entries.                                     *)
Pushed(vt, m, by, bound, ts) ==
  /\ vt \in Seq(VarEntry) /\ Grows(vars, vt)
  /\ Len(vt) = Len(vars) + m
  /\ \A i \in DOMAIN vt : i \in DOMAIN vars \/ vt[i].type \in Index(ts) \cup {NONE}
  /\ \A i \in 1..m : vt[Len(vars) + i].by = by
  /\ \A i \in DOMAIN vt \ DOMAIN vars : vt[i].scope = Innermost /\ vt[i].by = by
  /\ \A n \in Name : bound[n] # NONE => bound[n] + 1 \in DOMAIN vt \ DOMAIN vars
  /\ bound \in [Name -> Nat \cup {NONE}]
  /\ \A n \in Name : bound[n] # NONE => bound[n] \in Index(vt) /\ vt[bound[n] + 1].name = n

(* Names from a sequence of them bound to the variables pushed for them,   *)
(* all of one type: what stab_add_decls, the return slot and the formals   *)
(* of a signature have in common.                                          *)
LEMMA PushVars ==
  ASSUME IInv, NEW m \in Nat, NEW names \in [1..m -> Name],
         NEW ts \in Seq(TypeEntry), NEW type \in Index(ts) \cup {NONE}, NEW by \in Maker
  PROVE  Pushed(vars \o NewVars(names, type, by), m, by, BoundTo(names), ts)
<1> DEFINE b == NewVars(names, type, by)
           vt == vars \o b
<1>1. vars \in Seq(VarEntry) /\ Len(vars) \in Nat
  BY DEF IInv, VarsOK
<1>2. b \in [1..m -> VarEntry]
  <2>1. type \in Int
    BY DEF Index, NONE
  <2>2. Innermost \in Nat
    BY ChainFacts
  <2> QED
    BY <2>1, <2>2 DEF NewVars, VarEntry
<1>7. \A i \in 1..m : b[i].name = names[i] /\ b[i].type = type /\ b[i].by = by /\ b[i].scope = Innermost
  BY DEF NewVars
<1> HIDE DEF b
<1>3. /\ vt \in Seq(VarEntry) /\ Grows(vars, vt) /\ Len(vt) = Len(vars) + m
      /\ \A i \in 1..m : vt[Len(vars) + i] = b[i]
      /\ \A i \in DOMAIN vt : i \in DOMAIN vars \/ \E j \in 1..m : i = Len(vars) + j
  <2>1. /\ vt \in Seq(VarEntry) /\ Grows(vars, vt) /\ Len(vt) = Len(vars) + m
        /\ \A i \in 1..m : vt[Len(vars) + i] = b[i]
    BY <1>1, <1>2, ConcatGrows
  <2> HIDE DEF vt
  <2>2. ASSUME NEW i \in DOMAIN vt, i \notin DOMAIN vars
        PROVE  \E j \in 1..m : i = Len(vars) + j
    <3>1. i - Len(vars) \in 1..m /\ i = Len(vars) + (i - Len(vars))
      BY <1>1, <2>1, <2>2
    <3> QED
      BY <3>1
  <2> QED
    BY <2>1, <2>2
<1> HIDE DEF vt
<1>4. ASSUME NEW i \in DOMAIN vt, i \notin DOMAIN vars PROVE vt[i].type \in Index(ts) \cup {NONE}
  <2>1. PICK j \in 1..m : i = Len(vars) + j
    BY <1>3, <1>4
  <2>2. vt[i] = b[j]
    BY <1>3, <2>1
  <2>3. b[j].type = type
    BY <1>7
  <2> QED
    BY <2>2, <2>3
<1>5. \A n \in Name : BoundTo(names)[n] # NONE =>
        \E i \in 1..m : names[i] = n /\ BoundTo(names)[n] = Len(vars) - 1 + i
  BY <1>1, BoundToEntries
<1>6. ASSUME NEW n \in Name, BoundTo(names)[n] # NONE
      PROVE  BoundTo(names)[n] \in Index(vt) /\ vt[BoundTo(names)[n] + 1].name = n
  <2>1. PICK i \in 1..m : names[i] = n /\ BoundTo(names)[n] = Len(vars) - 1 + i
    BY <1>5, <1>6
  <2>2. BoundTo(names)[n] + 1 = Len(vars) + i /\ BoundTo(names)[n] \in Index(vt)
    BY <1>1, <1>3, <2>1 DEF Index
  <2> QED
    BY <1>2, <1>3, <1>7, <2>1, <2>2
<1>8. \A i \in 1..m : vt[Len(vars) + i].by = by
  BY <1>3, <1>7
<1>10. ASSUME NEW i \in DOMAIN vt \ DOMAIN vars PROVE vt[i].scope = Innermost /\ vt[i].by = by
  <2>1. PICK j \in 1..m : i = Len(vars) + j
    BY <1>3
  <2>2. vt[i] = b[j]
    BY <1>3, <2>1
  <2> QED
    BY <1>7, <2>2
<1>11. ASSUME NEW n \in Name, BoundTo(names)[n] # NONE
       PROVE  BoundTo(names)[n] + 1 \in DOMAIN vt \ DOMAIN vars
  <2>1. PICK i \in 1..m : BoundTo(names)[n] = Len(vars) - 1 + i
    BY <1>5, <1>11
  <2>2. BoundTo(names)[n] + 1 = Len(vars) + i /\ DOMAIN vars = 1..Len(vars) /\ DOMAIN vt = 1..Len(vt)
    BY <1>1, <1>3, <2>1
  <2> QED
    BY <1>1, <1>3, <2>2
<1>9. BoundTo(names) \in [Name -> Nat \cup {NONE}]
  BY <1>1, BoundToEntries
<1> QED
  <2>1. Pushed(vt, m, by, BoundTo(names), ts)
    BY <1>3, <1>4, <1>6, <1>8, <1>9, <1>10, <1>11 DEF Pushed
  <2> QED
    BY <2>1 DEF vt, b

(* An environment that binds a name to an index of the arena of types. *)
LEMMA OneOK ==
  ASSUME NEW n \in Name, NEW id \in Nat \cup {NONE}
  PROVE  /\ One(n, id) \in [Name -> Nat \cup {NONE}]
         /\ \A m \in Name : One(n, id)[m] # NONE => m = n /\ One(n, id)[m] = id
  BY DEF One

(* Of a list without repetition every name is bound to its own entry. *)
LEMMA BoundToInjective ==
  ASSUME NEW m \in Nat, NEW names \in [1..m -> Name], Injective(names), NEW i \in 1..m
  PROVE  BoundTo(names)[names[i]] = Len(vars) - 1 + i
<1>1. \A j \in DOMAIN names : names[j] = names[i] => j = i
  BY DEF Injective
<1>2. IsLast(names, i)
  BY <1>1 DEF IsLast
<1>3. (CHOOSE j \in DOMAIN names : names[j] = names[i] /\ IsLast(names, j)) = i
  BY <1>1, <1>2
<1> QED
  BY <1>3 DEF BoundTo

(* stab_add_decls is a declaration. *)
LEMMA AddDeclsDeclares ==
  ASSUME IInv, NEW names \in Names, NEW ty \in TypeExpr, AddDecls(names, ty)
  PROVE  \E new \in Env : Declares(new)
<1> DEFINE r == ResolveType(ty)
           new == [EmptyScope EXCEPT !["vars"] = BoundTo(names)]
<1>1. PICK m \in Nat : names \in [1..m -> Name]
  BY SymbolTableAssumption DEF Names
<1>2. /\ r.types \in Seq(TypeEntry) /\ Grows(types, r.types)
      /\ \A i \in DOMAIN r.types : i \in DOMAIN types \/ EntryOK(i, r.types[i], vars')
      /\ r.id # NONE => r.id \in Index(r.types)
  BY ResolveTypeTyped
<1>3. /\ r.id # NONE /\ types' = r.types
      /\ vars' = vars \o NewVars(names, r.id, "decls")
      /\ Bind(new) /\ chain' = chain /\ phase' = phase /\ phase = "ready"
  BY DEF AddDecls, HasRoom
<1> HIDE DEF r
<1>4. Pushed(vars', m, "decls", BoundTo(names), types')
  <2>1. types' \in Seq(TypeEntry) /\ r.id \in Index(types') \cup {NONE} /\ "decls" \in Maker
    BY <1>2, <1>3 DEF Maker
  <2>2. Pushed(vars \o NewVars(names, r.id, "decls"), m, "decls", BoundTo(names), types')
    BY <1>1, <2>1, PushVars
  <2> QED
    BY <1>3, <2>2
<1>5. /\ new \in Env /\ new["vars"] = BoundTo(names)
      /\ \A n \in Name : new["funcs"][n] = NONE /\ new["types"][n] = NONE
  BY <1>4 DEF EmptyScope, Env, Kind, Pushed
<1> HIDE DEF new
<1>7. Fresh(new)
  <2>1. /\ Injective(names) /\ DOMAIN names = 1..m
        /\ \A j \in DOMAIN names : scopes[Innermost]["vars"][names[j]] = NONE
    BY <1>1 DEF AddDecls, HasLocal
  <2>2. vars \in Seq(VarEntry) /\ Len(vars) \in Nat /\ vars' \in Seq(VarEntry) /\ Len(vars') = Len(vars) + m
    BY <1>4 DEF IInv, VarsOK, Pushed
  <2>3. \A j \in 1..m : vars'[Len(vars) + j].name = names[j]
    <3> DEFINE b == NewVars(names, r.id, "decls")
    <3>1. b \in Seq([name : Name, type : {r.id}, by : {"decls"}, scope : {Innermost}]) /\ Len(b) = m
      BY <1>1 DEF NewVars
    <3>2. \A j \in 1..m : b[j].name = names[j]
      BY <1>1 DEF NewVars
    <3> HIDE DEF b
    <3>3. \A j \in 1..m : (vars \o b)[Len(vars) + j] = b[j]
      BY <2>2, <3>1
    <3> QED
      BY <1>3, <3>2, <3>3 DEF b
  <2>4. ASSUME NEW i \in DOMAIN vars' \ DOMAIN vars
        PROVE  vars'[i].scope = Innermost /\ new["vars"][vars'[i].name] = i - 1
    <3>1. i - Len(vars) \in 1..m /\ i = Len(vars) + (i - Len(vars))
      BY <2>2
    <3>2. BoundTo(names)[names[i - Len(vars)]] = Len(vars) - 1 + (i - Len(vars))
      BY <1>1, <2>1, <3>1, BoundToInjective
    <3>3. vars'[i].name = names[i - Len(vars)]
      BY <2>3, <3>1
    <3>4. Len(vars) - 1 + (i - Len(vars)) = i - 1
      BY <2>2, <3>1
    <3>5. vars'[i].scope = Innermost
      BY <1>4 DEF Pushed
    <3> QED
      BY <1>5, <3>2, <3>3, <3>4, <3>5
  <2>5. ASSUME NEW n \in Name, new["vars"][n] # NONE
        PROVE  /\ new["vars"][n] + 1 \in DOMAIN vars' \ DOMAIN vars
               /\ scopes[Innermost]["vars"][n] = NONE
    <3>1. new["vars"][n] + 1 \in DOMAIN vars' \ DOMAIN vars
      BY <1>4, <1>5, <2>5 DEF Pushed
    <3>2. PICK j \in 1..m : names[j] = n
      BY <1>1, <1>5, <2>2, <2>5, BoundToEntries
    <3> QED
      BY <2>1, <3>1, <3>2
  <2> QED
    BY <2>4, <2>5 DEF Fresh
<1>6. MeansOK(new, vars', types')
  BY <1>4, <1>5 DEF MeansOK, Pushed
<1> QED
  BY <1>2, <1>3, <1>4, <1>5, <1>6, <1>7 DEF Declares, Pushed

(* So is the stab_add_var of the return slot. *)
LEMMA AddRetslotDeclares ==
  ASSUME IInv, NEW n \in Name, NEW ty \in Result, AddRetslot(n, ty)
  PROVE  \E new \in Env : Declares(new)
<1> DEFINE names == <<n>>
           new == [EmptyScope EXCEPT !["vars"] = BoundTo(names)]
<1>1. names \in [1..1 -> Name] /\ 1 \in Nat
  OBVIOUS
<1>2. types \in Seq(TypeEntry) /\ Grows(types, types) /\ types' = types
  BY DEF AddRetslot, IInv, TypesOK, Grows
<1>3. ResolveBasic(ty) \in Index(types) \cup {NONE}
  BY ResolveBasicTyped DEF AddRetslot
<1>4. /\ vars' = vars \o NewVars(names, ResolveBasic(ty), "retslot")
      /\ Bind(new) /\ chain' = chain /\ phase' = phase /\ phase = "ready"
  BY DEF AddRetslot, HasRoom
<1> HIDE DEF names
<1>5. Pushed(vars', 1, "retslot", BoundTo(names), types')
  <2>1. Pushed(vars \o NewVars(names, ResolveBasic(ty), "retslot"), 1, "retslot", BoundTo(names), types)
    BY <1>1, <1>2, <1>3, PushVars DEF Maker
  <2> QED
    BY <1>2, <1>4, <2>1
<1>6. /\ new \in Env /\ new["vars"] = BoundTo(names)
      /\ \A m \in Name : new["funcs"][m] = NONE /\ new["types"][m] = NONE
  BY <1>5 DEF EmptyScope, Env, Kind, Pushed
<1> HIDE DEF new
<1>8. Fresh(new)
  BY <1>5, <1>6 DEF Fresh, Pushed
<1>7. MeansOK(new, vars', types')
  BY <1>5, <1>6 DEF MeansOK, Pushed
<1> QED
  BY <1>2, <1>4, <1>5, <1>6, <1>7, <1>8 DEF Declares, Pushed

(* So is stab_add_type. *)
LEMMA AddTypeDeclares ==
  ASSUME IInv, NEW n \in Name, NEW ty \in TypeExpr, AddType(n, ty)
  PROVE  \E new \in Env : Declares(new)
<1> DEFINE r == ResolveType(ty)
           new == [EmptyScope EXCEPT !["types"] = One(n, r.id)]
<1>1. /\ r.types \in Seq(TypeEntry) /\ Grows(types, r.types)
      /\ \A i \in DOMAIN r.types : i \in DOMAIN types \/ EntryOK(i, r.types[i], vars')
      /\ r.id # NONE => r.id \in Index(r.types) /\ r.types[r.id + 1].tag # "function"
      /\ r.id \in Nat \cup {NONE}
  BY ResolveTypeTyped
<1>2. /\ types' = r.types /\ vars' = vars
      /\ Bind(new) /\ chain' = chain /\ phase' = phase /\ phase = "ready"
  BY DEF AddType, HasRoom
<1> HIDE DEF r
<1>3. vars \in Seq(VarEntry) /\ Grows(vars, vars)
  BY DEF IInv, VarsOK, Grows
<1>4. /\ new \in Env /\ new["types"] = One(n, r.id)
      /\ \A m \in Name : new["funcs"][m] = NONE /\ new["vars"][m] = NONE
  BY <1>1, OneOK DEF EmptyScope, Env, Kind
<1> HIDE DEF new
<1>5. \A m \in Name : new["types"][m] # NONE => new["types"][m] = r.id /\ r.id # NONE
  <2>1. \A m \in Name : One(n, r.id)[m] # NONE => One(n, r.id)[m] = r.id
    BY DEF One
  <2>2. new["types"] = One(n, r.id)
    BY <1>4
  <2> QED
    BY <2>1, <2>2
<1>6. MeansOK(new, vars', types')
  BY <1>1, <1>2, <1>4, <1>5 DEF MeansOK
<1>7. Fresh(new)
  BY <1>2, <1>4 DEF Fresh
<1> QED
  BY <1>1, <1>2, <1>3, <1>4, <1>6, <1>7 DEF Declares

(* So is stab_add_func, with the formals of its signature. *)
LEMMA AddFuncDeclares ==
  ASSUME IInv, NEW n \in Name, NEW sig \in Signature, AddFunc(n, sig)
  PROVE  \E new \in Env : Declares(new)
<1> DEFINE names == sig.names
           formals == [i \in DOMAIN names |-> Len(vars) - 1 + i]
           e == Entry("function", <<ResolveBasic(sig.ret)>>, formals)
           new == [EmptyScope EXCEPT !["vars"] = BoundTo(names), !["funcs"] = One(n, Len(types))]
<1>1. PICK m \in Nat : names \in [1..m -> Name]
  <2>1. names \in Names \cup {<<>>}
    BY DEF Signature
  <2>2. CASE names \in Names
    BY <2>2, SymbolTableAssumption DEF Names
  <2>3. CASE names = <<>>
    <3>1. names \in [1..0 -> Name] /\ 0 \in Nat
      BY <2>3
    <3> QED
      BY <3>1
  <2> QED
    BY <2>1, <2>2, <2>3
<1>2. sig.of \in Result /\ sig.ret \in Result
  BY DEF Signature, Result
<1>3. /\ types \in Seq(TypeEntry) /\ Len(types) \in Nat
      /\ vars \in Seq(VarEntry) /\ Len(vars) \in Nat
  BY DEF IInv, TypesOK, VarsOK
<1>4. /\ ResolveBasic(sig.of) \in Index(types) \cup {NONE}
      /\ ResolveBasic(sig.ret) \in Index(types) \cup {NONE}
  BY <1>2, ResolveBasicTyped
<1>5. /\ vars' = vars \o NewVars(names, ResolveBasic(sig.of), "signature")
      /\ types' = Append(types, e)
      /\ Bind(new) /\ chain' = chain /\ phase' = phase /\ phase = "ready"
  BY DEF AddFunc, HasRoom
<1>6. formals \in Seq(Int) /\ DOMAIN formals = 1..m /\ \A i \in 1..m : formals[i] = Len(vars) - 1 + i
  <2>1. DOMAIN names = 1..m
    BY <1>1
  <2> HIDE DEF names
  <2>2. formals = [i \in 1..m |-> Len(vars) - 1 + i]
    BY <2>1
  <2>3. formals \in [1..m -> Int]
    BY <1>3, <2>2
  <2> QED
    BY <2>2, <2>3
<1>7. /\ e \in TypeEntry /\ e.tag = "function" /\ e.args = formals
      /\ e.parts = <<ResolveBasic(sig.ret)>>
  <2> HIDE DEF formals
  <2>1. <<ResolveBasic(sig.ret)>> \in Seq(Int)
    BY <1>4 DEF Index, NONE
  <2> QED
    BY <1>6, <2>1 DEF Entry, TypeEntry
<1> HIDE DEF names, formals, e
<1>8. /\ types' \in Seq(TypeEntry) /\ Grows(types, types')
      /\ Len(types') = Len(types) + 1 /\ types'[Len(types) + 1] = e
      /\ \A i \in DOMAIN types' : i \in DOMAIN types \/ i = Len(types) + 1
  BY <1>3, <1>5, <1>7, AppendGrows
<1>9. Pushed(vars', m, "signature", BoundTo(names), types')
  <2>1. ResolveBasic(sig.of) \in Index(types') \cup {NONE} /\ "signature" \in Maker
    BY <1>3, <1>4, <1>8 DEF Index, Maker
  <2>2. Pushed(vars \o NewVars(names, ResolveBasic(sig.of), "signature"), m, "signature", BoundTo(names), types')
    BY <1>1, <1>8, <2>1, PushVars
  <2> QED
    BY <1>5, <2>2
<1>10. EntryOK(Len(types) + 1, e, vars')
  <2>1. \A j \in DOMAIN e.parts : e.parts[j] \in (-1)..((Len(types) + 1) - 2)
    BY <1>3, <1>4, <1>7 DEF Index, NONE
  <2>2. ASSUME NEW j \in 1..m
        PROVE  formals[j] \in Index(vars') /\ vars'[formals[j] + 1].by = "signature"
    <3>1. formals[j] + 1 = Len(vars) + j /\ formals[j] \in Index(vars')
      BY <1>3, <1>6, <1>9 DEF Index, Pushed
    <3>2. vars'[Len(vars) + j].by = "signature"
      BY <1>9 DEF Pushed
    <3> QED
      BY <3>1, <3>2
  <2> QED
    BY <1>6, <1>7, <2>1, <2>2 DEF EntryOK
<1>11. \A i \in DOMAIN types' : i \in DOMAIN types \/ EntryOK(i, types'[i], vars')
  BY <1>8, <1>10
<1>12. /\ new \in Env /\ new["vars"] = BoundTo(names) /\ new["funcs"] = One(n, Len(types))
       /\ \A l \in Name : new["types"][l] = NONE
  BY <1>3, <1>9, OneOK DEF EmptyScope, Env, Kind, Pushed
<1> HIDE DEF new
<1>13. MeansOK(new, vars', types')
  <2>1. \A l \in Name : new["funcs"][l] # NONE => new["funcs"][l] = Len(types)
    BY <1>3, <1>12, OneOK
  <2>2. Len(types) \in Index(types') /\ types'[Len(types) + 1].tag = "function"
    BY <1>3, <1>7, <1>8 DEF Index
  <2> QED
    BY <1>9, <1>12, <2>1, <2>2 DEF MeansOK, Pushed
<1>14. Fresh(new)
  BY <1>9, <1>12 DEF Fresh, Pushed
<1> QED
  BY <1>5, <1>8, <1>9, <1>11, <1>12, <1>13, <1>14 DEF Declares, Pushed

(* So is stab_add_magic_func. *)
LEMMA AddMagicDeclares ==
  ASSUME IInv, NEW n \in Magic, AddMagic(n)
  PROVE  \E new \in Env : Declares(new)
<1> DEFINE e == Entry("function", <<>>, <<>>)
           new == [EmptyScope EXCEPT !["funcs"] = One(n, Len(types))]
<1>1. n \in Name
  BY SymbolTableAssumption
<1>2. /\ types \in Seq(TypeEntry) /\ Len(types) \in Nat
      /\ vars \in Seq(VarEntry) /\ Grows(vars, vars)
  BY DEF IInv, TypesOK, VarsOK, Grows
<1>3. /\ types' = Append(types, e) /\ vars' = vars
      /\ Bind(new) /\ chain' = chain /\ phase' = phase /\ phase = "ready"
  BY DEF AddMagic, HasRoom
<1>4. e \in TypeEntry /\ e.tag = "function" /\ EntryOK(Len(types) + 1, e, vars')
  <2>1. <<>> \in Seq(Int) /\ DOMAIN <<>> = {}
    OBVIOUS
  <2> QED
    BY <2>1 DEF Entry, TypeEntry, EntryOK
<1> HIDE DEF e
<1>5. /\ types' \in Seq(TypeEntry) /\ Grows(types, types')
      /\ Len(types') = Len(types) + 1 /\ types'[Len(types) + 1] = e
      /\ \A i \in DOMAIN types' : i \in DOMAIN types \/ i = Len(types) + 1
  BY <1>2, <1>3, <1>4, AppendGrows
<1>6. \A i \in DOMAIN types' : i \in DOMAIN types \/ EntryOK(i, types'[i], vars')
  BY <1>4, <1>5
<1>7. /\ new \in Env /\ new["funcs"] = One(n, Len(types))
      /\ \A l \in Name : new["vars"][l] = NONE /\ new["types"][l] = NONE
  BY <1>1, <1>2, OneOK DEF EmptyScope, Env, Kind
<1> HIDE DEF new
<1>8. MeansOK(new, vars', types')
  <2>1. \A l \in Name : new["funcs"][l] # NONE => new["funcs"][l] = Len(types)
    BY <1>1, <1>2, <1>7, OneOK
  <2>2. Len(types) \in Index(types') /\ types'[Len(types) + 1].tag = "function"
    BY <1>2, <1>4, <1>5 DEF Index
  <2> QED
    BY <1>7, <2>1, <2>2 DEF MeansOK
<1>9. Fresh(new)
  BY <1>3, <1>7 DEF Fresh
<1> QED
  BY <1>2, <1>3, <1>5, <1>6, <1>7, <1>8, <1>9 DEF Declares

(* stab_enter puts a scope at the end of the chain that is newer than all  *)
(* others.                                                                 *)
LEMMA EnterIInv == ASSUME IInv, Enter PROVE IInv'
<1> DEFINE m == Len(scopes)
           c == Len(chain)
<1>1. /\ scopes \in Seq(Env) /\ m \in Nat /\ DOMAIN scopes = 1..m
      /\ chain \in Seq(1..m) /\ c \in Nat \ {0} /\ DOMAIN chain = 1..c
  BY DEF IInv, ScopesOK, ChainOK
<1>2. /\ scopes' = Append(scopes, EmptyScope) /\ chain' = Append(chain, m + 1)
      /\ UNCHANGED <<vars, types, phase>>
  BY DEF Enter
<1>3. EmptyScope \in Env /\ MeansOK(EmptyScope, vars, types)
  BY DEF EmptyScope, Env, MeansOK, Kind
<1>4. /\ scopes' \in Seq(Env) /\ DOMAIN scopes' = 1..(m + 1)
      /\ scopes'[m + 1] = EmptyScope /\ \A s \in 1..m : scopes'[s] = scopes[s]
  <2> HIDE DEF EmptyScope
  <2> QED
    BY <1>1, <1>2, <1>3
<1>5. ScopesOK(scopes', vars', types')
  <2>1. ASSUME NEW s \in 1..(m + 1) PROVE MeansOK(scopes'[s], vars, types)
    <3>1. CASE s = m + 1
      BY <1>3, <1>4, <3>1
    <3>2. CASE s # m + 1
      <4>1. s \in 1..m
        BY <1>1, <3>2
      <4> QED
        BY <1>1, <1>4, <4>1 DEF IInv, ScopesOK
    <3> QED
      BY <3>1, <3>2
  <2> QED
    BY <1>2, <1>4, <2>1 DEF ScopesOK
<1>6. /\ chain' \in Seq(1..(m + 1)) /\ DOMAIN chain' = 1..(c + 1)
      /\ chain'[c + 1] = m + 1 /\ \A i \in 1..c : chain'[i] = chain[i] /\ chain[i] \in 1..m
  <2>1. chain \in Seq(1..(m + 1)) /\ m + 1 \in 1..(m + 1)
    BY <1>1
  <2> QED
    BY <1>1, <1>2, <2>1
<1>7. ASSUME NEW i \in 1..(c + 1), NEW j \in 1..(c + 1), i < j PROVE chain'[i] < chain'[j]
  <2>1. i \in 1..c
    BY <1>1, <1>7
  <2>2. CASE j = c + 1
    BY <1>1, <1>6, <2>1, <2>2
  <2>3. CASE j # c + 1
    <3>1. j \in 1..c
      BY <1>1, <2>3
    <3> QED
      BY <1>1, <1>6, <1>7, <2>1, <3>1 DEF IInv, ChainOK
  <2> QED
    BY <2>2, <2>3
<1>8. ChainOK(chain', scopes')
  <2>1. chain'[1] = 1
    BY <1>1, <1>6 DEF IInv, ChainOK
  <2>2. chain' # <<>>
    BY <1>1, <1>6
  <2> QED
    BY <1>4, <1>6, <1>7, <2>1, <2>2 DEF ChainOK
<1> QED
  BY <1>2, <1>5, <1>8 DEF IInv, VarsOK, TypesOK, ScopesOK, ChainOK, MeansOK, EntryOK, Index

(* stab_leave closes the innermost scope and never the global one. *)
LEMMA LeaveIInv == ASSUME IInv, Leave PROVE IInv'
<1> DEFINE c == Len(chain)
<1>1. /\ chain \in Seq(DOMAIN scopes) /\ c \in Nat /\ c > 1
      /\ chain' = SubSeq(chain, 1, c - 1)
      /\ UNCHANGED <<vars, types, scopes, phase>>
  BY DEF IInv, ChainOK, Leave
<1>2. /\ chain' \in Seq(DOMAIN scopes) /\ DOMAIN chain' = 1..(c - 1)
      /\ \A i \in 1..(c - 1) : chain'[i] = chain[i]
  BY <1>1
<1>3. ChainOK(chain', scopes')
  <2>1. 1 \in 1..(c - 1) /\ 1..(c - 1) \subseteq DOMAIN chain
    BY <1>1
  <2>2. chain'[1] = 1 /\ \A i, j \in 1..(c - 1) : i < j => chain'[i] < chain'[j]
    BY <1>2, <2>1 DEF IInv, ChainOK
  <2>3. chain' # <<>>
    BY <1>2, <2>1
  <2> QED
    BY <1>1, <1>2, <2>2, <2>3 DEF ChainOK
<1> QED
  BY <1>1, <1>3 DEF IInv, VarsOK, TypesOK, ScopesOK, ChainOK, MeansOK, EntryOK, Index

(* The compiler gives up. *)
Stops ==
  /\ phase = "ready" /\ phase' \in {"error", "crash", "undefined"}
  /\ UNCHANGED <<vars, types, scopes, chain, declared>>

(* What a step is. *)
LEMMA StepKinds ==
  ASSUME IInv, [Next]_stab
  PROVE  Enter \/ Leave \/ (\E new \in Env : Declares(new)) \/ Stops \/ UNCHANGED stab
<1> DEFINE Kinds == Enter \/ Leave \/ (\E new \in Env : Declares(new)) \/ Stops \/ UNCHANGED stab
<1>1. ASSUME NEW names \in Names, NEW ty \in TypeExpr, AddDecls(names, ty) PROVE Kinds
  BY <1>1, AddDeclsDeclares
<1>2. ASSUME NEW names \in Names, NEW ty \in TypeExpr, AddDeclsFails(names, ty) PROVE Kinds
  BY <1>2 DEF AddDeclsFails, HasRoom, Stops
<1>3. ASSUME NEW n \in Name, NEW ty \in Result, AddRetslot(n, ty) PROVE Kinds
  BY <1>3, AddRetslotDeclares
<1>4. ASSUME NEW ty \in TypeExpr, AddUnknown(ty) PROVE Kinds
  BY <1>4 DEF AddUnknown, HasRoom, Stops
<1>5. ASSUME NEW n \in Name, NEW ty \in TypeExpr, AddType(n, ty) PROVE Kinds
  BY <1>5, AddTypeDeclares
<1>6. ASSUME NEW n \in Name, NEW sig \in Signature, AddFunc(n, sig) PROVE Kinds
  BY <1>6, AddFuncDeclares
<1>9. ASSUME NEW n \in Name, NEW ty \in TypeExpr, AddFreedName(n, ty) PROVE Kinds
  BY <1>9 DEF AddFreedName, HasRoom, Stops
<1>7. ASSUME NEW n \in Name, Redeclared(n) PROVE Kinds
  BY <1>7 DEF Redeclared, HasRoom, Stops
<1>8. ASSUME NEW n \in Magic, AddMagic(n) PROVE Kinds
  BY <1>8, AddMagicDeclares
<1> QED
  BY <1>1, <1>2, <1>3, <1>4, <1>5, <1>6, <1>7, <1>8, <1>9 DEF Next

(* Every step keeps the invariant. *)
LEMMA NextIInv == IInv /\ [Next]_stab => IInv'
<1> SUFFICES ASSUME IInv, [Next]_stab PROVE IInv'
  OBVIOUS
<1>1. CASE Enter
  BY <1>1, EnterIInv
<1>2. CASE Leave
  BY <1>2, LeaveIInv
<1>3. CASE \E new \in Env : Declares(new)
  BY <1>3, DeclareIInv
<1>4. CASE Stops \/ UNCHANGED stab
  <2>1. UNCHANGED <<vars, types, scopes, chain>> /\ phase' \in {"ready", "error", "crash", "undefined"}
    BY <1>4 DEF Stops, stab, IInv
  <2> QED
    BY <2>1 DEF IInv, VarsOK, TypesOK, ScopesOK, ChainOK, MeansOK, EntryOK, Index
<1> QED
  BY <1>1, <1>2, <1>3, <1>4, StepKinds

(* The invariant that carries the theorems below. *)
THEOREM SymbolTableIInv == Spec => []IInv
  BY InitIInv, NextIInv, PTL DEF Spec

(* The arenas, the scopes and the chain have their types: every index kept *)
(* in an arena is one of its own or RESOLVE_FAILURE, every position of the *)
(* chain a scope.                                                          *)
THEOREM SymbolTableTypeOK == Spec => []TypeOK
  BY SymbolTableIInv, IInvProperties, PTL

(* Whatever a scope's table answers is the index of an entry made for that *)
(* name and of the right sort, so the caller may dereference it.           *)
THEOREM SymbolTableTablesName == Spec => []TablesName
  BY SymbolTableIInv, IInvProperties, PTL

(* A type is made of earlier entries, so stab_types_eq and the other walks *)
(* over types end.                                                         *)
THEOREM SymbolTableTypesAcyclic == Spec => []TypesAcyclic
  BY SymbolTableIInv, IInvProperties, PTL

(* The chain is the nesting of the open scopes, the global scope first. *)
THEOREM SymbolTableChainNested == Spec => []ChainNested
  BY SymbolTableIInv, IInvProperties, PTL

-----------------------------------------------------------------------------
(* The invariant for what is said of a declared variable. *)
StaysInv == DeclaredStays /\ \A i \in DOMAIN vars : vars[i].scope \in DOMAIN scopes

(* A declaration takes the name of no declared variable, unless the entry  *)
(* that gets it is a formal or a return slot.                              *)
LEMMA DeclareStays ==
  ASSUME IInv, StaysInv, NEW new \in Env, Declares(new)
  PROVE  StaysInv'
<1> DEFINE Stays(i) ==
      LET v == vars'[i] IN
      \/ scopes'[v.scope]["vars"][v.name] = i - 1
      \/ \E j \in DOMAIN vars' :
           /\ j > i /\ vars'[j].by # "decls"
           /\ vars'[j].name = v.name /\ vars'[j].scope = v.scope
<1>1. /\ vars \in Seq(VarEntry) /\ vars' \in Seq(VarEntry)
      /\ \A i \in DOMAIN vars : i \in DOMAIN vars' /\ vars'[i] = vars[i]
      /\ \A i \in DOMAIN vars, j \in DOMAIN vars' \ DOMAIN vars : j > i
      /\ \A i \in DOMAIN vars' : i \in Nat \ {0} /\ vars'[i].name \in Name
  <2>1. vars \in Seq(VarEntry) /\ vars' \in Seq(VarEntry) /\ Grows(vars, vars')
    BY DEF IInv, VarsOK, Declares
  <2>2. \A i \in DOMAIN vars' : vars'[i] \in VarEntry /\ i \in Nat \ {0}
    BY <2>1
  <2>3. \A i \in DOMAIN vars' : vars'[i].name \in Name
    BY <2>2 DEF VarEntry
  <2> QED
    BY <2>1, <2>2, <2>3 DEF Grows
<1>2. /\ scopes \in Seq(Env) /\ Innermost \in DOMAIN scopes /\ DOMAIN scopes' = DOMAIN scopes
      /\ \A s \in DOMAIN scopes : s # Innermost => scopes'[s] = scopes[s]
      /\ \A n \in Name : scopes'[Innermost]["vars"][n] =
           IF new["vars"][n] = NONE THEN scopes[Innermost]["vars"][n] ELSE new["vars"][n]
  BY ChainFacts DEF Declares, Bind, Kind
<1>3. /\ Fresh(new)
      /\ \A n \in Name : new["vars"][n] # NONE => vars'[new["vars"][n] + 1].name = n
  BY DEF Declares, MeansOK
<1>4. ASSUME NEW i \in DOMAIN vars, vars[i].by = "decls" PROVE Stays(i)
  <2> DEFINE n == vars[i].name
             s == vars[i].scope
  <2>1. n \in Name /\ s \in DOMAIN scopes /\ vars'[i].name = n /\ vars'[i].scope = s /\ i \in Nat \ {0}
    BY <1>1 DEF StaysInv
  <2>2. \/ scopes[s]["vars"][n] = i - 1
        \/ \E j \in DOMAIN vars :
             j > i /\ vars[j].by # "decls" /\ vars[j].name = n /\ vars[j].scope = s
    BY <1>4 DEF StaysInv, DeclaredStays
  <2> HIDE DEF n, s
  <2>3. CASE \E j \in DOMAIN vars :
               j > i /\ vars[j].by # "decls" /\ vars[j].name = n /\ vars[j].scope = s
    BY <1>1, <2>1, <2>3
  <2>4. CASE scopes[s]["vars"][n] = i - 1
    <3>1. CASE s # Innermost \/ new["vars"][n] = NONE
      BY <1>2, <2>1, <2>4, <3>1
    <3>2. CASE s = Innermost /\ new["vars"][n] # NONE
      <4> DEFINE j == new["vars"][n] + 1
      <4>1. j \in DOMAIN vars' \ DOMAIN vars /\ vars'[j].name = n
        BY <1>3, <2>1, <3>2 DEF Fresh
      <4>2. vars'[j].by # "decls"
        <5>1. scopes[Innermost]["vars"][n] # NONE
          BY <2>1, <2>4, <3>2 DEF NONE
        <5> QED
          BY <1>3, <2>1, <3>2, <5>1 DEF Fresh
      <4>3. vars'[j].scope = s /\ j > i
        BY <1>1, <1>3, <3>2, <4>1 DEF Fresh
      <4> QED
        BY <2>1, <4>1, <4>2, <4>3
    <3> QED
      BY <3>1, <3>2
  <2> QED
    BY <2>2, <2>3, <2>4
<1>5. ASSUME NEW i \in DOMAIN vars' \ DOMAIN vars, vars'[i].by = "decls" PROVE Stays(i)
  <2>1. /\ vars'[i].scope = Innermost /\ new["vars"][vars'[i].name] = i - 1
        /\ vars'[i].name \in Name /\ i \in Nat \ {0}
    BY <1>1, <1>3, <1>5 DEF Fresh
  <2> QED
    BY <1>2, <2>1 DEF NONE
<1>6. DeclaredStays'
  <2>1. \A i \in DOMAIN vars' : vars'[i].by = "decls" => Stays(i)
    BY <1>1, <1>4, <1>5
  <2> QED
    BY <2>1 DEF DeclaredStays
<1>7. \A i \in DOMAIN vars' : vars'[i].scope \in DOMAIN scopes'
  BY <1>1, <1>2, <1>3 DEF StaysInv, Fresh
<1> QED
  BY <1>6, <1>7 DEF StaysInv

(* Every step keeps it. *)
LEMMA NextStays == IInv /\ StaysInv /\ [Next]_stab => StaysInv'
<1> SUFFICES ASSUME IInv, StaysInv, [Next]_stab PROVE StaysInv'
  OBVIOUS
<1>1. CASE Enter
  <2>1. scopes \in Seq(Env) /\ EmptyScope \in Env
    BY DEF IInv, ScopesOK, EmptyScope, Env
  <2>2. scopes' = Append(scopes, EmptyScope) /\ vars' = vars
    BY <1>1 DEF Enter
  <2>3. \A s \in DOMAIN scopes : s \in DOMAIN scopes' /\ scopes'[s] = scopes[s]
    BY <2>1, <2>2
  <2> QED
    BY <2>2, <2>3 DEF StaysInv, DeclaredStays
<1>2. CASE Leave
  BY <1>2 DEF Leave, StaysInv, DeclaredStays
<1>3. CASE \E new \in Env : Declares(new)
  BY <1>3, DeclareStays
<1>4. CASE Stops \/ UNCHANGED stab
  BY <1>4 DEF Stops, stab, StaysInv, DeclaredStays
<1> QED
  BY <1>1, <1>2, <1>3, <1>4, StepKinds

(* A declared variable keeps its name in its scope, through any history of *)
(* declarations and scopes, unless a formal of a signature or a return     *)
(* slot takes it: stab_add_decls never does.                               *)
THEOREM SymbolTableDeclaredStays == Spec => []DeclaredStays
<1>1. Init => StaysInv
  BY DEF Init, StaysInv, DeclaredStays
<1>2. StaysInv => DeclaredStays
  BY DEF StaysInv
<1> QED
  BY <1>1, <1>2, NextStays, SymbolTableIInv, PTL DEF Spec

-----------------------------------------------------------------------------
(* The last of the first i answers that is not RESOLVE_FAILURE. *)
AtTop(f, hits) == IF hits = {} THEN NONE ELSE f[CHOOSE j \in hits : \A l \in hits : l <= j]
LastOf(f, i) == AtTop(f, {j \in 1..i : f[j] # NONE})

(* What the scopes of a chain answer for a name, outermost first. *)
Says(ss, ch, k, n) == [j \in DOMAIN ch |-> ss[ch[j]][k][n]]

(* What is visible in each of the open scopes. *)
View(ss, ch) ==
  [i \in DOMAIN ch |-> [k \in Kind |-> [n \in Name |-> LastOf(Says(ss, ch, k, n), i)]]]

(* An answer hides all before it. *)
LEMMA LastHit ==
  ASSUME NEW f, NEW i \in Nat \ {0}, f[i] # NONE PROVE LastOf(f, i) = f[i]
<1> DEFINE hits == {j \in 1..i : f[j] # NONE}
<1>1. i \in hits /\ hits \subseteq 1..i
  OBVIOUS
<1>2. LastOf(f, i) = f[CHOOSE j \in hits : \A l \in hits : l <= j]
  BY <1>1 DEF LastOf, AtTop
<1> HIDE DEF hits
<1>3. (CHOOSE j \in hits : \A l \in hits : l <= j) = i
  <2>1. \A l \in hits : l <= i
    BY <1>1
  <2>2. \A j \in hits : (\A l \in hits : l <= j) => j = i
    BY <1>1
  <2> QED
    BY <1>1, <2>1, <2>2
<1> QED
  BY <1>2, <1>3

(* Where the first i answers agree, so does the last of them. *)
LEMMA LastSame ==
  ASSUME NEW f, NEW g, NEW i \in Nat, \A j \in 1..i : f[j] = g[j]
  PROVE  LastOf(f, i) = LastOf(g, i)
<1> DEFINE hits == {j \in 1..i : f[j] # NONE}
<1>1. hits = {j \in 1..i : g[j] # NONE}
  OBVIOUS
<1>2. CASE hits = {}
  BY <1>1, <1>2 DEF LastOf, AtTop
<1>3. CASE hits # {}
  <2> DEFINE top == CHOOSE j \in hits : \A l \in hits : l <= j
  <2>1. LastOf(f, i) = f[top]
    BY <1>3 DEF LastOf, AtTop
  <2>2. LastOf(g, i) = g[top]
    BY <1>1, <1>3 DEF LastOf, AtTop
  <2>3. top \in hits
    <3>1. hits \in SUBSET (1..i)
      OBVIOUS
    <3> HIDE DEF hits
    <3>2. \E j \in hits : \A l \in hits : l <= j
      BY <1>3, <3>1, Greatest
    <3> QED
      BY <3>2
  <2>4. top \in 1..i
    <3> HIDE DEF top
    <3> QED
      BY <2>3
  <2> QED
    BY <2>1, <2>2, <2>4
<1> QED
  BY <1>2, <1>3

(* A scope that says nothing shows what is around it. *)
LEMMA LastSkips ==
  ASSUME NEW f, NEW i \in Nat \ {0}, f[i] = NONE PROVE LastOf(f, i) = LastOf(f, i - 1)
<1>1. {j \in 1..i : f[j] # NONE} = {j \in 1..(i - 1) : f[j] # NONE}
  OBVIOUS
<1> QED
  BY <1>1 DEF LastOf

(* stab_resolve_* over the scopes ss. *)
ResolveFrom(ss, ch, k, n) ==
  LET hits == {i \in DOMAIN ch : ss[ch[i]][k][n] # NONE}
  IN  IF hits = {} THEN NONE
      ELSE ss[ch[CHOOSE i \in hits : \A j \in hits : j <= i]][k][n]

(* Over the first i scopes of the chain it is the last of their answers. *)
LEMMA ResolveIsLast ==
  ASSUME NEW S, NEW ch \in Seq(S), NEW i \in DOMAIN ch, NEW ss, NEW k \in Kind, NEW n \in Name
  PROVE  ResolveFrom(ss, SubSeq(ch, 1, i), k, n) = LastOf(Says(ss, ch, k, n), i)
<1> DEFINE p == SubSeq(ch, 1, i)
           f == Says(ss, ch, k, n)
           hits == {j \in 1..i : f[j] # NONE}
<1>1. i \in Nat /\ DOMAIN p = 1..i /\ \A j \in 1..i : j \in DOMAIN ch /\ p[j] = ch[j]
  OBVIOUS
<1>2. \A j \in 1..i : f[j] = ss[p[j]][k][n]
  BY <1>1 DEF Says
<1> HIDE DEF p, f
<1>3. {j \in DOMAIN p : ss[p[j]][k][n] # NONE} = hits
  BY <1>1, <1>2
<1>4. CASE hits = {}
  BY <1>3, <1>4 DEF ResolveFrom, LastOf, AtTop, p, f
<1>5. CASE hits # {}
  <2> DEFINE top == CHOOSE j \in hits : \A l \in hits : l <= j
  <2>1. LastOf(f, i) = f[top]
    BY <1>5 DEF LastOf, AtTop
  <2>2. ResolveFrom(ss, p, k, n) = ss[p[top]][k][n]
    BY <1>3, <1>5 DEF ResolveFrom
  <2>3. top \in hits
    <3>1. hits \in SUBSET (1..i)
      OBVIOUS
    <3> HIDE DEF hits
    <3>2. \E j \in hits : \A l \in hits : l <= j
      BY <1>1, <1>5, <3>1, Greatest
    <3> QED
      BY <3>2
  <2>4. top \in 1..i
    <3> HIDE DEF top
    <3> QED
      BY <2>3
  <2> QED
    BY <1>2, <2>1, <2>2, <2>4 DEF p, f
<1> QED
  BY <1>4, <1>5

(* The refinement mapping, before and after a step. *)
envs ==
  [i \in DOMAIN chain |->
    [k \in Kind |-> [n \in Name |-> ResolveIn(SubSeq(chain, 1, i), k, n)]]]

(* What is resolved from each prefix of the chain is the view. *)
LEMMA EnvsView ==
  ASSUME IInv, IInv' PROVE envs = View(scopes, chain) /\ envs' = View(scopes', chain')
<1>1. chain \in Seq(DOMAIN scopes) /\ chain' \in Seq(DOMAIN scopes')
  BY DEF IInv, ChainOK
<1>2. ASSUME NEW i \in DOMAIN chain, NEW k \in Kind, NEW n \in Name
      PROVE  ResolveIn(SubSeq(chain, 1, i), k, n) = LastOf(Says(scopes, chain, k, n), i)
  <2>1. ResolveIn(SubSeq(chain, 1, i), k, n) = ResolveFrom(scopes, SubSeq(chain, 1, i), k, n)
    BY DEF ResolveIn, ResolveFrom
  <2> QED
    BY <1>1, <2>1, ResolveIsLast
<1>3. ASSUME NEW i \in DOMAIN chain', NEW k \in Kind, NEW n \in Name
      PROVE  ResolveIn(SubSeq(chain, 1, i), k, n)' = LastOf(Says(scopes', chain', k, n), i)
  <2>1. ResolveIn(SubSeq(chain, 1, i), k, n)' = ResolveFrom(scopes', SubSeq(chain', 1, i), k, n)
    BY DEF ResolveIn, ResolveFrom
  <2> QED
    BY <1>1, <2>1, ResolveIsLast
<1> QED
  BY <1>2, <1>3 DEF envs, View, Kind

(* The view of a position depends on the answers up to it. *)
LEMMA ViewSame ==
  ASSUME IInv, IInv', NEW i \in DOMAIN chain, i \in DOMAIN chain',
         \A j \in 1..i : scopes[chain[j]] = scopes'[chain'[j]]
  PROVE  View(scopes', chain')[i] = View(scopes, chain)[i]
<1>1. chain \in Seq(DOMAIN scopes) /\ chain' \in Seq(DOMAIN scopes')
  BY DEF IInv, ChainOK
<1>2. i \in Nat /\ \A j \in 1..i : j \in DOMAIN chain /\ j \in DOMAIN chain'
  BY <1>1
<1>3. ASSUME NEW k \in Kind, NEW n \in Name
      PROVE  LastOf(Says(scopes', chain', k, n), i) = LastOf(Says(scopes, chain, k, n), i)
  <2>1. \A j \in 1..i : Says(scopes', chain', k, n)[j] = Says(scopes, chain, k, n)[j]
    BY <1>2 DEF Says
  <2> QED
    BY <1>2, <2>1, LastSame
<1> QED
  BY <1>3 DEF View

(* Entering a scope repeats what is visible. *)
LEMMA EnterView ==
  ASSUME IInv, IInv', Enter
  PROVE  View(scopes', chain') = Append(View(scopes, chain), View(scopes, chain)[Len(chain)])
<1> DEFINE c == Len(chain)
           V == View(scopes, chain)
           W == View(scopes', chain')
<1>1. /\ chain \in Seq(DOMAIN scopes) /\ c \in Nat \ {0} /\ DOMAIN chain = 1..c
      /\ scopes \in Seq(Env) /\ \A j \in 1..c : chain[j] \in DOMAIN scopes
  BY ChainFacts
<1>3. scopes' = Append(scopes, EmptyScope) /\ chain' = Append(chain, Len(scopes) + 1)
  BY DEF Enter
<1>4. /\ \A s \in DOMAIN scopes : scopes'[s] = scopes[s]
      /\ scopes'[Len(scopes) + 1] = EmptyScope
  BY <1>1, <1>3
<1>5. /\ DOMAIN chain' = 1..(c + 1) /\ chain'[c + 1] = Len(scopes) + 1
      /\ \A j \in 1..c : chain'[j] = chain[j]
  BY <1>1, <1>3
<1>6. \A j \in 1..c : scopes[chain[j]] = scopes'[chain'[j]]
  BY <1>1, <1>4, <1>5
<1>7. ASSUME NEW i \in 1..c PROVE W[i] = V[i]
  <2>1. i \in DOMAIN chain /\ i \in DOMAIN chain' /\ 1..i \subseteq 1..c
    BY <1>1, <1>5
  <2> QED
    BY <1>6, <2>1, ViewSame
<1>8. W[c + 1] = V[c]
  <2>1. ASSUME NEW k \in Kind, NEW n \in Name
        PROVE  LastOf(Says(scopes', chain', k, n), c + 1) = LastOf(Says(scopes, chain, k, n), c)
    <3> DEFINE f == Says(scopes', chain', k, n)
               g == Says(scopes, chain, k, n)
    <3>1. f[c + 1] = NONE
      BY <1>1, <1>4, <1>5 DEF Says, EmptyScope
    <3>2. \A j \in 1..c : f[j] = g[j]
      BY <1>1, <1>5, <1>6 DEF Says
    <3> HIDE DEF f, g
    <3>3. LastOf(f, c + 1) = LastOf(f, c)
      <4>1. c + 1 \in Nat \ {0} /\ (c + 1) - 1 = c
        BY <1>1
      <4>2. LastOf(f, c + 1) = LastOf(f, (c + 1) - 1)
        BY <3>1, <4>1, LastSkips
      <4> QED
        BY <4>1, <4>2
    <3>4. LastOf(f, c) = LastOf(g, c)
      BY <1>1, <3>2, LastSame
    <3> QED
      BY <3>3, <3>4 DEF f, g
  <2> QED
    BY <1>1, <1>5, <2>1 DEF View
<1>9. /\ V = [i \in 1..c |-> V[i]] /\ W = [i \in 1..(c + 1) |-> W[i]]
  BY <1>1, <1>5 DEF View
<1> HIDE DEF V, W
<1>10. V \in Seq({V[i] : i \in 1..c}) /\ Len(V) = c
  BY <1>1, <1>9
<1>11. Append(V, V[c]) = [i \in 1..(c + 1) |-> IF i <= c THEN V[i] ELSE V[c]]
  BY <1>1, <1>10
<1>12. \A i \in 1..(c + 1) : W[i] = IF i <= c THEN V[i] ELSE V[c]
  <2>1. \A i \in 1..(c + 1) : (i <= c /\ i \in 1..c) \/ (~(i <= c) /\ i = c + 1)
    BY <1>1
  <2> QED
    BY <1>7, <1>8, <2>1
<1>13. W = Append(V, V[c])
  BY <1>9, <1>11, <1>12
<1> QED
  BY <1>13 DEF V, W

(* Leaving one gives back what was visible around it. *)
LEMMA LeaveView ==
  ASSUME IInv, IInv', Leave
  PROVE  View(scopes', chain') = SubSeq(View(scopes, chain), 1, Len(chain) - 1)
<1> DEFINE c == Len(chain)
           V == View(scopes, chain)
           W == View(scopes', chain')
<1>1. chain \in Seq(DOMAIN scopes) /\ c \in Nat \ {0} /\ DOMAIN chain = 1..c
  BY ChainFacts
<1>2. scopes' = scopes /\ chain' = SubSeq(chain, 1, c - 1) /\ c > 1
  BY DEF Leave
<1>3. chain' \in Seq(DOMAIN scopes) /\ DOMAIN chain' = 1..(c - 1)
      /\ \A j \in 1..(c - 1) : chain'[j] = chain[j]
  BY <1>1, <1>2
<1>4. ASSUME NEW i \in 1..(c - 1) PROVE W[i] = V[i]
  <2>1. /\ i \in DOMAIN chain /\ i \in DOMAIN chain'
        /\ \A j \in 1..i : scopes[chain[j]] = scopes'[chain'[j]]
    BY <1>1, <1>2, <1>3
  <2> QED
    BY <2>1, ViewSame
<1>5. /\ V = [i \in 1..c |-> V[i]] /\ W = [i \in 1..(c - 1) |-> W[i]]
  BY <1>1, <1>3 DEF View
<1> HIDE DEF V, W
<1>6. V \in Seq({V[i] : i \in 1..c}) /\ Len(V) = c
  BY <1>1, <1>5
<1>7. SubSeq(V, 1, c - 1) = [i \in 1..(c - 1) |-> V[i]]
  BY <1>1, <1>2, <1>6
<1>8. W = SubSeq(V, 1, c - 1)
  BY <1>4, <1>5, <1>7
<1> QED
  BY <1>8 DEF V, W

(* The new meanings over those of an environment. *)
Over(env, new) ==
  [k \in Kind |-> [n \in Name |-> IF new[k][n] = NONE THEN env[k][n] ELSE new[k][n]]]

(* A declaration changes what is visible in the innermost scope, and there *)
(* only for the names it binds.                                            *)
LEMMA DeclareView ==
  ASSUME IInv, IInv', NEW new \in Env, Declares(new)
  PROVE  View(scopes', chain') = [View(scopes, chain) EXCEPT ![Len(chain)] = Over(@, new)]
<1> DEFINE c == Len(chain)
           V == View(scopes, chain)
           W == View(scopes', chain')
<1>1. /\ chain \in Seq(DOMAIN scopes) /\ c \in Nat \ {0} /\ DOMAIN chain = 1..c
      /\ scopes \in Seq(Env) /\ \A j \in 1..c : chain[j] \in DOMAIN scopes
      /\ Innermost = chain[c] /\ \A j \in 1..c : j < c => chain[j] # Innermost
  BY ChainFacts
<1> HIDE DEF c
<1>2. chain' = chain /\ Bind(new)
  BY DEF Declares
<1>3. \A s \in DOMAIN scopes : s # Innermost => scopes'[s] = scopes[s]
  BY <1>1, <1>2 DEF Bind
<1>4. \A k \in Kind, n \in Name :
        scopes'[chain[c]][k][n] = IF new[k][n] = NONE THEN scopes[chain[c]][k][n] ELSE new[k][n]
  BY <1>1, <1>2 DEF Bind
<1>5. ASSUME NEW i \in 1..c, i # c PROVE W[i] = V[i]
  <2>1. \A j \in 1..i : scopes[chain[j]] = scopes'[chain'[j]]
    <3>1. \A j \in 1..i : j \in 1..c /\ j < c
      BY <1>1, <1>5
    <3> QED
      BY <1>1, <1>2, <1>3, <3>1
  <2>2. i \in DOMAIN chain /\ i \in DOMAIN chain'
    BY <1>1, <1>2
  <2> QED
    BY <2>1, <2>2, ViewSame
<1>6. ASSUME NEW k \in Kind, NEW n \in Name
      PROVE  W[c][k][n] = IF new[k][n] = NONE THEN V[c][k][n] ELSE new[k][n]
  <2> DEFINE f == Says(scopes', chain', k, n)
             g == Says(scopes, chain, k, n)
  <2>1. W[c][k][n] = LastOf(f, c) /\ V[c][k][n] = LastOf(g, c)
    BY <1>1, <1>2 DEF View
  <2>2. f[c] = IF new[k][n] = NONE THEN g[c] ELSE new[k][n]
    BY <1>1, <1>2, <1>4 DEF Says
  <2>3. \A j \in 1..c : j < c => f[j] = g[j]
    BY <1>1, <1>2, <1>3 DEF Says
  <2> HIDE DEF f, g, V, W
  <2>4. CASE new[k][n] = NONE
    <3>1. \A j \in 1..c : f[j] = g[j]
      <4>1. \A j \in 1..c : j < c \/ j = c
        BY <1>1
      <4> QED
        BY <2>2, <2>3, <2>4, <4>1
    <3>2. LastOf(f, c) = LastOf(g, c)
      BY <1>1, <3>1, LastSame
    <3> QED
      BY <2>1, <2>4, <3>2
  <2>5. CASE new[k][n] # NONE
    <3>1. LastOf(f, c) = f[c]
      BY <1>1, <2>2, <2>5, LastHit
    <3> QED
      BY <2>1, <2>2, <2>5, <3>1
  <2> QED
    BY <2>4, <2>5
<1>7. W[c] = [k \in Kind |-> [n \in Name |-> W[c][k][n]]]
  <2>1. c \in DOMAIN chain'
    BY <1>1, <1>2
  <2>2. W[c] = [k \in Kind |-> [n \in Name |-> LastOf(Says(scopes', chain', k, n), c)]]
    BY <2>1 DEF View
  <2> HIDE DEF W
  <2> QED
    BY <2>2
<1>8. V = [i \in 1..c |-> V[i]] /\ W = [i \in 1..c |-> W[i]]
  BY <1>1, <1>2 DEF View
<1> HIDE DEF V, W
<1>9. W[c] = Over(V[c], new)
  BY <1>6, <1>7 DEF Over
<1>10. W = [V EXCEPT ![c] = Over(@, new)]
  BY <1>1, <1>5, <1>8, <1>9
<1> QED
  BY <1>10 DEF V, W, c

(* In a new symbol table nothing is visible. *)
LEMMA InitAbstract == Init => Abstract!Init
<1> SUFFICES ASSUME Init PROVE Abstract!Init
  OBVIOUS
<1>1. chain = <<1>> /\ scopes = <<EmptyScope>> /\ DOMAIN chain = 1..1
  BY DEF Init
<1>2. ASSUME NEW i \in 1..1, NEW k \in Kind, NEW n \in Name
      PROVE  ResolveIn(SubSeq(chain, 1, i), k, n) = NONE
  <2> DEFINE q == SubSeq(chain, 1, i)
  <2>1. DOMAIN q = 1..1 /\ q[1] = 1
    <3>1. i = 1 /\ chain \in Seq(Nat) /\ Len(chain) = 1 /\ chain[1] = 1
      BY <1>1
    <3> QED
      BY <3>1
  <2> HIDE DEF q
  <2>2. \A j \in DOMAIN q : scopes[q[j]][k][n] = NONE
    BY <1>1, <2>1 DEF EmptyScope
  <2>3. ResolveIn(q, k, n) = NONE
    BY <2>2 DEF ResolveIn
  <2> QED
    BY <2>3 DEF q
<1>3. envs = [i \in 1..1 |-> EmptyScope]
  BY <1>1, <1>2 DEF envs, EmptyScope
<1>4. envs = <<EmptyScope>>
  BY <1>3
<1> QED
  BY <1>4 DEF Init, Abstract!Init, Abstract!Nothing, EmptyScope, envs

(* Every step of the symbol table is a step of block structure. *)
LEMMA StepAbstract == IInv /\ [Next]_stab => [Abstract!Next]_(Abstract!vars)
<1> SUFFICES ASSUME IInv, [Next]_stab PROVE [Abstract!Next]_(Abstract!vars)
  OBVIOUS
<1>1. IInv'
  BY NextIInv
<1>2. envs = View(scopes, chain) /\ envs' = View(scopes', chain')
  BY <1>1, EnvsView
<1>3. /\ Len(chain) \in Nat \ {0} /\ DOMAIN chain = 1..Len(chain)
      /\ envs = [i \in 1..Len(chain) |-> envs[i]] /\ Len(envs) = Len(chain)
  <2>1. Len(chain) \in Nat \ {0} /\ DOMAIN chain = 1..Len(chain)
    BY ChainFacts
  <2>2. envs = [i \in 1..Len(chain) |-> envs[i]]
    BY <2>1 DEF envs
  <2> QED
    BY <2>1, <2>2
<1>4. CASE Enter
  <2>1. envs' = Append(envs, envs[Len(envs)])
    BY <1>1, <1>2, <1>3, <1>4, EnterView
  <2>2. Abstract!Enter
    BY <1>4, <2>1 DEF Enter, Abstract!Enter, Abstract!Nothing, EmptyScope, envs
  <2> QED
    BY <2>2 DEF Abstract!Next
<1>5. CASE Leave
  <2>1. envs' = SubSeq(envs, 1, Len(envs) - 1)
    BY <1>1, <1>2, <1>3, <1>5, LeaveView
  <2>2. Len(envs) > 1
    BY <1>3, <1>5 DEF Leave
  <2>3. Abstract!Leave
    BY <1>5, <2>1, <2>2 DEF Leave, Abstract!Leave, Abstract!Nothing, EmptyScope, envs
  <2> QED
    BY <2>3 DEF Abstract!Next
<1>6. CASE \E new \in Env : Declares(new)
  <2>1. PICK new \in Env : Declares(new)
    BY <1>6
  <2>2. envs' = [envs EXCEPT ![Len(envs)] = Over(@, new)]
    BY <1>1, <1>2, <1>3, <2>1, DeclareView
  <2>3. declared' = new /\ phase = "ready" /\ phase' = phase
    BY <2>1 DEF Declares, Bind
  <2>4. declared' \in Abstract!Env
    BY <2>1, <2>3 DEF Env, Abstract!Env
  <2>5. envs' = [envs EXCEPT ![Len(envs)] = Abstract!Over(@, declared')]
    BY <2>2, <2>3 DEF Over, Abstract!Over
  <2>6. Abstract!Declare
    BY <2>3, <2>4, <2>5 DEF Abstract!Declare, envs
  <2> QED
    BY <2>6 DEF Abstract!Next
<1>7. CASE Stops
  <2>1. envs' = envs
    BY <1>2, <1>7 DEF Stops
  <2>2. Abstract!Stop
    BY <1>7, <2>1 DEF Stops, Abstract!Stop, envs
  <2> QED
    BY <2>2 DEF Abstract!Next
<1>8. CASE UNCHANGED stab
  <2>1. envs' = envs
    BY <1>2, <1>8 DEF stab
  <2> QED
    BY <1>8, <2>1 DEF stab, Abstract!vars, envs
<1> QED
  BY <1>4, <1>5, <1>6, <1>7, <1>8, StepKinds

(* The symbol table implements ShadowStacks: a name means what block       *)
(* structure says it means, and leaving a scope gives back every meaning   *)
(* that was visible before it was entered.                                 *)
THEOREM SymbolTableImplementsShadowStacks == Spec => ImplementsShadowStacks
  BY InitAbstract, StepAbstract, SymbolTableIInv, PTL DEF Spec, ImplementsShadowStacks, Abstract!Spec
=============================================================================
