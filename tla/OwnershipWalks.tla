--------------------------- MODULE OwnershipWalks ---------------------------
(***************************************************************************)
(* The lemmas about Ownership that the proof of its invariants rests on:   *)
(* what is in the heap and who owns it, and that the steps on the heap,    *)
(* the walk of the analysis and that of the destructors keep the memory in *)
(* order. The parser and the theorems are in OwnershipProofs.              *)
(***************************************************************************)
EXTENDS Ownership, TLAPS

-----------------------------------------------------------------------------
(* What is in the heap *)

Tagged(v, tag) == v \in Alive /\ heap[v].tag = tag
IsString(v) == v \in Alive => heap[v].tag = "string"

Records == heap = [a \in Alive |-> Node(heap[a].tag, heap[a].kids)]

(* What the parser knows of a value on its stack, from the symbol that     *)
(* left it there.                                                          *)
Kind == {"operator", "ref", "string", "names", "type", "result", "field", "decls",
         "fields", "formals", "list", "path", "function"}
Types == {"TYPE_INTEGER", "TYPE_ARRAY", "TYPE_POINTER", "TYPE_REF", "TYPE_RECORD"}
IsType(v) == v \in Alive /\ heap[v].tag \in Types
ListOf(v, tag) == /\ Tagged(v, "free_*")
                  /\ \A i \in DOMAIN KidsOf(v) : Tagged(KidsOf(v)[i], tag)
Is(v, kind) ==
  \/ kind = "operator" /\ v = OPERATOR
  \/ kind = "ref" /\ v \in References
  \/ kind = "string" /\ v \in Address /\ IsString(v)
  \/ kind = "names" /\ Tagged(v, "free")
  \/ kind = "type" /\ IsType(v)
  \/ kind = "result" /\ (v = NULL \/ IsType(v))
  \/ kind = "field" /\ Tagged(v, "record_field")
  \/ kind = "decls" /\ Tagged(v, "decls")
  \/ kind = "fields" /\ ListOf(v, "record_field")
  \/ kind = "formals" /\ ListOf(v, "decls")
  \/ kind = "list" /\ Tagged(v, "free_*")
  \/ kind = "path" /\ Tagged(v, "path")
  \/ kind = "function" /\ Tagged(v, "TYPE_FUNCTION")

(* The fields of the nodes that analysis and destructors look into. *)
Layouts ==
  {<<"program", <<"string", "names", "list", "list", "list", "ref">>>>,
   <<"subdecl", <<"string", "function", "list", "list", "list", "ref">>>>,
   <<"TYPE_FUNCTION", <<"formals", "result">>>>,
   <<"decls", <<"names", "type">>>>,
   <<"EXPR_APP", <<"path", "list">>>>,
   <<"type_decl", <<"string", "type">>>>,
   <<"TYPE_POINTER", <<"type">>>>,
   <<"TYPE_ARRAY", <<"string", "string", "type">>>>,
   <<"TYPE_RECORD", <<"fields">>>>,
   <<"record_field", <<"string", "type">>>>,
   <<"STMT_FOR", <<"string", "ref", "ref", "ref">>>>}
Fields(values, kinds) ==
  Len(values) = Len(kinds) /\ \A i \in 1..Len(kinds) : Is(values[i], kinds[i])
Shaped(a) ==
  /\ heap[a].tag = "string" => KidsOf(a) = <<>>
  /\ heap[a].tag = "free" => \A i \in DOMAIN KidsOf(a) : Is(KidsOf(a)[i], "string")
  /\ \A layout \in Layouts : heap[a].tag = layout[1] => Fields(KidsOf(a), layout[2])

(* A destructor has released the fields and is about to free the node. *)
Emptied(a) ==
  KidsOf(a) = <<>> /\ \E i \in DOMAIN todo : todo[i][1] = "free" /\ todo[i][2] = a
Shape == \A a \in Alive : Emptied(a) \/ Shaped(a)

(* OneOwner, said of every state on the way: only a string that a type     *)
(* declaration or a FOR shares may have two owners, or dangle.             *)
Owned ==
  /\ \A p, q \in Owners : Held(p) = Held(q) /\ p # q => causes # {} /\ IsString(Held(p))
  /\ \A p \in Owners : Held(p) \in Address /\ (causes = {} => Held(p) \in Alive)
  /\ \A a \in Alive : \E p \in Owners : Held(p) = a

(* No pointers lead in a circle: of any nodes, one is not a field of the   *)
(* others or of itself.                                                    *)
Into(a, S) == \E b \in S : \E i \in DOMAIN KidsOf(b) : KidsOf(b)[i] = a
GroundedOn(A) == \A S \in SUBSET A : S # {} => \E a \in S : ~Into(a, S)
Grounded == GroundedOn(Alive)

-----------------------------------------------------------------------------
(* Parsing: what the values on the stack are, from the work ahead. *)

IsSeq(s) == \E S : s \in Seq(S)

(* What a symbol leaves on the stack. *)
Yields(symbol, kind) ==
  \/ symbol \in {"optional_identifier_list", "identifier_list"} /\ kind = "names"
  \/ symbol \in {"type_declarations", "declarations", "subprogram_declarations",
                 "expression_list"} /\ kind = "list"
  \/ symbol = "standard_type" /\ kind \in {"type", "result"}
  \/ symbol = "type" /\ kind = "type"
  \/ symbol = "arguments" /\ kind = "formals"
  \/ symbol = "parameter" /\ kind = "decls"
  \/ symbol = "path" /\ kind = "path"
  \/ symbol \in {"subprogram_declaration", "compound_statement", "statement", "lvalue",
                 "expression"} /\ kind = "ref"

(* What a constructor takes, and what it makes of it. *)
Builds(tag, kinds, kind) ==
  \/ tag = "free" /\ kinds \in {<<>>, <<"string">>} /\ kind = "names"
  \/ tag = "free_*" /\ kinds = <<>> /\ kind \in {"list", "fields", "formals"}
  \/ tag = "free_*" /\ kinds = <<"decls">> /\ kind = "formals"
  \/ tag = "free_*" /\ kinds = <<"ref">> /\ kind = "list"
  \/ tag = "path" /\ kinds = <<"string">> /\ kind = "path"
  \/ tag = "decls" /\ kinds = <<"names", "type">> /\ kind \in {"decls", "ref"}
  \/ tag = "type_decl" /\ kinds = <<"string", "type">> /\ kind = "ref"
  \/ tag = "record_field" /\ kinds = <<"string", "type">> /\ kind = "field"
  \/ /\ kind \in {"type", "result"}
     /\ \/ tag = "TYPE_INTEGER" /\ kinds = <<>>
        \/ tag = "TYPE_ARRAY" /\ kinds = <<"string", "string", "type">>
        \/ tag = "TYPE_POINTER" /\ kinds = <<"type">>
        \/ tag = "TYPE_REF" /\ kinds = <<"string">>
        \/ tag = "TYPE_RECORD" /\ kinds = <<"fields">>
  \/ /\ kind = "ref"
     /\ \/ tag = "STMT_STMTS" /\ kinds = <<"list">>
        \/ tag \in {"STMT_ASSIGN", "STMT_WDO"} /\ kinds = <<"ref", "ref">>
        \/ tag = "STMT_PROC" /\ kinds \in {<<"path", "names">>, <<"path", "list">>}
        \/ tag = "STMT_ITE" /\ kinds = <<"ref", "ref", "ref">>
        \/ tag = "STMT_FOR" /\ kinds = <<"string", "ref", "ref", "ref">>
        \/ tag = "EXPR_PATH" /\ kinds = <<"path">>
        \/ tag = "EXPR_IDX" /\ kinds = <<"path", "ref">>
        \/ tag \in {"EXPR_DEREF", "EXPR_ADDROF", "EXPR_UN"} /\ kinds = <<"ref">>
        \/ tag = "EXPR_BIN" /\ kinds = <<"ref", "operator", "ref">>
        \/ tag = "EXPR_UN" /\ kinds = <<"operator", "ref">>
        \/ tag = "EXPR_APP" /\ kinds = <<"path", "list">>
        \/ tag = "EXPR_LIT" /\ kinds = <<"string">>

(* The lists that grow, and their elements. *)
Adds(list, element) ==
  \/ list \in {"names", "path"} /\ element = "string"
  \/ list = "list" /\ element = "ref"
  \/ list = "fields" /\ element = "field"
  \/ list = "formals" /\ element = "decls"

(* What is done any number of times makes one element. *)
Repeats(work, list) ==
  \/ work = <<Token>> /\ list \in {"names", "path"}
  \/ work = <<Token, Parse("type"), Expect, Build("type_decl", 2)>> /\ list = "list"
  \/ work = <<Parse("identifier_list"), Parse("type"), Expect, Build("decls", 2)>> /\ list = "list"
  \/ work = <<Token, Parse("type"), Expect, Build("record_field", 2)>> /\ list = "fields"
  \/ work = <<Parse("parameter")>> /\ list = "formals"
  \/ /\ work \in {<<Parse("subprogram_declaration"), Expect>>, <<Parse("statement")>>,
                   <<Parse("expression")>>}
     /\ list = "list"

ProgramKinds == <<"string", "names", "list", "list", "list", "ref">>
SubprogramKinds == <<"string", "formals", "result", "list", "list", "list", "ref">>

(* What a task makes of a stack of kinds. *)
Stack == Seq(Kind)
Step(task, s, t) ==
  /\ s \in Stack /\ t \in Stack
  /\ \/ task = Token /\ t = Append(s, "string")
     \/ task = Expect /\ t = s
     \/ task = Null /\ t \in {Append(s, "ref"), Append(s, "result")}
     \/ task = Operator /\ t = Append(s, "operator")
     \/ \E symbol, kind : task = Parse(symbol) /\ Yields(symbol, kind) /\ t = Append(s, kind)
     \/ \E tag, kinds, kind : \E r \in Stack :
          /\ task = Build(tag, Len(kinds)) /\ Builds(tag, kinds, kind)
          /\ s = r \o kinds /\ t = Append(r, kind)
     \/ \E list, element : \E r \in Stack :
          /\ task = Add /\ Adds(list, element)
          /\ s = r \o <<list, element>> /\ t = Append(r, list)
     \/ \E work, list : \E r \in Stack :
          task = More(work) /\ Repeats(work, list) /\ s = Append(r, list) /\ t = s
     \/ \E r \in Stack :
          task = <<"build subprogram">> /\ s = r \o SubprogramKinds /\ t = Append(r, "ref")

(* What a list of tasks makes of it. *)
Run(work, s, t) ==
  \E g : /\ g[1] = s /\ g[Len(work) + 1] = t
        /\ \A i \in 1..Len(work) : Step(work[i], g[i], g[i + 1])

(* After the program's rule there is a program to accept. *)
ACCEPT == <<"accept">>
END == <<"end">>
ParsingIs(w, s) ==
  /\ IsSeq(w) /\ s \in Stack /\ todo = w \o <<ACCEPT, END>>
  /\ Run(w, s, ProgramKinds) /\ Fields(vals, s)
Parsing ==
  /\ st = NULL /\ causes = {}
  /\ \/ program # NULL /\ vals = <<>> /\ todo = <<END>>
     \/ /\ program = NULL /\ \A a \in Alive : heap[a].tag # "program"
        /\ \/ vals = <<>> /\ todo = <<Parse("program"), END>>
           \/ \E w, s : ParsingIs(w, s)

-----------------------------------------------------------------------------
(* The other stages of compile_input *)

(* DUMP_TOKENS: at most one string, which is printed and freed. *)
Rests == {<<<<"return">>>>, <<Parse("program"), <<"end">>>>}
Dumping ==
  /\ vals = <<>> /\ program = NULL /\ st = NULL /\ causes = {}
  /\ \A a \in Alive : heap[a].tag = "string"
  /\ \E rest \in Rests :
       \/ todo = <<<<"lex">>>> \o rest
       \/ \E a \in Alive :
            /\ heap[a].tag = "string"
            /\ todo \in {<<<<"use", a>>, <<"free", a>>, <<"lex">>>> \o rest,
                         <<<<"free", a>>, <<"lex">>>> \o rest}

(* The tree has the addresses up to its root.  It stays as it is while it  *)
(* is printed and analyzed, for what is freed lies above.                  *)
Rooted ==
  program # NULL =>
    /\ Tagged(program, "program")
    /\ \A a \in Alive : a <= program => \A i \in DOMAIN KidsOf(a) : KidsOf(a)[i] <= program
    /\ \A a \in Alive : heap[a].tag = "program" => a >= program
    /\ st # NULL => st > program
Stabbed == st # NULL => Tagged(st, "stab")

Apart(v) == v = NULL \/ v > program \/ (causes # {} /\ IsString(v))
Borrows == {"print", "use", "analyze", "import", "add var", "formals"}
Borrowing(task) == task[1] \in Borrows
Good(task) ==
  \/ /\ task[1] \in {"free", "free node"} /\ task[2] \in References
     /\ task[1] = "free" /\ task[2] \in Alive => KidsOf(task[2]) = <<>>
     /\ program # NULL => Apart(task[2])
     /\ program # NULL /\ task[1] = "free node" /\ task[2] \in Alive =>
          \A i \in DOMAIN KidsOf(task[2]) :
            Is(KidsOf(task[2])[i], "string") /\ Apart(KidsOf(task[2])[i])
  \/ /\ task[1] = "resolve" /\ program # NULL
     /\ Is(task[2], "string") /\ Apart(task[2])
     /\ Is(task[3], "result") /\ task[3] <= program
  \/ /\ Borrowing(task) /\ program # NULL /\ task[2] \in 0..program
     /\ causes = {} /\ task[2] # NULL => task[2] \in Alive
     /\ task[1] = "formals" /\ task[2] \in Alive => heap[task[2]].tag = "decls"

(* The tasks of the analysis need the symbol table, which it begins by     *)
(* making. *)
Analyzing(task) ==
  task[1] \in {"use", "analyze", "import", "add var", "formals", "resolve"}
FP == <<"free_program">>
SF == <<"stab_free">>
RET == <<"return">>
Ends == {<<FP, RET>>, <<FP, SF, RET>>, <<SF, RET>>, <<RET>>}
Ordered(w, tail) ==
  \A i \in 1..Len(w) :
    /\ Good(w[i])
    /\ Analyzing(w[i]) =>
         /\ tail = <<FP, SF, RET>>
         /\ IF st = NULL THEN i = Len(w) /\ w[i] = <<"analyze", program>>
                         ELSE w[i][1] = "analyze" => w[i][2] # program
Ending(tail) ==
  /\ tail \in Ends
  /\ program # NULL => tail \in {<<FP, RET>>, <<FP, SF, RET>>}
  /\ st # NULL => tail \in {<<FP, SF, RET>>, <<SF, RET>>}
Later ==
  /\ vals = <<>>
  /\ \E w, tail : IsSeq(w) /\ todo = w \o tail /\ Ending(tail) /\ Ordered(w, tail)

Shares == {"type declaration", "FOR", "unknown type"}
Memory ==
  /\ TypeOK /\ Records /\ Shape /\ Owned /\ Grounded /\ Rooted /\ Stabbed
  /\ causes \subseteq Shares
Sound ==
  /\ TypeOK /\ NoMisuse
  /\ phase = "run" => Memory /\ (Dumping \/ Parsing \/ Later)
  /\ phase = "done" => Memory /\ vals = <<>> /\ todo = <<>> /\ program = NULL /\ st = NULL

-----------------------------------------------------------------------------
(* Places *)

PlaceLaws ==
  /\ \A i : <<"value", i, 0>> \in Places <=> i \in DOMAIN vals
  /\ \A i : <<"call", i, 0>> \in Places
            <=> \E j \in DOMAIN todo : Releasing(todo[j]) /\ i = Len(todo) - j
  /\ \A a, i : <<"field", a, i>> \in Places <=> a \in Alive /\ i \in DOMAIN KidsOf(a)
  /\ <<"program", 0, 0>> \in Places /\ <<"st", 0, 0>> \in Places
  /\ \A i : Held(<<"value", i, 0>>) = vals[i]
  /\ \A i : Held(<<"call", i, 0>>) = todo[Len(todo) - i][2]
  /\ \A a, i : Held(<<"field", a, i>>) = KidsOf(a)[i]
  /\ Held(<<"program", 0, 0>>) = program /\ Held(<<"st", 0, 0>>) = st
  /\ \A p \in Places :
       \/ \E i \in DOMAIN vals : p = <<"value", i, 0>>
       \/ \E j \in DOMAIN todo : Releasing(todo[j]) /\ p = <<"call", Len(todo) - j, 0>>
       \/ \E a \in Alive : \E i \in DOMAIN KidsOf(a) : p = <<"field", a, i>>
       \/ p = <<"program", 0, 0>> \/ p = <<"st", 0, 0>>
  /\ \A p : p \in Owners <=> p \in Places /\ Held(p) > 0
LEMMA PlaceFacts == PlaceLaws
<1>1. \A i : <<"value", i, 0>> \in Places <=> i \in DOMAIN vals
  BY DEF Places
<1>2. \A i : <<"call", i, 0>> \in Places
            <=> \E j \in DOMAIN todo : Releasing(todo[j]) /\ i = Len(todo) - j
  BY DEF Places
<1>3. \A a, i : <<"field", a, i>> \in Places <=> a \in Alive /\ i \in DOMAIN KidsOf(a)
  BY DEF Places
<1>4. <<"program", 0, 0>> \in Places /\ <<"st", 0, 0>> \in Places
  BY DEF Places
<1>5. /\ \A i : Held(<<"value", i, 0>>) = vals[i]
      /\ \A i : Held(<<"call", i, 0>>) = todo[Len(todo) - i][2]
      /\ \A a, i : Held(<<"field", a, i>>) = KidsOf(a)[i]
      /\ Held(<<"program", 0, 0>>) = program /\ Held(<<"st", 0, 0>>) = st
  BY DEF Held
<1>6. \A p \in Places :
       \/ \E i \in DOMAIN vals : p = <<"value", i, 0>>
       \/ \E j \in DOMAIN todo : Releasing(todo[j]) /\ p = <<"call", Len(todo) - j, 0>>
       \/ \E a \in Alive : \E i \in DOMAIN KidsOf(a) : p = <<"field", a, i>>
       \/ p = <<"program", 0, 0>> \/ p = <<"st", 0, 0>>
  BY DEF Places
<1>7. \A p : p \in Owners <=> p \in Places /\ Held(p) > 0
  BY DEF Owners
<1> QED
  BY <1>1, <1>2, <1>3, <1>4, <1>5, <1>6, <1>7 DEF PlaceLaws

LEMMA PlaceFactsPrime ==
  /\ \A i : (<<"value", i, 0>> \in Places)' <=> i \in DOMAIN vals'
  /\ \A i : (<<"call", i, 0>> \in Places)'
            <=> \E j \in DOMAIN todo' : Releasing(todo'[j]) /\ i = Len(todo') - j
  /\ \A a, i : (<<"field", a, i>> \in Places)' <=> a \in Alive' /\ i \in DOMAIN heap'[a].kids
  /\ <<"program", 0, 0>> \in Places' /\ <<"st", 0, 0>> \in Places'
  /\ \A i : Held(<<"value", i, 0>>)' = vals'[i]
  /\ \A i : Held(<<"call", i, 0>>)' = todo'[Len(todo') - i][2]
  /\ \A a, i : Held(<<"field", a, i>>)' = heap'[a].kids[i]
  /\ Held(<<"program", 0, 0>>)' = program' /\ Held(<<"st", 0, 0>>)' = st'
  /\ \A p \in Places' :
       \/ \E i \in DOMAIN vals' : p = <<"value", i, 0>>
       \/ \E j \in DOMAIN todo' : Releasing(todo'[j]) /\ p = <<"call", Len(todo') - j, 0>>
       \/ \E a \in Alive' : \E i \in DOMAIN heap'[a].kids : p = <<"field", a, i>>
       \/ p = <<"program", 0, 0>> \/ p = <<"st", 0, 0>>
  /\ \A p : p \in Owners' <=> p \in Places' /\ Held(p)' > 0
<1>1. PlaceLaws'
  BY PlaceFacts, PTL
<1> QED
  BY <1>1 DEF PlaceLaws, KidsOf, Releasing

-----------------------------------------------------------------------------
(* What a step does to owners, kinds and circles *)

(* Pointers leave the places R and come to the places G; the others stay   *)
(* where they are.                                                         *)
LEMMA Transfer ==
  ASSUME Owned, NEW R, NEW G,
         fresh \in Nat, fresh' \in Nat, fresh <= fresh',
         Alive \subseteq Address, Alive' \subseteq Address', causes \subseteq causes',
         \A a \in Alive' : a <= fresh => a \in Alive /\ heap'[a].tag = heap[a].tag,
         \A p \in Owners' \ G : p \in Owners \ R /\ Held(p)' = Held(p),
         \A p \in Owners \ R : p \in Owners' /\ Held(p)' = Held(p),
         \A p \in G \cap Owners' :
           \/ Held(p)' \in Alive' /\ Held(p)' > fresh
           \/ \E r \in R \cap Owners : Held(r) = Held(p)'
           \/ causes' # {} /\ IsString(Held(p))' /\ Held(p)' \in Address,
         \A p, q \in G \cap Owners' :
           Held(p)' = Held(q)' /\ p # q => causes' # {} /\ IsString(Held(p))',
         \A a \in Alive' : \/ \E p \in G \cap Owners' : Held(p)' = a
                           \/ a \in Alive /\ \A r \in R \cap Owners : Held(r) # a,
         \A a \in Alive \ Alive' : /\ \E r \in R \cap Owners : Held(r) = a
                                   /\ \A p \in G \cap Owners' : Held(p)' # a
  PROVE  Owned'
<1> DEFINE H(p) == Held(p)'
           Shared(v) == v \in Alive' => heap'[v].tag = "string"
<1>1. \A v : v <= fresh /\ IsString(v) => Shared(v)
  BY DEF IsString, Address
<1>2. \A p \in Owners : Held(p) \in Address /\ (causes = {} => Held(p) \in Alive)
  BY DEF Owned
<1>3. \A p, q \in Owners : Held(p) = Held(q) /\ p # q => causes # {} /\ IsString(Held(p))
  BY DEF Owned
<1>4. \A p \in Owners' : H(p) \in 1..fresh' /\ (causes' = {} => H(p) \in Alive')
  <2> SUFFICES ASSUME NEW p \in Owners'
               PROVE  H(p) \in 1..fresh' /\ (causes' = {} => H(p) \in Alive')
    OBVIOUS
  <2>1. CASE p \notin G
    <3>1. p \in Owners \ R /\ H(p) = Held(p)
      BY <2>1
    <3>2. H(p) \in 1..fresh'
      BY <3>1, <1>2 DEF Address
    <3>3. ASSUME causes' = {}, H(p) \notin Alive'
          PROVE  FALSE
      <4>1. causes = {} /\ Held(p) \in Alive \ Alive'
        BY <3>1, <3>3, <1>2
      <4>2. PICK r \in R \cap Owners : Held(r) = Held(p)
        BY <4>1
      <4>3. r # p
        BY <3>1
      <4> QED
        BY <4>1, <4>2, <4>3, <3>1, <1>3
    <3> QED
      BY <3>2, <3>3
  <2>2. CASE p \in G
    <3>1. CASE H(p) \in Alive' /\ H(p) > fresh
      BY <3>1 DEF Address
    <3>2. CASE \E r \in R \cap Owners : Held(r) = H(p)
      <4>1. PICK r \in R \cap Owners : Held(r) = H(p)
        BY <3>2
      <4>2. H(p) \in 1..fresh' /\ (causes = {} => H(p) \in Alive)
        BY <4>1, <1>2 DEF Address
      <4>3. H(p) \in Alive => H(p) \in Alive'
        BY <2>2
      <4> QED
        BY <4>2, <4>3
    <3>3. CASE causes' # {} /\ Shared(H(p)) /\ H(p) \in Address
      BY <3>3 DEF Address
    <3> QED
      BY <3>1, <3>2, <3>3, <2>2 DEF IsString
  <2> QED
    BY <2>1, <2>2
<1>5. ASSUME NEW p \in Owners', NEW q \in Owners', H(p) = H(q), p # q
      PROVE  causes' # {} /\ Shared(H(p))
  <2>1. ASSUME NEW x \in Owners', NEW y \in Owners', H(x) = H(y), x # y, x \notin G, y \in G
        PROVE  causes' # {} /\ Shared(H(x))
    <3>1. x \in Owners \ R /\ H(x) = Held(x) /\ H(x) \in 1..fresh
      BY <2>1, <1>2 DEF Address
    <3>2. CASE \E r \in R \cap Owners : Held(r) = H(y)
      <4>1. PICK r \in R \cap Owners : Held(r) = H(y)
        BY <3>2
      <4>2. causes # {} /\ IsString(Held(x))
        BY <4>1, <3>1, <2>1, <1>3
      <4> QED
        BY <4>2, <3>1, <1>1
    <3>3. CASE causes' # {} /\ Shared(H(y))
      BY <3>3, <2>1
    <3>4. ~(H(y) > fresh)
      BY <3>1, <2>1
    <3> QED
      BY <3>2, <3>3, <3>4, <2>1 DEF IsString
  <2>2. CASE p \notin G /\ q \notin G
    <3>1. p \in Owners /\ q \in Owners /\ Held(p) = Held(q) /\ H(p) = Held(p)
      BY <2>2, <1>5
    <3>2. causes # {} /\ IsString(Held(p)) /\ Held(p) \in Address
      BY <3>1, <1>5, <1>3, <1>2
    <3> QED
      BY <3>1, <3>2, <1>1 DEF Address
  <2>3. CASE p \in G /\ q \in G
    BY <2>3, <1>5 DEF IsString
  <2> QED
    BY <2>1, <2>2, <2>3, <1>5
<1>6. ASSUME NEW a \in Alive'
      PROVE  \E p \in Owners' : H(p) = a
  <2>1. CASE \E p \in G \cap Owners' : H(p) = a
    BY <2>1
  <2>2. CASE a \in Alive /\ \A r \in R \cap Owners : Held(r) # a
    <3>1. PICK p \in Owners : Held(p) = a
      BY <2>2 DEF Owned
    <3> QED
      BY <3>1, <2>2
  <2> QED
    BY <2>1, <2>2
<1> QED
  BY <1>4, <1>5, <1>6 DEF Owned, IsString, Address

(* A kind says nothing of what a step may change: the tag of a node stays, *)
(* and of the nodes looked into only strings may go.                       *)
LEMMA IsKept ==
  ASSUME NEW v, NEW kind, Is(v, kind),
         fresh \in Nat, fresh' \in Nat, fresh <= fresh', Alive \subseteq Address,
         \A a \in Alive' : a <= fresh => a \in Alive /\ heap'[a].tag = heap[a].tag,
         v \in Alive /\ heap[v].tag # "string" => v \in Alive',
         Tagged(v, "free_*") =>
           \A i \in DOMAIN heap'[v].kids :
             \E j \in DOMAIN KidsOf(v) :
               /\ heap'[v].kids[i] = KidsOf(v)[j]
               /\ KidsOf(v)[j] \in Alive /\ heap[KidsOf(v)[j]].tag # "string"
                     => KidsOf(v)[j] \in Alive'
  PROVE  Is(v, kind)'
<1>1. \A a : a \in Alive => a <= fresh
  BY DEF Address
<1>2. \A tag : Tagged(v, tag) /\ tag # "string" => Tagged(v, tag)'
  BY <1>1 DEF Tagged
<1>3. IsType(v) => IsType(v)'
  BY <1>1 DEF IsType, Types
<1>4. \A tag : ListOf(v, tag) /\ tag # "string" => ListOf(v, tag)'
  <2> SUFFICES ASSUME NEW tag, ListOf(v, tag), tag # "string"
               PROVE  ListOf(v, tag)'
    OBVIOUS
  <2>1. Tagged(v, "free_*") /\ Tagged(v, "free_*")'
    BY <1>2 DEF ListOf
  <2>2. ASSUME NEW i \in DOMAIN heap'[v].kids
        PROVE  Tagged(KidsOf(v)[i], tag)'
    <3>1. PICK j \in DOMAIN KidsOf(v) :
             /\ heap'[v].kids[i] = KidsOf(v)[j]
             /\ KidsOf(v)[j] \in Alive /\ heap[KidsOf(v)[j]].tag # "string"
                   => KidsOf(v)[j] \in Alive'
      BY <2>1, <2>2
    <3>2. Tagged(KidsOf(v)[j], tag)
      BY <2>1 DEF ListOf
    <3> QED
      BY <3>1, <3>2, <1>1 DEF Tagged, KidsOf
  <2> QED
    BY <2>1, <2>2 DEF ListOf, KidsOf
<1>5. v \in Address /\ IsString(v) => (v \in Address /\ IsString(v))'
  BY DEF IsString, Address
<1>6. v \in References => (v \in References)'
  BY DEF References, Address
<1> QED
  BY <1>2, <1>3, <1>4, <1>5, <1>6 DEF Is

(* A node whose fields stay is as well shaped as before. *)
LEMMA ShapedKept ==
  ASSUME NEW a \in Alive, Shaped(a), a \in Alive',
         heap'[a].tag = heap[a].tag, heap'[a].kids = KidsOf(a), KidsOf(a) \in Seq(References),
         \A i \in DOMAIN KidsOf(a), kind \in Kind :
           Is(KidsOf(a)[i], kind) => Is(KidsOf(a)[i], kind)'
  PROVE  Shaped(a)'
<1>1. \A v, kind : Is(v, kind) => kind \in Kind
  BY DEF Is, Kind
<1>2. ASSUME NEW layout \in Layouts, heap[a].tag = layout[1]
      PROVE  Fields(KidsOf(a), layout[2])'
  <2>1. Fields(KidsOf(a), layout[2])
    BY <1>2 DEF Shaped
  <2>2. Len(layout[2]) = Len(KidsOf(a)) /\ DOMAIN KidsOf(a) = 1..Len(KidsOf(a))
    BY <2>1 DEF Fields
  <2> QED
    BY <2>1, <2>2, <1>1 DEF Fields, KidsOf
<1> QED
  BY <1>1, <1>2 DEF Shaped, KidsOf

(* Adding nodes no pointer leads to but from themselves makes no circle if *)
(* there is none among them.                                               *)
LEMMA Layer ==
  ASSUME NEW A, NEW B, GroundedOn(A), \A b \in B : ~Into(b, A \cup B)
  PROVE  GroundedOn(A \cup B)
<1> SUFFICES ASSUME NEW S \in SUBSET (A \cup B), S # {}
             PROVE  \E a \in S : ~Into(a, S)
  BY DEF GroundedOn
<1>1. CASE S \cap B # {}
  <2>1. PICK b \in S \cap B : TRUE
    BY <1>1
  <2> QED
    BY <2>1 DEF Into
<1>2. CASE S \cap B = {}
  BY <1>2 DEF GroundedOn
<1> QED
  BY <1>1, <1>2

LayerLaw == \A A, B : GroundedOn(A) /\ (\A b \in B : ~Into(b, A \cup B)) => GroundedOn(A \cup B)
LEMMA LayerPrime == LayerLaw'
<1>1. LayerLaw
  BY Layer DEF LayerLaw
<1> QED
  BY <1>1, PTL

-----------------------------------------------------------------------------
(* Sequences of tasks *)

LEMMA SeqFacts ==
  /\ IsSeq(<<>>)
  /\ \A s, t : IsSeq(s) /\ IsSeq(t) =>
       /\ IsSeq(s \o t) /\ Len(s \o t) = Len(s) + Len(t)
       /\ \A i \in 1..Len(s) : (s \o t)[i] = s[i]
       /\ \A i \in 1..Len(t) : (s \o t)[Len(s) + i] = t[i]
  /\ \A s : IsSeq(s) => /\ Len(s) \in Nat /\ DOMAIN s = 1..Len(s)
                       /\ s = [i \in 1..Len(s) |-> s[i]] /\ (s = <<>> <=> Len(s) = 0)
  /\ \A s : IsSeq(s) /\ s # <<>> =>
       /\ IsSeq(Tail(s)) /\ Len(Tail(s)) = Len(s) - 1 /\ Len(s) > 0 /\ Head(s) = s[1]
       /\ \A i \in 1..(Len(s) - 1) : Tail(s)[i] = s[i + 1]
<1>1. IsSeq(<<>>)
  BY <<>> \in Seq({}) DEF IsSeq
<1>2. ASSUME NEW s, NEW t, IsSeq(s), IsSeq(t)
      PROVE  /\ IsSeq(s \o t) /\ Len(s \o t) = Len(s) + Len(t)
             /\ \A i \in 1..Len(s) : (s \o t)[i] = s[i]
             /\ \A i \in 1..Len(t) : (s \o t)[Len(s) + i] = t[i]
  <2>1. PICK S, T : s \in Seq(S) /\ t \in Seq(T)
    BY <1>2 DEF IsSeq
  <2>2. s \in Seq(S \cup T) /\ t \in Seq(S \cup T)
    BY <2>1
  <2>3. s \o t \in Seq(S \cup T)
    BY <2>2
  <2> QED
    BY <2>2, <2>3 DEF IsSeq
<1>3. ASSUME NEW s, IsSeq(s)
      PROVE  /\ Len(s) \in Nat /\ DOMAIN s = 1..Len(s)
             /\ s = [i \in 1..Len(s) |-> s[i]] /\ (s = <<>> <=> Len(s) = 0)
  <2>1. PICK S : s \in Seq(S)
    BY <1>3 DEF IsSeq
  <2> QED
    BY <2>1
<1>4. ASSUME NEW s, IsSeq(s), s # <<>>
      PROVE  /\ IsSeq(Tail(s)) /\ Len(Tail(s)) = Len(s) - 1 /\ Len(s) > 0 /\ Head(s) = s[1]
             /\ \A i \in 1..(Len(s) - 1) : Tail(s)[i] = s[i + 1]
  <2>1. PICK S : s \in Seq(S)
    BY <1>4 DEF IsSeq
  <2>2. Tail(s) \in Seq(S)
    BY <2>1, <1>4
  <2> QED
    BY <2>1, <2>2, <1>4 DEF IsSeq
<1> QED
  BY <1>1, <1>2, <1>3, <1>4

LEMMA InEither ==
  ASSUME NEW s, NEW t, IsSeq(s), IsSeq(t), NEW k \in 1..Len(s \o t)
  PROVE  \/ k \in 1..Len(s) /\ (s \o t)[k] = s[k]
         \/ \E j \in 1..Len(t) : k = Len(s) + j /\ (s \o t)[k] = t[j]
<1>1. Len(s \o t) = Len(s) + Len(t) /\ Len(s) \in Nat /\ Len(t) \in Nat
  BY SeqFacts
<1>2. CASE k \in 1..Len(s)
  BY <1>2, SeqFacts
<1>3. CASE k \notin 1..Len(s)
  <2>1. k - Len(s) \in 1..Len(t) /\ k = Len(s) + (k - Len(s))
    BY <1>1, <1>3
  <2>2. \A j \in 1..Len(t) : (s \o t)[Len(s) + j] = t[j]
    BY SeqFacts
  <2> QED
    BY <2>1, <2>2
<1> QED
  BY <1>2, <1>3

LEMMA Joined ==
  ASSUME NEW front, NEW back, IsSeq(front), IsSeq(back)
  PROVE  /\ IsSeq(front \o back) /\ Len(front \o back) = Len(front) + Len(back)
         /\ \A i \in 1..Len(front) : (front \o back)[i] = front[i]
         /\ \A i \in 1..Len(back) : (front \o back)[Len(front) + i] = back[i]
<1>1. IsSeq(front \o back) /\ Len(front \o back) = Len(front) + Len(back)
  BY SeqFacts
<1>2. \A i \in 1..Len(front) : (front \o back)[i] = front[i]
  BY SeqFacts
<1>3. \A i \in 1..Len(back) : (front \o back)[Len(front) + i] = back[i]
  BY SeqFacts
<1> QED
  BY <1>1, <1>2, <1>3

LEMMA PartOf ==
  ASSUME NEW S, NEW s, NEW first \in Int, NEW last \in Int, \A i \in first..last : s[i] \in S
  PROVE  /\ SubSeq(s, first, last) \in Seq(S)
         /\ Len(SubSeq(s, first, last)) = IF first <= last THEN last - first + 1 ELSE 0
         /\ \A i \in 1..(last - first + 1) : SubSeq(s, first, last)[i] = s[first + i - 1]
OBVIOUS

LEMMA SeqOver ==
  ASSUME NEW s, NEW S, IsSeq(s), \A i \in 1..Len(s) : s[i] \in S
  PROVE  s \in Seq(S)
<1>1. PICK T : s \in Seq(T)
  BY DEF IsSeq
<1> QED
  BY <1>1

(* Short sequences are sequences. *)
LEMMA IsSeqShort ==
  /\ \A a : IsSeq(<<a>>) /\ Len(<<a>>) = 1
  /\ \A a, b : IsSeq(<<a, b>>)
  /\ \A a, b, c : IsSeq(<<a, b, c>>)
  /\ \A a, b, c, d : IsSeq(<<a, b, c, d>>)
  /\ \A a, b, c, d, e : IsSeq(<<a, b, c, d, e>>)
<1>1. \A a : <<a>> \in Seq({a}) /\ Len(<<a>>) = 1
  OBVIOUS
<1>2. \A a, b : <<a, b>> \in Seq({a, b})
  OBVIOUS
<1>3. \A a, b, c : <<a, b, c>> \in Seq({a, b, c})
  OBVIOUS
<1>4. \A a, b, c, d : <<a, b, c, d>> \in Seq({a, b, c, d})
  OBVIOUS
<1>5. \A a, b, c, d, e : <<a, b, c, d, e>> \in Seq({a, b, c, d, e})
  OBVIOUS
<1> QED
  BY <1>1, <1>2, <1>3, <1>4, <1>5 DEF IsSeq

LEMMA SeqExtensional ==
  ASSUME NEW s, NEW t, IsSeq(s), IsSeq(t), Len(s) = Len(t), \A i \in 1..Len(s) : s[i] = t[i]
  PROVE  s = t
<1>1. s = [i \in 1..Len(s) |-> s[i]] /\ t = [i \in 1..Len(t) |-> t[i]]
  BY SeqFacts
<1> QED
  BY <1>1

LEMMA Concatenated ==
  /\ \A s : IsSeq(s) => <<>> \o s = s /\ s \o <<>> = s
  /\ \A s, t, u : IsSeq(s) /\ IsSeq(t) /\ IsSeq(u) => (s \o t) \o u = s \o (t \o u)
  /\ \A s, t : IsSeq(s) /\ IsSeq(t) /\ s # <<>> =>
       Head(s \o t) = Head(s) /\ Tail(s \o t) = Tail(s) \o t /\ s \o t # <<>>
<1>1. ASSUME NEW s, IsSeq(s)
      PROVE  <<>> \o s = s /\ s \o <<>> = s
  <2>1. IsSeq(<<>>) /\ Len(<<>>) = 0
    BY SeqFacts
  <2>2. IsSeq(<<>> \o s) /\ IsSeq(s \o <<>>) /\ Len(<<>> \o s) = Len(s) /\ Len(s \o <<>>) = Len(s)
    BY <2>1, <1>1, SeqFacts
  <2>3. \A i \in 1..Len(s) : (<<>> \o s)[i] = s[i] /\ (s \o <<>>)[i] = s[i]
    <3>1. \A i \in 1..Len(s) : (<<>> \o s)[Len(<<>>) + i] = s[i] /\ (s \o <<>>)[i] = s[i]
      BY <1>1, <2>1, SeqFacts
    <3> QED
      BY <3>1, <2>1
  <2> QED
    BY <2>2, <2>3, <1>1, SeqExtensional
<1>2. ASSUME NEW s, NEW t, NEW u, IsSeq(s), IsSeq(t), IsSeq(u)
      PROVE  (s \o t) \o u = s \o (t \o u)
  <2>1. PICK S, T, U : s \in Seq(S) /\ t \in Seq(T) /\ u \in Seq(U)
    BY <1>2 DEF IsSeq
  <2>2. s \in Seq(S \cup T \cup U) /\ t \in Seq(S \cup T \cup U) /\ u \in Seq(S \cup T \cup U)
    BY <2>1
  <2> QED
    BY <2>2
<1>3. ASSUME NEW s, NEW t, IsSeq(s), IsSeq(t), s # <<>>
      PROVE  Head(s \o t) = Head(s) /\ Tail(s \o t) = Tail(s) \o t /\ s \o t # <<>>
  <2>1. PICK S, T : s \in Seq(S) /\ t \in Seq(T)
    BY <1>3 DEF IsSeq
  <2>2. s \in Seq(S \cup T) /\ t \in Seq(S \cup T)
    BY <2>1
  <2> QED
    BY <2>2, <1>3
<1> QED
  BY <1>1, <1>2, <1>3, SMTT(40)

LEMMA Swap == \A n, d, j \in Int : (d = n - j) <=> (j = n - d)
  OBVIOUS

LEMMA ConcatAssociative ==
  ASSUME NEW s, NEW t, NEW u, IsSeq(s), IsSeq(t), IsSeq(u)
  PROVE  (s \o t) \o u = s \o (t \o u)
BY Concatenated

LEMMA CallPlaces ==
  ASSUME IsSeq(todo), todo # <<>>, NEW work, IsSeq(work), Then(work)
  PROVE  /\ IsSeq(todo') /\ Len(todo') = Len(todo) + Len(work) - 1
         /\ \A i \in 1..Len(work) : todo'[i] = work[i]
         /\ \A i \in 2..Len(todo) : todo'[i - 1 + Len(work)] = todo[i]
         /\ \A d \in 0..(Len(todo) - 2) :
              /\ (<<"call", d, 0>> \in Places)' <=> <<"call", d, 0>> \in Places
              /\ Held(<<"call", d, 0>>)' = Held(<<"call", d, 0>>)
         /\ \A i \in 1..Len(work) : \A d : d = Len(todo) + Len(work) - 1 - i =>
              /\ (<<"call", d, 0>> \in Places)' <=> Releasing(work[i])
              /\ Held(<<"call", d, 0>>)' = work[i][2]
         /\ \A d : (<<"call", d, 0>> \in Places)' =>
              \/ d \in 0..(Len(todo) - 2)
              \/ \E i \in 1..Len(work) : Releasing(work[i]) /\ d = Len(todo) + Len(work) - 1 - i
         /\ \A d : <<"call", d, 0>> \in Places =>
              d \in 0..(Len(todo) - 2) \/ (d = Len(todo) - 1 /\ Releasing(Head(todo)))
         /\ \A d : d = Len(todo) - 1 =>
              /\ <<"call", d, 0>> \in Places <=> Releasing(Head(todo))
              /\ Held(<<"call", d, 0>>) = Arg
<1> DEFINE n == Len(todo)
           k == Len(work)
<1>1. /\ n \in Nat /\ n > 0 /\ k \in Nat /\ Head(todo) = todo[1] /\ DOMAIN todo = 1..n
      /\ IsSeq(Tail(todo)) /\ Len(Tail(todo)) = n - 1
      /\ \A i \in 1..(n - 1) : Tail(todo)[i] = todo[i + 1]
  BY SeqFacts
<1>2. todo' = work \o Tail(todo)
  BY DEF Then
<1>3. IsSeq(todo') /\ Len(todo') = k + n - 1 /\ DOMAIN todo' = 1..(k + n - 1)
  BY <1>1, <1>2, SeqFacts
<1>4. \A i \in 1..k : todo'[i] = work[i]
  BY <1>1, <1>2, SeqFacts
<1>a. /\ n = Len(todo) /\ k = Len(work) /\ Len(todo') = k + n - 1
      /\ n \in Nat /\ n > 0 /\ k \in Nat
  BY <1>1, <1>3
<1>b. DOMAIN todo = 1..n /\ Head(todo) = todo[1]
  BY <1>1
<1>c. DOMAIN todo' = 1..(k + n - 1)
  BY <1>3
<1>5. \A i \in 2..n : todo'[i - 1 + k] = todo[i]
  <2>1. \A j \in 1..(n - 1) : todo'[k + j] = todo[j + 1]
    BY <1>1, <1>2, SeqFacts
  <2> TAKE i \in 2..n
  <2>2. i - 1 \in 1..(n - 1) /\ k + (i - 1) = i - 1 + k /\ (i - 1) + 1 = i
    BY <1>1
  <2> QED
    BY <2>1, <2>2
<1> HIDE DEF n, k
<1>6. ASSUME NEW d \in 0..(n - 2)
      PROVE  /\ (<<"call", d, 0>> \in Places)' <=> <<"call", d, 0>> \in Places
             /\ Held(<<"call", d, 0>>)' = Held(<<"call", d, 0>>)
  <2>1. n - d \in 2..n /\ (k + n - 1) - d = (n - d) - 1 + k /\ (k + n - 1) - d \in 1..(k + n - 1)
    BY <1>a
  <2>2. todo'[(k + n - 1) - d] = todo[n - d]
    BY <2>1, <1>5
  <2>3. <<"call", d, 0>> \in Places <=> Releasing(todo[n - d])
    <3>1. <<"call", d, 0>> \in Places <=> \E j \in 1..n : Releasing(todo[j]) /\ d = n - j
      BY <1>a, <1>b, PlaceFacts DEF PlaceLaws
    <3>2. \A j \in 1..n : (d = n - j) <=> (j = n - d)
      BY <1>a, Swap
    <3> QED
      BY <3>1, <3>2, <2>1, <1>a
  <2>4. (<<"call", d, 0>> \in Places)' <=> Releasing(todo'[(k + n - 1) - d])
    <3>1. (<<"call", d, 0>> \in Places)'
          <=> \E j \in 1..(k + n - 1) : Releasing(todo'[j]) /\ d = (k + n - 1) - j
      BY <1>a, <1>c, PlaceFactsPrime
    <3>2. \A j \in 1..(k + n - 1) : (d = (k + n - 1) - j) <=> (j = (k + n - 1) - d)
      BY <1>a, Swap
    <3> QED
      BY <3>1, <3>2, <2>1
  <2>5. Held(<<"call", d, 0>>) = todo[n - d][2] /\ Held(<<"call", d, 0>>)' = todo'[(k + n - 1) - d][2]
    BY <1>a, PlaceFacts, PlaceFactsPrime DEF PlaceLaws
  <2> QED
    BY <2>2, <2>3, <2>4, <2>5
<1>7. ASSUME NEW i \in 1..k, NEW d, d = n + k - 1 - i
      PROVE  /\ (<<"call", d, 0>> \in Places)' <=> Releasing(work[i])
             /\ Held(<<"call", d, 0>>)' = work[i][2]
  <2>1. \A j \in 1..(k + n - 1) : (n + k - 1 - i = (k + n - 1) - j) <=> (j = i)
    BY <1>a
  <2>2. i \in 1..(k + n - 1) /\ (k + n - 1) - (n + k - 1 - i) = i
    BY <1>a
  <2>3. (<<"call", d, 0>> \in Places)' <=> Releasing(todo'[i])
    <3>1. (<<"call", d, 0>> \in Places)'
          <=> \E j \in 1..(k + n - 1) : Releasing(todo'[j]) /\ d = (k + n - 1) - j
      BY <1>a, <1>c, PlaceFactsPrime
    <3> QED
      BY <3>1, <2>1, <2>2, <1>7
  <2>4. Held(<<"call", d, 0>>)' = todo'[(k + n - 1) - d][2]
    BY <1>a, <1>c, PlaceFactsPrime
  <2> QED
    BY <2>2, <2>3, <2>4, <1>4, <1>7
<1>8. ASSUME NEW d, (<<"call", d, 0>> \in Places)'
      PROVE  \/ d \in 0..(n - 2)
             \/ \E i \in 1..k : Releasing(work[i]) /\ d = n + k - 1 - i
  <2>1. PICK j \in 1..(k + n - 1) : Releasing(todo'[j]) /\ d = (k + n - 1) - j
    BY <1>8, <1>a, <1>c, PlaceFactsPrime
  <2>2. CASE j \in 1..k
    BY <2>1, <2>2, <1>4, <1>a
  <2>3. CASE j \notin 1..k
    BY <2>1, <2>3, <1>a
  <2> QED
    BY <2>2, <2>3
<1>9. ASSUME NEW d, <<"call", d, 0>> \in Places
      PROVE  d \in 0..(n - 2) \/ (d = n - 1 /\ Releasing(Head(todo)))
  <2>1. PICK j \in 1..n : Releasing(todo[j]) /\ d = n - j
    BY <1>9, <1>a, <1>b, PlaceFacts DEF PlaceLaws
  <2> QED
    BY <2>1, <1>a, <1>b
<1>10. ASSUME NEW d, d = n - 1
       PROVE  /\ <<"call", d, 0>> \in Places <=> Releasing(Head(todo))
              /\ Held(<<"call", d, 0>>) = Arg
  <2>1. \A j \in 1..n : (n - 1 = n - j) <=> (j = 1)
    BY <1>a
  <2>2. <<"call", d, 0>> \in Places <=> \E j \in 1..n : Releasing(todo[j]) /\ d = n - j
    BY <1>a, <1>b, PlaceFacts DEF PlaceLaws
  <2>3. Held(<<"call", d, 0>>) = todo[n - d][2] /\ n - d = 1
    BY <1>a, <1>10, PlaceFacts DEF PlaceLaws
  <2>4. <<"call", d, 0>> \in Places <=> Releasing(todo[1])
    BY <2>1, <2>2, <1>a, <1>10
  <2>5. Held(<<"call", d, 0>>) = Arg
    <3>1. Held(<<"call", d, 0>>) = todo[1][2]
      BY <2>3
    <3>2. Head(todo) = todo[1]
      BY <1>1
    <3> QED
      BY <3>1, <3>2 DEF Arg
  <2>6. Releasing(todo[1]) <=> Releasing(Head(todo))
    BY <1>1
  <2> QED
    BY <2>4, <2>5, <2>6
<1> QED
  BY <1>a, <1>3, <1>4, <1>5, <1>6, <1>7, <1>8, <1>9, <1>10

(* Analysis allocates nodes and enters some of them into the symbol table. *)
Grows(nodes, entries) ==
  /\ IsSeq(nodes) /\ IsSeq(entries) /\ (entries = <<>> \/ st \in Alive)
  /\ fresh' = fresh + Len(nodes)
  /\ Alive' = Alive \cup (fresh + 1)..(fresh + Len(nodes))
  /\ \A i \in 1..Len(nodes) : heap'[fresh + i] = nodes[i] /\ IsSeq(nodes[i].kids)
  /\ \A a \in Alive : heap'[a] = IF a = st THEN Node(heap[a].tag, KidsOf(a) \o entries)
                                            ELSE heap[a]
  /\ Records'

(* What is to be owned anew: the new nodes, and what the call owned. *)
Moved(n) ==
  (fresh + 1)..(fresh + n) \cup {v \in {Arg} : Releasing(Head(todo)) /\ v > 0}
Shared(v) == causes' # {} /\ v \in Address /\ IsString(v)
Accounted(v, place, owner, n) ==
  v > 0 => (v \in Moved(n) /\ owner[v] = place) \/ Shared(v)

LEMMA GrowOwned ==
  ASSUME Owned, fresh \in Nat, Alive \subseteq Address, \A a \in Alive : IsSeq(KidsOf(a)),
         IsSeq(todo), todo # <<>>, NEW work, IsSeq(work), Then(work),
         NEW nodes, NEW entries, Grows(nodes, entries),
         vals' = vals, program' = program, st' = st \/ st = NULL, causes \subseteq causes',
         NEW o,
         \A i \in 1..Len(nodes) : \A j \in 1..Len(nodes[i].kids) :
           Accounted(nodes[i].kids[j], <<"field", fresh + i, j>>, o, Len(nodes)),
         \A j \in 1..Len(entries) :
           Accounted(entries[j], <<"field", st, Len(KidsOf(st)) + j>>, o, Len(nodes)),
         \A i \in 1..Len(work) : Releasing(work[i]) =>
           Accounted(work[i][2], <<"call", Len(todo) + Len(work) - 1 - i, 0>>, o, Len(nodes)),
         st = NULL => Accounted(st', <<"st", 0, 0>>, o, Len(nodes)),
         \A v \in Moved(Len(nodes)) :
           \/ \E i \in 1..Len(nodes) : \E j \in 1..Len(nodes[i].kids) : nodes[i].kids[j] = v
           \/ \E j \in 1..Len(entries) : entries[j] = v
           \/ \E i \in 1..Len(work) : Releasing(work[i]) /\ work[i][2] = v
           \/ st = NULL /\ st' = v
  PROVE  Owned'
<1> DEFINE n == Len(nodes)
           R == {<<"call", Len(todo) - 1, 0>>}
           New(p) ==
             \/ \E i \in 1..n : \E j \in 1..Len(nodes[i].kids) : p = <<"field", fresh + i, j>>
             \/ \E j \in 1..Len(entries) : p = <<"field", st, Len(KidsOf(st)) + j>>
             \/ \E i \in 1..Len(work) :
                  Releasing(work[i]) /\ p = <<"call", Len(todo) + Len(work) - 1 - i, 0>>
             \/ st = NULL /\ p = <<"st", 0, 0>>
           G == {p \in Owners' : New(p)}
<1>1. /\ n \in Nat /\ Len(entries) \in Nat /\ Len(work) \in Nat /\ Len(todo) \in Nat \ {0}
      /\ \A a \in Alive : Len(KidsOf(a)) \in Nat /\ DOMAIN KidsOf(a) = 1..Len(KidsOf(a))
      /\ \A i \in 1..n : Len(nodes[i].kids) \in Nat
                         /\ DOMAIN nodes[i].kids = 1..Len(nodes[i].kids)
  BY SeqFacts, SMTT(40) DEF Grows
<1>2. /\ fresh' = fresh + n /\ Alive' = Alive \cup (fresh + 1)..(fresh + n)
      /\ \A i \in 1..n : heap'[fresh + i] = nodes[i]
  BY DEF Grows
<1>3. \A a \in Alive : heap'[a].tag = heap[a].tag
  BY DEF Grows, Node, Records, KidsOf
<1>4. \A a \in Alive \ {st} : heap'[a].kids = KidsOf(a)
  BY DEF Grows, KidsOf
<1>5. st \in Alive => /\ DOMAIN heap'[st].kids = 1..(Len(KidsOf(st)) + Len(entries))
                      /\ \A i \in 1..Len(KidsOf(st)) : heap'[st].kids[i] = KidsOf(st)[i]
                      /\ \A i \in 1..Len(entries) :
                           heap'[st].kids[Len(KidsOf(st)) + i] = entries[i]
  <2> SUFFICES ASSUME st \in Alive
               PROVE  /\ DOMAIN heap'[st].kids = 1..(Len(KidsOf(st)) + Len(entries))
                      /\ \A i \in 1..Len(KidsOf(st)) : heap'[st].kids[i] = KidsOf(st)[i]
                      /\ \A i \in 1..Len(entries) :
                           heap'[st].kids[Len(KidsOf(st)) + i] = entries[i]
    OBVIOUS
  <2>0. heap'[st] = Node(heap[st].tag, KidsOf(st) \o entries)
    BY DEF Grows
  <2>1. heap'[st].kids = KidsOf(st) \o entries /\ IsSeq(KidsOf(st)) /\ IsSeq(entries)
    BY <2>0 DEF Grows, Node
  <2>2. KidsOf(st) \o entries = heap'[st].kids
    BY <2>1
  <2>3. /\ DOMAIN (KidsOf(st) \o entries) = 1..(Len(KidsOf(st)) + Len(entries))
        /\ \A i \in 1..Len(KidsOf(st)) : (KidsOf(st) \o entries)[i] = KidsOf(st)[i]
        /\ \A i \in 1..Len(entries) : (KidsOf(st) \o entries)[Len(KidsOf(st)) + i] = entries[i]
    <3>1. IsSeq(KidsOf(st)) /\ IsSeq(entries)
      BY <2>1
    <3>2. \A s : IsSeq(s) => DOMAIN s = 1..Len(s)
      BY SeqFacts
    <3> QED
      BY ONLY <3>1, <3>2, Joined
  <2> QED
    BY ONLY <2>2, <2>3
<1>6. /\ \A i \in 1..n : \A j, p : p = <<"field", fresh + i, j>> =>
           Held(p)' = nodes[i].kids[j]
      /\ \A i \in 1..Len(entries) : \A p : p = <<"field", st, Len(KidsOf(st)) + i>> =>
           Held(p)' = entries[i]
      /\ \A i \in 1..Len(work) : \A p : p = <<"call", Len(todo) + Len(work) - 1 - i, 0>> =>
           Held(p)' = work[i][2]
      /\ Held(<<"st", 0, 0>>)' = st'
  <2>1. ASSUME NEW i \in 1..n, NEW j, NEW p, p = <<"field", fresh + i, j>>
        PROVE  Held(p)' = nodes[i].kids[j]
    <3>1. PICK a : a = fresh + i
      OBVIOUS
    <3>2. Held(<<"field", a, j>>)' = heap'[a].kids[j]
      BY PlaceFactsPrime
    <3>3. p = <<"field", a, j>>
      BY <2>1, <3>1
    <3> QED
      BY <3>1, <3>2, <3>3, <1>2
  <2>2. ASSUME NEW i \in 1..Len(entries), NEW p, p = <<"field", st, Len(KidsOf(st)) + i>>
        PROVE  Held(p)' = entries[i]
    <3>1. st \in Alive
      BY SeqFacts DEF Grows
    <3>2. PICK a, j : a = st /\ j = Len(KidsOf(st)) + i
      OBVIOUS
    <3>3. Held(<<"field", a, j>>)' = heap'[a].kids[j]
      BY PlaceFactsPrime
    <3>4. p = <<"field", a, j>>
      BY <2>2, <3>2
    <3> QED
      BY <3>1, <3>2, <3>3, <3>4, <1>5
  <2>3. ASSUME NEW i \in 1..Len(work), NEW p, p = <<"call", Len(todo) + Len(work) - 1 - i, 0>>
        PROVE  Held(p)' = work[i][2]
    <3>1. PICK d : d = Len(todo) + Len(work) - 1 - i
      OBVIOUS
    <3>2. Held(<<"call", d, 0>>)' = work[i][2]
      BY <3>1, CallPlaces
    <3> QED
      BY <2>3, <3>1, <3>2
  <2> QED
    BY <2>1, <2>2, <2>3, PlaceFactsPrime
<1>7. \A p \in G : Accounted(Held(p)', p, o, n) /\ Held(p)' > 0
  <2> SUFFICES ASSUME NEW p \in G
               PROVE  Accounted(Held(p)', p, o, n)
    BY PlaceFactsPrime
  <2>1. CASE \E i \in 1..n : \E j \in 1..Len(nodes[i].kids) : p = <<"field", fresh + i, j>>
    <3>1. PICK i \in 1..n : \E j \in 1..Len(nodes[i].kids) : p = <<"field", fresh + i, j>>
      BY <2>1
    <3>2. PICK j \in 1..Len(nodes[i].kids) : p = <<"field", fresh + i, j>>
      BY <3>1
    <3>3. Held(p)' = nodes[i].kids[j]
      BY <3>2, <1>6
    <3>4. Accounted(nodes[i].kids[j], <<"field", fresh + i, j>>, o, n)
      OBVIOUS
    <3> QED
      BY <3>2, <3>3, <3>4
  <2>2. CASE \E j \in 1..Len(entries) : p = <<"field", st, Len(KidsOf(st)) + j>>
    <3>1. PICK j \in 1..Len(entries) : p = <<"field", st, Len(KidsOf(st)) + j>>
      BY <2>2
    <3>2. Held(p)' = entries[j]
      BY <3>1, <1>6
    <3>3. Accounted(entries[j], <<"field", st, Len(KidsOf(st)) + j>>, o, n)
      OBVIOUS
    <3> QED
      BY <3>1, <3>2, <3>3
  <2>3. CASE \E i \in 1..Len(work) :
               Releasing(work[i]) /\ p = <<"call", Len(todo) + Len(work) - 1 - i, 0>>
    <3>1. PICK i \in 1..Len(work) :
               Releasing(work[i]) /\ p = <<"call", Len(todo) + Len(work) - 1 - i, 0>>
      BY <2>3
    <3>2. Held(p)' = work[i][2]
      BY <3>1, <1>6
    <3>3. Accounted(work[i][2], <<"call", Len(todo) + Len(work) - 1 - i, 0>>, o, n)
      BY <3>1
    <3> QED
      BY <3>1, <3>2, <3>3
  <2>4. CASE st = NULL /\ p = <<"st", 0, 0>>
    <3>1. Held(p)' = st'
      BY <2>4, <1>6
    <3>2. Accounted(st', <<"st", 0, 0>>, o, n)
      BY <2>4
    <3> QED
      BY <2>4, <3>1, <3>2
  <2> QED
    BY <2>1, <2>2, <2>3, <2>4
<1>8. \A p \in Owners' \ G : p \in Owners \ R /\ Held(p)' = Held(p)
  <2> SUFFICES ASSUME NEW p \in Owners', ~New(p)
               PROVE  p \in Places /\ p \notin R /\ Held(p)' = Held(p)
    BY PlaceFacts, PlaceFactsPrime DEF PlaceLaws
  <2>0. p \in Places' /\ Held(p)' > 0
    BY PlaceFactsPrime
  <2>1. CASE \E i \in DOMAIN vals' : p = <<"value", i, 0>>
    BY <2>1, PlaceFacts, PlaceFactsPrime DEF PlaceLaws
  <2>2. CASE \E j \in DOMAIN todo' : p = <<"call", Len(todo') - j, 0>>
    <3>1. PICK d : p = <<"call", d, 0>>
      BY <2>2
    <3>2. d \in 0..(Len(todo) - 2)
      <4>1. (<<"call", d, 0>> \in Places)'
        BY <3>1, <2>0
      <4>2. ~\E i \in 1..Len(work) : Releasing(work[i]) /\ d = Len(todo) + Len(work) - 1 - i
        BY <3>1
      <4> QED
        BY <4>1, <4>2, CallPlaces
    <3>3. d # Len(todo) - 1
      BY <3>2, <1>1
    <3> QED
      BY <3>1, <3>2, <3>3, <2>0, CallPlaces
  <2>3. CASE \E a \in Alive' : \E i \in DOMAIN heap'[a].kids : p = <<"field", a, i>>
    <3>1. PICK a \in Alive' : \E i \in DOMAIN heap'[a].kids : p = <<"field", a, i>>
      BY <2>3
    <3>2. PICK i \in DOMAIN heap'[a].kids : p = <<"field", a, i>>
      BY <3>1
    <3>3. a \in Alive
      <4> SUFFICES ASSUME a \in (fresh + 1)..(fresh + n)
                   PROVE  FALSE
        BY <1>2
      <4>1. a - fresh \in 1..n /\ fresh + (a - fresh) = a
        BY <1>1
      <4>2. heap'[a] = nodes[a - fresh]
        BY <4>1, <1>2
      <4>3. i \in 1..Len(nodes[a - fresh].kids)
        BY <4>1, <4>2, <1>1
      <4> QED
        BY <4>1, <4>3, <3>2
    <3>4. i \in DOMAIN KidsOf(a) /\ heap'[a].kids[i] = KidsOf(a)[i]
      <4>1. CASE a = st
        <5>1. i \in 1..(Len(KidsOf(st)) + Len(entries))
          BY <4>1, <3>3, <1>5
        <5>2. i \notin 1..Len(KidsOf(st)) => \E j \in 1..Len(entries) : i = Len(KidsOf(st)) + j
          <6> SUFFICES ASSUME i \notin 1..Len(KidsOf(st))
                       PROVE  i - Len(KidsOf(st)) \in 1..Len(entries)
                              /\ i = Len(KidsOf(st)) + (i - Len(KidsOf(st)))
            OBVIOUS
          <6> QED
            BY <5>1, <1>1, <3>3, <4>1
        <5> QED
          BY <5>1, <5>2, <4>1, <3>2, <3>3, <1>1, <1>5
      <4>2. CASE a # st
        BY <4>2, <3>3, <1>4
      <4> QED
        BY <4>1, <4>2
    <3> QED
      BY <3>2, <3>3, <3>4, PlaceFacts, PlaceFactsPrime DEF PlaceLaws
  <2>4. CASE p = <<"program", 0, 0>>
    BY <2>4, PlaceFacts, PlaceFactsPrime DEF PlaceLaws
  <2>5. CASE p = <<"st", 0, 0>>
    <3>1. st # NULL
      BY <2>5
    <3> QED
      BY <3>1, <2>5, PlaceFacts, PlaceFactsPrime DEF PlaceLaws
  <2> QED
    BY <2>0, <2>1, <2>2, <2>3, <2>4, <2>5, PlaceFactsPrime
<1>9. \A p \in Owners \ R : p \in Owners' /\ Held(p)' = Held(p)
  <2> SUFFICES ASSUME NEW p \in Owners, p \notin R
               PROVE  p \in Places' /\ Held(p)' = Held(p)
    BY PlaceFacts, PlaceFactsPrime DEF PlaceLaws
  <2>0. p \in Places /\ Held(p) > 0
    BY PlaceFacts DEF PlaceLaws
  <2>1. CASE \E i \in DOMAIN vals : p = <<"value", i, 0>>
    BY <2>1, PlaceFacts, PlaceFactsPrime DEF PlaceLaws
  <2>2. CASE \E j \in DOMAIN todo : p = <<"call", Len(todo) - j, 0>>
    <3>1. PICK d : p = <<"call", d, 0>>
      BY <2>2
    <3>2. d \in 0..(Len(todo) - 2)
      BY <3>1, <2>0, CallPlaces
    <3> QED
      BY <3>1, <3>2, <2>0, CallPlaces
  <2>3. CASE \E a \in Alive : \E i \in DOMAIN KidsOf(a) : p = <<"field", a, i>>
    <3>1. PICK a \in Alive : \E i \in DOMAIN KidsOf(a) : p = <<"field", a, i>>
      BY <2>3
    <3>2. PICK i \in DOMAIN KidsOf(a) : p = <<"field", a, i>>
      BY <3>1
    <3>3. a \in Alive' /\ i \in DOMAIN heap'[a].kids /\ heap'[a].kids[i] = KidsOf(a)[i]
      <4>1. CASE a = st
        <5>1. i \in 1..Len(KidsOf(st)) /\ Len(KidsOf(st)) \in Nat /\ Len(entries) \in Nat
          BY <4>1, <1>1
        <5>2. i \in 1..(Len(KidsOf(st)) + Len(entries))
          BY <5>1
        <5> QED
          BY <4>1, <5>1, <5>2, <1>2, <1>5
      <4>2. CASE a # st
        BY <4>2, <1>2, <1>4
      <4> QED
        BY <4>1, <4>2
    <3> QED
      BY <3>2, <3>3, PlaceFacts, PlaceFactsPrime DEF PlaceLaws
  <2>4. CASE p = <<"program", 0, 0>>
    BY <2>4, PlaceFacts, PlaceFactsPrime DEF PlaceLaws
  <2>5. CASE p = <<"st", 0, 0>>
    <3>1. st # NULL
      BY <2>5, <2>0, PlaceFacts DEF PlaceLaws, NULL
    <3> QED
      BY <3>1, <2>5, PlaceFacts, PlaceFactsPrime DEF PlaceLaws
  <2> QED
    BY <2>0, <2>1, <2>2, <2>3, <2>4, <2>5, PlaceFacts DEF PlaceLaws
<1>10. \A v \in Moved(n) : \/ v \in Alive' /\ v > fresh
                           \/ \E r \in R \cap Owners : Held(r) = v
  <2> TAKE v \in Moved(n)
  <2>1. CASE v \in (fresh + 1)..(fresh + n)
    BY <2>1, <1>2
  <2>2. CASE v = Arg /\ Releasing(Head(todo)) /\ v > 0
    <3>1. PICK d, r : d = Len(todo) - 1 /\ r = <<"call", d, 0>>
      OBVIOUS
    <3>2. r \in Places /\ Held(r) = v
      BY <2>2, <3>1, CallPlaces
    <3>3. r \in Owners
      BY <2>2, <3>2, PlaceFacts DEF PlaceLaws
    <3> QED
      BY <3>1, <3>2, <3>3
  <2> QED
    BY <2>1, <2>2 DEF Moved
<1>11. \A r \in R \cap Owners : Held(r) \in Moved(n)
  BY CallPlaces, PlaceFacts DEF Moved, PlaceLaws
<1>12. \A v : v \in Address /\ IsString(v) => (v \in Alive' => heap'[v].tag = "string")
  BY <1>2, <1>3, <1>1 DEF IsString, Address
<1>13. \A a \in Alive' : a <= fresh => a \in Alive /\ heap'[a].tag = heap[a].tag
  BY <1>2, <1>3, <1>1
<1>14. Alive' \subseteq Address' /\ fresh' \in Nat /\ fresh <= fresh'
  <2>1. fresh' \in Nat /\ fresh <= fresh'
    BY <1>1, <1>2
  <2>2. ASSUME NEW a \in Alive'
        PROVE  a \in 1..fresh'
    <3>1. CASE a \in Alive
      <4>1. a \in 1..fresh
        BY <3>1 DEF Address
      <4> QED
        BY <4>1, <2>1
    <3>2. CASE a \in (fresh + 1)..(fresh + n)
      BY <3>2, <1>1, <1>2
    <3> QED
      BY <3>1, <3>2, <1>2
  <2> QED
    BY <2>1, <2>2 DEF Address
<1>15. \A p \in G \cap Owners' :
         \/ Held(p)' \in Alive' /\ Held(p)' > fresh
         \/ \E r \in R \cap Owners : Held(r) = Held(p)'
         \/ causes' # {} /\ IsString(Held(p))' /\ Held(p)' \in Address
  <2> TAKE p \in G \cap Owners'
  <2>1. CASE Held(p)' \in Moved(n)
    BY <2>1, <1>10
  <2>2. CASE Shared(Held(p)')
    BY <2>2, <1>12 DEF Shared, IsString
  <2> QED
    BY <2>1, <2>2, <1>7 DEF Accounted
<1>16. \A p, q \in G \cap Owners' :
         Held(p)' = Held(q)' /\ p # q => causes' # {} /\ IsString(Held(p))'
  <2> SUFFICES ASSUME NEW p \in G, NEW q \in G, Held(p)' = Held(q)', p # q
               PROVE  causes' # {} /\ IsString(Held(p))'
    OBVIOUS
  <2>1. Shared(Held(p)') \/ Shared(Held(q)')
    BY <1>7 DEF Accounted
  <2> QED
    BY <2>1, <1>12 DEF Shared, IsString
<1>17. \A v \in Moved(n) : v \in Alive' => \E p \in G \cap Owners' : Held(p)' = v
  <2> SUFFICES ASSUME NEW v \in Moved(n), v \in Alive'
               PROVE  \E p \in G : Held(p)' = v
    OBVIOUS
  <2>0. v > 0
    BY <1>14 DEF Address
  <2>1. CASE \E i \in 1..n : \E j \in 1..Len(nodes[i].kids) : nodes[i].kids[j] = v
    <3>1. PICK i \in 1..n : \E j \in 1..Len(nodes[i].kids) : nodes[i].kids[j] = v
      BY <2>1
    <3>2. PICK j \in 1..Len(nodes[i].kids) : nodes[i].kids[j] = v
      BY <3>1
    <3>3. PICK a, p : a = fresh + i /\ p = <<"field", a, j>>
      OBVIOUS
    <3>4. Held(p)' = v
      BY <3>2, <3>3, <1>6
    <3>5. a \in Alive' /\ j \in DOMAIN heap'[a].kids
      <4>1. a \in (fresh + 1)..(fresh + n)
        BY <3>3, <1>1
      <4>2. heap'[a] = nodes[i] /\ DOMAIN nodes[i].kids = 1..Len(nodes[i].kids)
        BY <3>3, <1>1, <1>2
      <4> QED
        BY <4>1, <4>2, <1>2
    <3>6. p \in Owners'
      BY <3>3, <3>4, <3>5, <2>0, PlaceFactsPrime
    <3> QED
      BY <3>3, <3>4, <3>6
  <2>2. CASE \E j \in 1..Len(entries) : entries[j] = v
    <3>1. PICK j \in 1..Len(entries) : entries[j] = v
      BY <2>2
    <3>2. PICK a, i, p : a = st /\ i = Len(KidsOf(st)) + j /\ p = <<"field", a, i>>
      OBVIOUS
    <3>3. Held(p)' = v
      BY <3>1, <3>2, <1>6
    <3>4. st \in Alive
      BY SeqFacts DEF Grows
    <3>5. a \in Alive' /\ i \in DOMAIN heap'[a].kids
      BY <3>2, <3>4, <1>1, <1>2, <1>5
    <3>6. p \in Owners'
      BY <3>2, <3>3, <3>5, <2>0, PlaceFactsPrime
    <3> QED
      BY <3>2, <3>3, <3>6
  <2>3. CASE \E i \in 1..Len(work) : Releasing(work[i]) /\ work[i][2] = v
    <3>1. PICK i \in 1..Len(work) : Releasing(work[i]) /\ work[i][2] = v
      BY <2>3
    <3>2. PICK d, p : d = Len(todo) + Len(work) - 1 - i /\ p = <<"call", d, 0>>
      OBVIOUS
    <3>3. (p \in Places)' /\ Held(p)' = v
      BY <3>1, <3>2, CallPlaces
    <3>4. p \in Owners'
      BY <3>3, <2>0, PlaceFactsPrime
    <3> QED
      BY <3>1, <3>2, <3>3, <3>4
  <2>4. CASE st = NULL /\ st' = v
    <3>1. PICK p : p = <<"st", 0, 0>>
      OBVIOUS
    <3>2. p \in Owners' /\ Held(p)' = v
      BY <2>4, <3>1, <2>0, PlaceFactsPrime
    <3> QED
      BY <2>4, <3>1, <3>2
  <2> QED
    BY <2>1, <2>2, <2>3, <2>4
<1>18. \A a \in Alive' : \/ \E p \in G \cap Owners' : Held(p)' = a
                         \/ a \in Alive /\ \A r \in R \cap Owners : Held(r) # a
  <2> TAKE a \in Alive'
  <2>1. CASE a \in Moved(n)
    BY <2>1, <1>17
  <2>2. CASE a \notin Moved(n)
    <3>1. a \in Alive
      BY <2>2, <1>2 DEF Moved
    <3> QED
      BY <3>1, <2>2, <1>11
  <2> QED
    BY <2>1, <2>2
<1>19. Alive \ Alive' = {}
  BY <1>2
<1> HIDE DEF G, R
<1>20. \A a \in Alive \ Alive' : /\ \E r \in R \cap Owners : Held(r) = a
                                 /\ \A p \in G \cap Owners' : Held(p)' # a
  BY <1>19
<1>21. Alive \subseteq Address /\ causes \subseteq causes' /\ fresh \in Nat /\ Owned
  OBVIOUS
<1> QED
  BY ONLY <1>8, <1>9, <1>13, <1>14, <1>15, <1>16, <1>18, <1>20, <1>21, Transfer

(* What is there stays. *)
LEMMA GrowKeeps ==
  ASSUME TypeOK, Stabbed, NEW nodes, NEW entries, Grows(nodes, entries)
  PROVE  /\ fresh' = fresh + Len(nodes) /\ fresh' \in Nat /\ fresh <= fresh' /\ Len(nodes) \in Nat
         /\ Alive \subseteq Alive' /\ Alive' \subseteq Address'
         /\ \A a \in Alive' : a <= fresh => a \in Alive
         /\ \A a \in Alive' : a \notin Alive =>
              \E i \in 1..Len(nodes) : a = fresh + i /\ heap'[a] = nodes[i]
         /\ \A a \in Alive : /\ a <= fresh /\ heap'[a].tag = heap[a].tag
                             /\ a # st => heap'[a].kids = KidsOf(a)
         /\ \A v, kind : Is(v, kind) => Is(v, kind)'
<1>1. /\ fresh \in Nat /\ Alive \subseteq 1..fresh /\ Len(nodes) \in Nat
      /\ \A a \in Alive : IsSeq(KidsOf(a))
  BY SeqFacts DEF TypeOK, Grows, Address, IsSeq
<1>2. fresh' = fresh + Len(nodes) /\ Alive' = Alive \cup (fresh + 1)..(fresh + Len(nodes))
  BY DEF Grows
<1>3. fresh' \in Nat /\ fresh <= fresh' /\ Alive \subseteq Alive'
  BY <1>1, <1>2
<1>4. Alive' \subseteq Address'
  <2> SUFFICES ASSUME NEW a \in Alive'
               PROVE  a \in 1..fresh'
    BY DEF Address
  <2>1. CASE a \in Alive
    <3>1. a \in 1..fresh
      BY <2>1, <1>1
    <3> QED
      BY <3>1, <1>1, <1>3
  <2>2. CASE a \in (fresh + 1)..(fresh + Len(nodes))
    BY <2>2, <1>1, <1>2
  <2> QED
    BY <2>1, <2>2, <1>2
<1>5. \A a \in Alive' : a <= fresh => a \in Alive
  BY <1>1, <1>2
<1>6. \A a \in Alive : /\ a <= fresh /\ heap'[a].tag = heap[a].tag
                       /\ a # st => heap'[a].kids = KidsOf(a)
  BY <1>1 DEF Grows, Node, Records, KidsOf
<1>7. ASSUME NEW a \in Alive', a \notin Alive
      PROVE  \E i \in 1..Len(nodes) : a = fresh + i /\ heap'[a] = nodes[i]
  <2>1. a - fresh \in 1..Len(nodes) /\ a = fresh + (a - fresh)
    BY <1>7, <1>1, <1>2
  <2> QED
    BY <2>1 DEF Grows
<1>8. ASSUME NEW v, NEW kind, Is(v, kind)
      PROVE  Is(v, kind)'
  <2>1. Tagged(v, "free_*") => v # st
    BY <1>1 DEF Tagged, Stabbed, NULL
  <2>2. Tagged(v, "free_*") =>
           \A i \in DOMAIN heap'[v].kids :
             \E j \in DOMAIN KidsOf(v) :
               /\ heap'[v].kids[i] = KidsOf(v)[j]
               /\ KidsOf(v)[j] \in Alive /\ heap[KidsOf(v)[j]].tag # "string"
                     => KidsOf(v)[j] \in Alive'
    BY <2>1, <1>3, <1>6 DEF Tagged
  <2>3. Alive \subseteq Address
    BY DEF TypeOK
  <2> QED
    BY <1>8, <2>2, <2>3, <1>1, <1>3, <1>5, <1>6, IsKept
<1> QED
  BY <1>1, <1>2, <1>3, <1>4, <1>5, <1>6, <1>7, <1>8

(* What analysis allocates: names, and the nodes of the symbol table,      *)
(* which hold names and each other.                                        *)
Enters(nodes, entries) ==
  /\ \A i \in 1..Len(nodes) :
       /\ nodes[i].tag \in {"string", "type", "var", "scope", "stab", "path"}
       /\ nodes[i].tag = "string" => nodes[i].kids = <<>>
       /\ \A j \in 1..Len(nodes[i].kids) :
            \/ nodes[i].kids[j] \in Address /\ IsString(nodes[i].kids[j])
            \/ \E k \in 1..Len(nodes) : nodes[i].kids[j] = fresh + k /\ nodes[k].kids = <<>>
  /\ \A j \in 1..Len(entries) : entries[j] \in (fresh + 1)..(fresh + Len(nodes))

(* No field holds st, and none but the driver's pointer the tree. *)
LEMMA Held1 ==
  ASSUME Owned, Records, TypeOK, NEW v \in Alive, v \in {program, st}, heap[v].tag # "string",
         NEW a \in Alive, NEW i \in DOMAIN KidsOf(a)
  PROVE  KidsOf(a)[i] # v
<1> SUFFICES ASSUME KidsOf(a)[i] = v
             PROVE  FALSE
  OBVIOUS
<1>1. v > 0
  BY DEF TypeOK, Address
<1>2. PICK p, q : /\ p = <<"field", a, i>>
                  /\ q = IF v = program THEN <<"program", 0, 0>> ELSE <<"st", 0, 0>>
  OBVIOUS
<1>3. p \in Owners /\ Held(p) = v
  BY <1>1, <1>2, PlaceFacts DEF PlaceLaws
<1>4. q \in Owners /\ Held(q) = v
  BY <1>1, <1>2, PlaceFacts DEF PlaceLaws
<1>5. p # q
  BY <1>2
<1> QED
  BY <1>3, <1>4, <1>5 DEF Owned, IsString

(* Nor is either about to be released by a call. *)
LEMMA Freed1 ==
  ASSUME Memory, IsSeq(todo), NEW v \in Alive, v \in {program, st}, heap[v].tag # "string",
         NEW i \in DOMAIN todo, Releasing(todo[i])
  PROVE  todo[i][2] # v
<1> SUFFICES ASSUME todo[i][2] = v
             PROVE  FALSE
  OBVIOUS
<1>1. v > 0
  <2>1. Alive \subseteq 1..fresh /\ fresh \in Nat
    BY DEF Memory, TypeOK, Address
  <2> QED
    BY <2>1
<1>2. PICK d, p, q : /\ d = Len(todo) - i /\ p = <<"call", d, 0>>
                     /\ q = IF v = program THEN <<"program", 0, 0>> ELSE <<"st", 0, 0>>
  OBVIOUS
<1>3. i = Len(todo) - d
  <2>1. Len(todo) \in Int /\ i \in Int
    BY SeqFacts
  <2> QED
    BY <2>1, <1>2
<1>4. p \in Owners /\ Held(p) = v
  <2>1. p \in Places
    BY <1>2, PlaceFacts DEF PlaceLaws
  <2>2. Held(p) = todo[Len(todo) - d][2]
    BY <1>2, PlaceFacts DEF PlaceLaws
  <2> QED
    BY <2>1, <2>2, <1>1, <1>3, PlaceFacts DEF PlaceLaws
<1>5. q \in Owners /\ Held(q) = v
  BY <1>1, <1>2, PlaceFacts DEF PlaceLaws
<1>6. p # q
  BY <1>2
<1> QED
  BY <1>4, <1>5, <1>6 DEF Memory, Owned, IsString

LEMMA GrowGrounded ==
  ASSUME TypeOK, Records, Owned, Grounded, Stabbed,
         NEW nodes, NEW entries, Grows(nodes, entries), Enters(nodes, entries)
  PROVE  Grounded'
<1> DEFINE n == Len(nodes)
           Leaves == {a \in Alive' \ Alive : heap'[a].kids = <<>>}
           Others == {a \in Alive' \ Alive : heap'[a].kids # <<>>}
           Old == Alive \ {st}
           Leads(b, v) == \E i \in DOMAIN heap'[b].kids : heap'[b].kids[i] = v
<1>1. /\ fresh \in Nat /\ Alive \subseteq 1..fresh /\ n \in Nat
      /\ \A a \in Alive : IsSeq(KidsOf(a)) /\ \A i \in DOMAIN KidsOf(a) : KidsOf(a)[i] <= fresh
  <2>1. fresh \in Nat /\ Alive \subseteq 1..fresh /\ n \in Nat
    BY SeqFacts DEF TypeOK, Grows, Address
  <2>2. ASSUME NEW a \in Alive
        PROVE  IsSeq(KidsOf(a)) /\ \A i \in DOMAIN KidsOf(a) : KidsOf(a)[i] <= fresh
    <3>1. KidsOf(a) \in Seq(0..fresh)
      BY <2>1 DEF TypeOK, References, Address, NULL
    <3> QED
      BY <3>1, <2>1 DEF IsSeq
  <2> QED
    BY <2>1, <2>2
<1>2. \A b, v : b \in Old /\ Leads(b, v) => v <= fresh
  BY <1>1, GrowKeeps
<1>3. \A b, v : b \in Leaves => ~Leads(b, v)
  OBVIOUS
<1>4. \A b, v : b \in Others /\ Leads(b, v) =>
        \/ v \in Address /\ IsString(v)
        \/ v \in Leaves
  <2> SUFFICES ASSUME NEW b \in Others, NEW v, Leads(b, v)
               PROVE  (v \in Address /\ IsString(v)) \/ v \in Leaves
    OBVIOUS
  <2>1. PICK i \in 1..n : b = fresh + i /\ heap'[b] = nodes[i]
    BY GrowKeeps
  <2>2. DOMAIN nodes[i].kids = 1..Len(nodes[i].kids)
    BY SeqFacts DEF Grows
  <2>3. CASE v \in Address /\ IsString(v)
    BY <2>3
  <2>4. CASE \E k \in 1..n : v = fresh + k /\ nodes[k].kids = <<>>
    <3>1. PICK k \in 1..n : v = fresh + k /\ nodes[k].kids = <<>>
      BY <2>4
    <3>2. v \in (fresh + 1)..(fresh + n) /\ v \notin 1..fresh
      BY <3>1, <1>1
    <3> QED
      BY <3>1, <3>2, <1>1 DEF Grows
  <2> QED
    BY <2>1, <2>2, <2>3, <2>4 DEF Enters
<1>5. \A v \in Leaves \cup Others : v > fresh
  BY <1>1, GrowKeeps
<1>6. PICK old, leaves, others : old = Old /\ leaves = Leaves /\ others = Others
  OBVIOUS
<1>7. \A S, v : Into(v, S)' <=> \E b \in S : Leads(b, v)
  BY DEF Into, KidsOf
<1>8. GroundedOn(old)'
  <2> SUFFICES ASSUME NEW S \in SUBSET old, S # {}
               PROVE  \E a \in S : ~Into(a, S)'
    BY DEF GroundedOn
  <2>1. PICK a \in S : ~Into(a, S)
    BY <1>6 DEF Grounded, GroundedOn
  <2>2. \A b \in S : heap'[b].kids = KidsOf(b)
    BY <1>6, GrowKeeps
  <2> QED
    BY <2>1, <2>2, <1>7 DEF Into, KidsOf
<1> HIDE DEF Leads
<1>9. GroundedOn(old \cup leaves)'
  <2>1. ASSUME NEW b \in leaves, Into(b, old \cup leaves)'
        PROVE  FALSE
    <3>1. PICK c \in old \cup leaves : Leads(c, b)
      BY <2>1, <1>7
    <3>2. c \in old /\ b > fresh /\ b <= fresh
      BY <3>1, <1>2, <1>3, <1>5, <1>6
    <3> QED
      BY <3>2, <1>1, <1>6, GrowKeeps
  <2> QED
    BY <2>1, <1>8, LayerPrime DEF LayerLaw
<1>10. GroundedOn((old \cup leaves) \cup others)'
  <2>1. ASSUME NEW b \in others, Into(b, (old \cup leaves) \cup others)'
        PROVE  FALSE
    <3>1. PICK c \in (old \cup leaves) \cup others : Leads(c, b)
      BY <2>1, <1>7
    <3>2. c \notin leaves /\ b > fresh /\ b \notin leaves
      BY <3>1, <1>3, <1>5, <1>6
    <3>3. b <= fresh \/ b \in Address
      BY <3>1, <3>2, <1>2, <1>4, <1>6
    <3> QED
      BY <3>2, <3>3, <1>1, <1>6, GrowKeeps DEF Address
  <2> QED
    BY <2>1, <1>9, LayerPrime DEF LayerLaw
<1>11. Alive' = ((old \cup leaves) \cup others) \cup (Alive \cap {st})
  BY <1>6, GrowKeeps
<1>12. PICK last, all : last = Alive \cap {st} /\ all = Alive'
  OBVIOUS
<1>13. ASSUME NEW b \in last, Into(b, all)'
       PROVE  FALSE
  <2>1. b = st /\ b \in Alive /\ heap[b].tag = "stab" /\ b <= fresh
    BY <1>12, <1>1 DEF Stabbed, Tagged, TypeOK, Address, NULL
  <2>2. PICK c \in all : Leads(c, b)
    BY <1>13, <1>7
  <2>3. CASE c \in Alive
    <3>1. PICK i \in DOMAIN heap'[c].kids : heap'[c].kids[i] = b
      BY <2>2 DEF Leads
    <3>2. CASE c # st
      <4>1. heap'[c].kids = KidsOf(c)
        BY <2>3, <3>2, GrowKeeps
      <4> QED
        BY <2>1, <2>3, <3>1, <4>1, Held1
    <3>3. CASE c = st
      <4>1. heap'[c] = Node(heap[c].tag, KidsOf(c) \o entries)
        BY <2>3, <3>3 DEF Grows
      <4>2. heap'[c].kids = KidsOf(c) \o entries
        BY <4>1 DEF Node
      <4>3. IsSeq(KidsOf(c)) /\ IsSeq(entries)
        BY <2>3, <1>1 DEF Grows
      <4>4. /\ i \in 1..(Len(KidsOf(c)) + Len(entries))
            /\ Len(KidsOf(c)) \in Nat /\ Len(entries) \in Nat
            /\ DOMAIN KidsOf(c) = 1..Len(KidsOf(c))
        BY <3>1, <4>2, <4>3, SeqFacts
      <4>5. CASE i \in 1..Len(KidsOf(c))
        <5>1. heap'[c].kids[i] = KidsOf(c)[i]
          BY <4>2, <4>3, <4>5, SeqFacts
        <5> QED
          BY <2>1, <2>3, <3>1, <4>4, <4>5, <5>1, Held1
      <4>6. CASE i \notin 1..Len(KidsOf(c))
        <5>1. PICK j \in 1..Len(entries) : i = Len(KidsOf(c)) + j
          <6>1. i - Len(KidsOf(c)) \in 1..Len(entries) /\ i = Len(KidsOf(c)) + (i - Len(KidsOf(c)))
            BY <4>4, <4>6
          <6> QED
            BY <6>1
        <5>2. heap'[c].kids[i] = entries[j]
          BY <4>2, <4>3, <5>1, SeqFacts
        <5>3. b \in (fresh + 1)..(fresh + n)
          BY <3>1, <5>2 DEF Enters
        <5> QED
          BY <5>3, <2>1, <1>1
      <4> QED
        BY <4>5, <4>6
    <3> QED
      BY <3>2, <3>3
  <2>4. CASE c \in others \cup leaves
    <3>1. (b \in Address /\ IsString(b)) \/ b \in leaves
      BY <2>2, <2>4, <1>3, <1>4, <1>6
    <3>2. b \notin leaves
      BY <2>1, <1>6
    <3> QED
      BY <3>1, <3>2, <2>1 DEF IsString
  <2> QED
    BY <2>3, <2>4, <1>6, <1>12
<1>14. GroundedOn(((old \cup leaves) \cup others) \cup last)'
  BY <1>10, <1>11, <1>12, <1>13, LayerPrime DEF LayerLaw
<1> QED
  BY <1>11, <1>12, <1>14 DEF Grounded

LEMMA GrowShape ==
  ASSUME TypeOK, Records, Stabbed, Shape, Rooted,
         NEW nodes, NEW entries, Grows(nodes, entries), Enters(nodes, entries),
         IsSeq(todo), todo # <<>>, NEW work, IsSeq(work), Then(work),
         Head(todo)[1] # "free" \/ Arg = NULL,
         program' = program, st' = st \/ (st = NULL /\ st' > fresh /\ Stabbed')
  PROVE  Shape' /\ Rooted' /\ Stabbed' /\ \A a \in Alive' : KidsOf(a)' \in Seq(References')
<1>1. /\ fresh \in Nat /\ Alive \subseteq 1..fresh /\ {program, st} \subseteq References
      /\ \A a \in Alive : KidsOf(a) \in Seq(References) /\ IsSeq(KidsOf(a))
      /\ References = 0..fresh /\ References' = 0..fresh'
  <2>1. fresh \in Nat /\ Alive \subseteq 1..fresh /\ {program, st} \subseteq References
    BY DEF TypeOK, Address
  <2>2. \A a \in Alive : KidsOf(a) \in Seq(References) /\ IsSeq(KidsOf(a))
    BY DEF TypeOK, IsSeq
  <2>3. fresh' \in Nat
    BY GrowKeeps
  <2>4. References = 0..fresh
    BY <2>1 DEF References, Address, NULL
  <2>5. References' = 0..fresh'
    BY <2>3 DEF References, Address, NULL
  <2> QED
    BY <2>1, <2>2, <2>4, <2>5
<1>2. /\ Alive \subseteq Alive' /\ fresh <= fresh' /\ fresh' = fresh + Len(nodes)
      /\ fresh' \in Nat /\ Len(nodes) \in Nat
  BY GrowKeeps
<1>3. \A a \in Alive : Emptied(a) => Emptied(a)' \/ a = st
  <2> SUFFICES ASSUME NEW a \in Alive, Emptied(a), a # st
               PROVE  Emptied(a)'
    OBVIOUS
  <2>1. heap'[a].kids = <<>>
    BY GrowKeeps DEF Emptied
  <2>2. PICK i \in DOMAIN todo : todo[i][1] = "free" /\ todo[i][2] = a
    BY DEF Emptied
  <2>3. i # 1
    <3>1. Head(todo) = todo[1]
      BY SeqFacts
    <3> QED
      BY <2>2, <3>1, <1>1 DEF NULL, Arg
  <2>4. i - 1 + Len(work) \in DOMAIN todo' /\ todo'[i - 1 + Len(work)] = todo[i]
    <3>1. i \in 2..Len(todo) /\ Len(todo) \in Nat /\ Len(work) \in Nat
      BY <2>3, SeqFacts
    <3>2. DOMAIN todo' = 1..(Len(todo) + Len(work) - 1)
      BY CallPlaces, SeqFacts
    <3> QED
      BY <3>1, <3>2, CallPlaces
  <2> QED
    BY <2>1, <2>2, <2>4 DEF Emptied, KidsOf
<1>4. ASSUME NEW a \in Alive'
      PROVE  Emptied(a)' \/ Shaped(a)'
  <2>1. CASE a \notin Alive
    <3>1. PICK i \in 1..Len(nodes) : heap'[a] = nodes[i]
      BY <2>1, <1>4, GrowKeeps
    <3>2. /\ heap'[a].tag \in {"string", "type", "var", "scope", "stab", "path"}
          /\ heap'[a].tag = "string" => heap'[a].kids = <<>>
      BY <3>1 DEF Enters
    <3> QED
      BY ONLY <3>2 DEF Shaped, Layouts, KidsOf
  <2>2. CASE a = st /\ a \in Alive
    <3>1. heap'[a].tag = "stab"
      BY <2>2, <1>1, GrowKeeps DEF Stabbed, Tagged, NULL
    <3> QED
      BY <3>1 DEF Shaped, Layouts
  <2>3. CASE a \in Alive /\ a # st /\ Shaped(a)
    <3>1. heap'[a].tag = heap[a].tag /\ heap'[a].kids = KidsOf(a)
      BY <2>3, GrowKeeps
    <3>2. \A i \in DOMAIN KidsOf(a), kind \in Kind :
             Is(KidsOf(a)[i], kind) => Is(KidsOf(a)[i], kind)'
      <4>1. \A v, kind : Is(v, kind) => Is(v, kind)'
        BY GrowKeeps
      <4>2. TAKE i \in DOMAIN KidsOf(a), kind \in Kind
      <4>3. PICK v : v = KidsOf(a)[i]
        OBVIOUS
      <4>4. KidsOf(a)'[i] = v
        BY <4>3, <3>1 DEF KidsOf
      <4> QED
        BY <4>1, <4>3, <4>4
    <3> QED
      BY <2>3, <3>1, <3>2, <1>1, <1>4, ShapedKept
  <2> QED
    BY <2>1, <2>2, <2>3, <1>3 DEF Shape
<1>5. ASSUME program # NULL
      PROVE  /\ Tagged(program, "program")'
             /\ \A a \in Alive' : a <= program =>
                  \A i \in DOMAIN heap'[a].kids : heap'[a].kids[i] <= program
             /\ \A a \in Alive' : heap'[a].tag = "program" => a >= program
             /\ st' # NULL => st' > program
  <2>1. Tagged(program, "program") /\ program \in 1..fresh
    BY <1>1, <1>5 DEF Rooted, NULL
  <2>2. Tagged(program, "program")'
    BY <2>1, <1>2, GrowKeeps DEF Tagged
  <2>3. ASSUME NEW a \in Alive', a <= program, NEW i \in DOMAIN heap'[a].kids
        PROVE  heap'[a].kids[i] <= program
    <3>1. a \in Alive
      <4>1. a \in Address' /\ Address' = 1..fresh'
        BY GrowKeeps DEF Address
      <4> QED
        BY <4>1, <2>1, <2>3, <1>1, <1>2, GrowKeeps
    <3>2. a # st
      BY <3>1, <2>1, <2>3, <1>1, <1>5 DEF Rooted, NULL
    <3> QED
      BY <3>1, <3>2, <2>3, <1>5, GrowKeeps DEF Rooted
  <2>4. ASSUME NEW a \in Alive', heap'[a].tag = "program"
        PROVE  a >= program
    <3>1. a \in Alive
      BY <2>4, GrowKeeps DEF Enters
    <3> QED
      BY <3>1, <2>4, <1>5, GrowKeeps DEF Rooted
  <2>5. st' # NULL => st' > program
    <3>1. st # NULL => st > program
      BY <1>5 DEF Rooted
    <3>2. CASE st' = st
      BY <3>1, <3>2
    <3>3. CASE st' > fresh /\ st' # st
      <4>1. fresh \in Nat /\ program <= fresh /\ program \in Int
        BY <2>1, <1>1
      <4>2. st' \in Int
        BY <3>3, GrowKeeps DEF Stabbed, Tagged, Address, NULL
      <4> QED
        BY <3>3, <4>1, <4>2
    <3> QED
      BY <3>2, <3>3
  <2> QED
    BY <2>2, <2>3, <2>4, <2>5
<1>6. Rooted'
  BY <1>5, <1>2, GrowKeeps DEF Rooted, KidsOf, Tagged
<1>7. Stabbed'
  BY <1>2, GrowKeeps DEF Stabbed, Tagged
<1>8. ASSUME NEW a \in Alive'
      PROVE  heap'[a].kids \in Seq(0..fresh')
  <2>1. CASE a \in Alive /\ a # st
    BY <2>1, <1>1, <1>2, GrowKeeps
  <2>2. CASE a \in Alive /\ a = st
    <3>1. heap'[a] = Node(heap[a].tag, KidsOf(a) \o entries)
      BY <2>2 DEF Grows
    <3>2. heap'[a].kids = KidsOf(a) \o entries
      BY <3>1 DEF Node
    <3>3. entries \in Seq(0..fresh')
      <4>1. IsSeq(entries) /\ \A j \in 1..Len(entries) : entries[j] \in 0..fresh'
        BY <1>1, <1>2 DEF Enters, Grows
      <4> QED
        BY <4>1, SeqOver
    <3>4. KidsOf(a) \in Seq(0..fresh')
      <4>1. IsSeq(KidsOf(a)) /\ \A j \in 1..Len(KidsOf(a)) : KidsOf(a)[j] \in 0..fresh'
        BY <2>2, <1>1, <1>2
      <4> QED
        BY <4>1, SeqOver
    <3> QED
      BY <3>2, <3>3, <3>4
  <2>3. CASE a \notin Alive
    <3>1. PICK i \in 1..Len(nodes) : heap'[a] = nodes[i]
      BY <2>3, <1>8, GrowKeeps
    <3>2. IsSeq(nodes[i].kids)
      BY DEF Grows
    <3>3. \A j \in 1..Len(nodes[i].kids) : nodes[i].kids[j] \in 0..fresh'
      BY <1>1, <1>2 DEF Enters, Address
    <3> QED
      BY <3>1, <3>2, <3>3, SeqOver
  <2> QED
    BY <2>1, <2>2, <2>3
<1> QED
  BY <1>1, <1>4, <1>6, <1>7, <1>8 DEF Shape, KidsOf

(* A step of the analysis, and the places that come to own what it moves.  *)
Does(work, nodes, entries) ==
  /\ todo # <<>> /\ IsSeq(work) /\ Then(work)
  /\ Head(todo)[1] # "free" \/ Arg = NULL
  /\ Grows(nodes, entries) /\ Enters(nodes, entries)
  /\ causes \subseteq causes' /\ causes' \subseteq Shares
  /\ st' = st \/ (st = NULL /\ st' > fresh /\ Stabbed')
  /\ vals' = vals /\ program' = program /\ room' = room /\ phase' = phase
Accounts(work, nodes, entries, o) ==
  /\ \A i \in 1..Len(nodes) : \A j \in 1..Len(nodes[i].kids) :
       Accounted(nodes[i].kids[j], <<"field", fresh + i, j>>, o, Len(nodes))
  /\ \A j \in 1..Len(entries) :
       Accounted(entries[j], <<"field", st, Len(KidsOf(st)) + j>>, o, Len(nodes))
  /\ \A i \in 1..Len(work) : Releasing(work[i]) =>
       Accounted(work[i][2], <<"call", Len(todo) + Len(work) - 1 - i, 0>>, o, Len(nodes))
  /\ st = NULL => Accounted(st', <<"st", 0, 0>>, o, Len(nodes))
  /\ \A v \in Moved(Len(nodes)) :
       \/ \E i \in 1..Len(nodes) : \E j \in 1..Len(nodes[i].kids) : nodes[i].kids[j] = v
       \/ \E j \in 1..Len(entries) : entries[j] = v
       \/ \E i \in 1..Len(work) : Releasing(work[i]) /\ work[i][2] = v
       \/ st = NULL /\ st' = v

LEMMA GrowMemory ==
  ASSUME Memory, IsSeq(todo), NEW work, NEW nodes, NEW entries, NEW o,
         Does(work, nodes, entries), Accounts(work, nodes, entries, o)
  PROVE  Memory'
<1>1. /\ TypeOK /\ Records /\ Shape /\ Owned /\ Grounded /\ Rooted /\ Stabbed
      /\ \A a \in Alive : IsSeq(KidsOf(a))
  BY DEF Memory, TypeOK, IsSeq
<1>2. Grounded'
  BY <1>1, GrowGrounded DEF Does
<1>3. Shape' /\ Rooted' /\ Stabbed' /\ \A a \in Alive' : KidsOf(a)' \in Seq(References')
  BY <1>1, GrowShape DEF Does
<1>4. Owned'
  <2>1. /\ fresh \in Nat /\ Alive \subseteq Address /\ IsSeq(work) /\ Then(work)
        /\ Grows(nodes, entries) /\ causes \subseteq causes' /\ todo # <<>>
        /\ vals' = vals /\ program' = program /\ (st' = st \/ st = NULL)
    BY <1>1 DEF TypeOK, Does
  <2> QED
    BY <1>1, <2>1, GrowOwned DEF Accounts
<1>5. TypeOK'
  <2>1. fresh \in Nat /\ fresh' \in Nat /\ fresh <= fresh' /\ Alive' \subseteq Address'
    BY <1>1, GrowKeeps DEF TypeOK, Does
  <2>2. References \subseteq References'
    BY <2>1 DEF References, Address
  <2>3. vals' \in Seq(References' \cup {OPERATOR})
    <3>1. vals' \in Seq(References \cup {OPERATOR})
      BY <1>1 DEF TypeOK, Does
    <3> QED
      BY <3>1, <2>2
  <2>4. {program', st'} \subseteq References'
    <3>1. {program, st} \subseteq References
      BY <1>1 DEF TypeOK
    <3>2. st' = st \/ st' \in References'
      BY <1>3, <2>1 DEF Does, Stabbed, Tagged, References
    <3> QED
      BY <3>1, <3>2, <2>2 DEF Does
  <2> QED
    BY <1>1, <1>3, <2>1, <2>3, <2>4 DEF TypeOK, Does
<1> QED
  BY <1>2, <1>3, <1>4, <1>5 DEF Memory, Does, Grows

(* What is true of the work ahead stays true. *)
LEMMA GoodKept ==
  ASSUME TypeOK, Stabbed, NEW nodes, NEW entries, Grows(nodes, entries),
         program' = program, causes \subseteq causes',
         NEW task, Good(task), Releasing(task) /\ task[2] \in Alive => task[2] # st
  PROVE  Good(task)'
<1>1. /\ fresh \in Nat /\ program \in 0..fresh /\ Alive \subseteq 1..fresh
      /\ References = 0..fresh
  <2>1. fresh \in Nat /\ program \in References /\ Alive \subseteq Address
    BY DEF TypeOK
  <2>2. References = 0..fresh
    BY <2>1 DEF References, Address, NULL
  <2> QED
    BY <2>1, <2>2 DEF Address
<1>2. /\ fresh <= fresh' /\ fresh' \in Nat /\ Alive \subseteq Alive'
      /\ \A a \in Alive' : a <= fresh => a \in Alive
      /\ \A a \in Alive : /\ a <= fresh /\ heap'[a].tag = heap[a].tag
                          /\ a # st => heap'[a].kids = KidsOf(a)
      /\ \A v, kind : Is(v, kind) => Is(v, kind)'
  BY GrowKeeps
<1>3. References \subseteq References'
  BY <1>1, <1>2 DEF References, Address
<1>4. ASSUME NEW u \in 0..fresh, Apart(u)
      PROVE  Apart(u)'
  <2>1. IsString(u) => IsString(u)'
    BY <1>2, <1>4, <1>1 DEF IsString
  <2> QED
    BY <2>1, <1>4 DEF Apart
<1>5. CASE task[1] \in {"free", "free node"}
  <2>1. /\ task[2] \in References
        /\ task[1] = "free" /\ task[2] \in Alive => KidsOf(task[2]) = <<>>
        /\ program # NULL => Apart(task[2])
        /\ program # NULL /\ task[1] = "free node" /\ task[2] \in Alive =>
             \A i \in DOMAIN KidsOf(task[2]) :
               Is(KidsOf(task[2])[i], "string") /\ Apart(KidsOf(task[2])[i])
    BY <1>5 DEF Good, Borrowing, Borrows
  <2>2. task[2] \in References'
    BY <2>1, <1>3
  <2>3. task[2] \in Alive' => task[2] \in Alive /\ KidsOf(task[2])' = KidsOf(task[2])
    <3>1. Releasing(task)
      BY <1>5 DEF Releasing
    <3>2. PICK u : u = task[2]
      OBVIOUS
    <3>3. u \in References
      BY <3>2, <2>1
    <3>4. u \in Alive' => u \in Alive /\ u # st
      BY <3>1, <3>2, <3>3, <1>1, <1>2
    <3>5. u \in Alive' => heap'[u].kids = heap[u].kids
      BY <3>4, <1>2 DEF KidsOf
    <3> QED
      BY <3>2, <3>4, <3>5 DEF KidsOf
  <2>4. program' # NULL => Apart(task[2])'
    BY <2>1, <1>1, <1>4
  <2>5. ASSUME program' # NULL, task[1] = "free node", task[2] \in Alive'
        PROVE  \A i \in DOMAIN KidsOf(task[2])' :
                 Is(KidsOf(task[2])[i], "string")' /\ Apart(KidsOf(task[2])[i])'
    <3>1. PICK k : k = KidsOf(task[2]) /\ k = KidsOf(task[2])'
      BY <2>3, <2>5
    <3>2. ASSUME NEW i \in DOMAIN k
          PROVE  Is(k[i], "string")' /\ Apart(k[i])'
      <4>1. Is(k[i], "string") /\ Apart(k[i])
        BY <2>1, <2>3, <2>5, <3>1
      <4>2. PICK u : u = k[i]
        OBVIOUS
      <4>3. u \in 0..fresh
        BY <4>1, <4>2, <1>1 DEF Is, Address
      <4> QED
        BY <4>1, <4>2, <4>3, <1>2, <1>4
    <3> QED
      BY <3>1, <3>2 DEF KidsOf
  <2> QED
    BY <1>5, <2>1, <2>2, <2>3, <2>4, <2>5 DEF Good
<1>6. CASE task[1] = "resolve"
  <2>1. /\ program # NULL /\ Is(task[2], "string") /\ Apart(task[2])
        /\ Is(task[3], "result") /\ task[3] <= program
    BY <1>6 DEF Good, Borrowing, Borrows
  <2>2. task[2] \in 0..fresh
    BY <2>1, <1>1 DEF Is, Address
  <2>3. Apart(task[2])'
    BY <2>1, <2>2, <1>4
  <2>4. Is(task[2], "string")' /\ Is(task[3], "result")'
    BY <2>1, <1>2
  <2> QED
    BY <1>6, <2>1, <2>3, <2>4 DEF Good
<1>7. CASE Borrowing(task)
  <2>1. /\ program # NULL /\ task[2] \in 0..program
        /\ causes = {} /\ task[2] # NULL => task[2] \in Alive
        /\ task[1] = "formals" /\ task[2] \in Alive => heap[task[2]].tag = "decls"
    BY <1>7 DEF Good, Borrowing, Borrows
  <2>2. task[2] \in Alive' => task[2] \in Alive
    BY <2>1, <1>1, <1>2
  <2>3. causes' = {} => causes = {}
    OBVIOUS
  <2> QED
    BY <1>7, <2>1, <2>2, <2>3, <1>2 DEF Good, Borrowing, Borrows
<1> QED
  BY <1>5, <1>6, <1>7 DEF Good

(* Work ahead with its end told apart *)
LaterIs(w, tail) ==
  vals = <<>> /\ IsSeq(w) /\ todo = w \o tail /\ Ending(tail) /\ Ordered(w, tail)

LEMMA EndsFacts ==
  \A tail : Ending(tail) => /\ IsSeq(tail) /\ tail # <<>> /\ Len(tail) \in 1..3
                            /\ \A i \in 1..Len(tail) : tail[i] \in {FP, SF, RET}
<1> SUFFICES ASSUME NEW tail \in Ends
             PROVE  /\ IsSeq(tail) /\ tail # <<>> /\ Len(tail) \in 1..3
                    /\ \A i \in 1..Len(tail) : tail[i] \in {FP, SF, RET}
  BY DEF Ending
<1>1. /\ \A a : Len(<<a>>) = 1 /\ <<a>>[1] = a
      /\ \A a, b : Len(<<a, b>>) = 2 /\ <<a, b>>[1] = a /\ <<a, b>>[2] = b
      /\ \A a, b, c : /\ Len(<<a, b, c>>) = 3 /\ <<a, b, c>>[1] = a
                       /\ <<a, b, c>>[2] = b /\ <<a, b, c>>[3] = c
  OBVIOUS
<1>2. IsSeq(tail) /\ Len(tail) \in 1..3
  BY <1>1, IsSeqShort DEF Ends
<1>3. \A i \in 1..Len(tail) : tail[i] \in {FP, SF, RET}
  <2>1. CASE tail = <<RET>>
    BY <2>1, <1>1
  <2>2. CASE tail = <<FP, RET>>
    BY <2>2, <1>1
  <2>3. CASE tail = <<SF, RET>>
    BY <2>3, <1>1
  <2>4. CASE tail = <<FP, SF, RET>>
    BY <2>4, <1>1
  <2> QED
    BY <2>1, <2>2, <2>3, <2>4 DEF Ends
<1> QED
  BY <1>2, <1>3, SeqFacts

(* The head of the work ahead is at the end of it, or before. *)
LEMMA LaterHead ==
  ASSUME NEW w, NEW tail, LaterIs(w, tail)
  PROVE  /\ IsSeq(todo) /\ todo # <<>>
         /\ w = <<>> => Head(todo) = Head(tail) /\ Tail(todo) = Tail(tail)
         /\ w # <<>> => /\ Head(todo) = w[1] /\ Tail(todo) = Tail(w) \o tail
                        /\ Good(Head(todo)) /\ 1 \in 1..Len(w) /\ Head(todo) = Head(w)
<1>1. IsSeq(w) /\ IsSeq(tail) /\ tail # <<>> /\ todo = w \o tail /\ Ordered(w, tail)
  BY EndsFacts DEF LaterIs
<1>2. IsSeq(todo)
  BY <1>1, SeqFacts
<1>3. CASE w = <<>>
  <2>1. todo = tail
    BY <1>1, <1>3, Concatenated
  <2> QED
    BY <2>1, <1>1, <1>2, <1>3
<1>4. CASE w # <<>>
  <2>1. Head(todo) = Head(w) /\ Tail(todo) = Tail(w) \o tail /\ todo # <<>>
    BY <1>1, <1>4, Concatenated
  <2>2. Head(w) = w[1] /\ 1 \in 1..Len(w)
    BY <1>1, <1>4, SeqFacts
  <2>3. Good(w[1])
    BY <2>2, <1>1 DEF Ordered
  <2> QED
    BY <2>1, <2>2, <2>3, <1>2, <1>4
<1> QED
  BY <1>3, <1>4

(* A task other than those that end a compilation belongs to the walks. *)
LEMMA LaterWork ==
  ASSUME NEW w, NEW tail, LaterIs(w, tail), Head(todo)[1] \notin {"free_program", "stab_free", "return"}
  PROVE  w # <<>>
<1> SUFFICES ASSUME w = <<>>
             PROVE  FALSE
  OBVIOUS
<1>1. Head(todo) = Head(tail)
  BY LaterHead
<1>2. Head(tail) \in {FP, SF, RET}
  BY EndsFacts, SeqFacts DEF LaterIs
<1> QED
  BY <1>1, <1>2 DEF FP, SF, RET

LEMMA GrowLater ==
  ASSUME Memory, NEW w, NEW tail, LaterIs(w, tail), w # <<>>,
         NEW work, NEW nodes, NEW entries, Does(work, nodes, entries),
         \A i \in 1..Len(work) : Good(work[i])',
         \A i \in 1..Len(work) : Analyzing(work[i]) =>
           /\ Analyzing(Head(todo)) /\ st' # NULL
           /\ work[i][1] = "analyze" => work[i][2] # program,
         st' # st => Analyzing(Head(todo))
  PROVE  Later'
<1> DEFINE ahead == work \o Tail(w)
<1>1. /\ IsSeq(w) /\ IsSeq(tail) /\ IsSeq(work) /\ IsSeq(Tail(w)) /\ Head(todo) = w[1]
      /\ Tail(todo) = Tail(w) \o tail /\ Ending(tail) /\ Ordered(w, tail)
      /\ Len(Tail(w)) = Len(w) - 1 /\ Len(w) \in Nat /\ Len(w) > 0 /\ Len(work) \in Nat
      /\ \A i \in 1..(Len(w) - 1) : Tail(w)[i] = w[i + 1]
  BY LaterHead, EndsFacts, SeqFacts, SMTT(40) DEF LaterIs, Does
<1>2. IsSeq(ahead) /\ todo' = ahead \o tail
  <2>1. todo' = work \o (Tail(w) \o tail)
    BY <1>1 DEF Does, Then
  <2>2. IsSeq(ahead)
    BY <1>1, SeqFacts
  <2>3. ahead \o tail = work \o (Tail(w) \o tail)
    <3>1. IsSeq(work) /\ IsSeq(Tail(w)) /\ IsSeq(tail)
      BY <1>1
    <3> QED
      BY <3>1, ConcatAssociative
  <2> QED
    BY <2>1, <2>2, <2>3
<1>3. Analyzing(Head(todo)) =>
        /\ tail = <<FP, SF, RET>>
        /\ IF st = NULL THEN Len(w) = 1 /\ Head(todo) = <<"analyze", program>>
                        ELSE Head(todo)[1] = "analyze" => Head(todo)[2] # program
  <2>1. 1 \in 1..Len(w)
    BY <1>1
  <2> QED
    BY <2>1, <1>1 DEF Ordered
<1>4. Ending(tail)'
  <2>1. st' = st \/ tail = <<FP, SF, RET>>
    BY <1>3
  <2>2. /\ tail \in Ends
        /\ program # NULL => tail \in {<<FP, RET>>, <<FP, SF, RET>>}
        /\ st # NULL => tail \in {<<FP, SF, RET>>, <<SF, RET>>}
    BY <1>1 DEF Ending
  <2>3. program' = program
    BY DEF Does
  <2> QED
    BY <2>1, <2>2, <2>3 DEF Ending
<1>5. Len(ahead) = Len(work) + Len(w) - 1
  BY <1>1, SeqFacts
<1>6. ASSUME NEW i \in 1..Len(ahead)
      PROVE  /\ Good(ahead[i])'
             /\ Analyzing(ahead[i]) =>
                  /\ tail = <<FP, SF, RET>>
                  /\ IF st' = NULL THEN i = Len(ahead) /\ ahead[i] = <<"analyze", program>>
                                   ELSE ahead[i][1] = "analyze" => ahead[i][2] # program
  <2>1. CASE i \in 1..Len(work)
    <3>1. ahead[i] = work[i]
      BY <2>1, <1>1, SeqFacts
    <3> QED
      BY <3>1, <2>1, <1>3
  <2>2. CASE i \notin 1..Len(work)
    <3>1. PICK j \in 1..(Len(w) - 1) : i = Len(work) + j
      <4>1. i - Len(work) \in 1..(Len(w) - 1) /\ i = Len(work) + (i - Len(work))
        BY <2>2, <1>1, <1>5
      <4> QED
        BY <4>1
    <3>2. ahead[i] = w[j + 1] /\ j + 1 \in 1..Len(w) /\ Len(w) > 1
      <4>1. IsSeq(work) /\ IsSeq(Tail(w))
        BY <1>1
      <4>2. j \in 1..Len(Tail(w)) /\ j + 1 \in 1..Len(w) /\ Len(w) > 1
        BY <3>1, <1>1
      <4>3. (work \o Tail(w))[Len(work) + j] = Tail(w)[j]
        BY <4>1, <4>2, Joined
      <4>4. Tail(w)[j] = w[j + 1]
        BY <1>1, <3>1
      <4> QED
        BY <3>1, <4>2, <4>3, <4>4
    <3>3. Good(w[j + 1])
      BY <3>2, <1>1 DEF Ordered
    <3>4. Releasing(w[j + 1]) /\ w[j + 1][2] \in Alive => w[j + 1][2] # st
      <4> SUFFICES ASSUME Releasing(w[j + 1]), w[j + 1][2] = st, st \in Alive
                   PROVE  FALSE
        OBVIOUS
      <4>1. todo[j + 1] = w[j + 1] /\ j + 1 \in DOMAIN todo
        <5>1. DOMAIN todo = 1..(Len(w) + Len(tail)) /\ Len(tail) \in Nat
          BY <1>1, SeqFacts DEF LaterIs
        <5> QED
          BY <5>1, <3>2, <1>1, SeqFacts DEF LaterIs
      <4>2. Releasing(todo[j + 1]) /\ IsSeq(todo)
        BY <4>1, LaterHead
      <4>3. heap[st].tag # "string"
        <5>1. st \in 1..fresh
          BY DEF Memory, TypeOK, Address
        <5>2. st # NULL
          BY <5>1 DEF NULL
        <5> QED
          BY <5>2 DEF Memory, Stabbed, Tagged
      <4> QED
        BY <4>1, <4>2, <4>3, Freed1
    <3>5. Good(w[j + 1])'
      <4>1. TypeOK /\ Stabbed
        BY SMTT(40) DEF Memory
      <4> QED
        BY <4>1, <3>3, <3>4, GoodKept DEF Does
    <3>6. Analyzing(w[j + 1]) =>
            /\ tail = <<FP, SF, RET>>
            /\ IF st = NULL THEN j + 1 = Len(w) /\ w[j + 1] = <<"analyze", program>>
                            ELSE w[j + 1][1] = "analyze" => w[j + 1][2] # program
      BY <3>2, <1>1 DEF Ordered
    <3>7. st' = st
      <4>1. Len(w) # 1
        BY <3>2, <1>1
      <4> QED
        BY <4>1, <1>3 DEF Does
    <3>8. j + 1 = Len(w) => i = Len(ahead)
      <4>1. Len(work) \in Int /\ Len(w) \in Int /\ j \in Int
        BY <1>1
      <4> HIDE DEF ahead
      <4> QED
        BY <4>1, <3>1, <1>5
    <3> QED
      BY <3>2, <3>5, <3>6, <3>7, <3>8
  <2> QED
    BY <2>1, <2>2
<1>7. PICK v : v = ahead
  OBVIOUS
<1>8. Ordered(v, tail)'
  BY <1>6, <1>7 DEF Ordered, Analyzing, Does
<1> QED
  BY <1>2, <1>4, <1>7, <1>8 DEF Later, LaterIs, Does

-----------------------------------------------------------------------------
(* Which stage a task belongs to *)

LEMMA TwoFirst ==
  /\ \A a, b : <<a, b>>[1] = a /\ <<a, b>>[2] = b /\ Len(<<a, b>>) = 2
               /\ Head(<<a, b>>) = a /\ Tail(<<a, b>>) = <<b>> /\ <<a, b>> # <<>>
  /\ \A a, b, c : /\ <<a, b, c>>[1] = a /\ <<a, b, c>>[2] = b /\ <<a, b, c>>[3] = c
                  /\ Len(<<a, b, c>>) = 3 /\ Head(<<a, b, c>>) = a
                  /\ Tail(<<a, b, c>>) = <<b, c>> /\ <<a, b, c>> # <<>>
  /\ \A a : <<a>>[1] = a /\ Len(<<a>>) = 1 /\ Head(<<a>>) = a /\ Tail(<<a>>) = <<>> /\ <<a>> # <<>>
OBVIOUS

ParseTasks == {"token", "expect", "null", "operator", "parse", "build", "add", "more", "accept",
               "build subprogram"}
LEMMA StepTasks == \A task, s, t : Step(task, s, t) => task[1] \in ParseTasks
<1> SUFFICES ASSUME NEW task, NEW s, NEW t, Step(task, s, t)
             PROVE  task[1] \in ParseTasks
  OBVIOUS
<1>1. \A symbol : task = Parse(symbol) => task[1] = "parse"
  BY DEF Parse
<1>2. \A tag, n : task = Build(tag, n) => task[1] = "build"
  BY DEF Build
<1>3. \A work : task = More(work) => task[1] = "more"
  BY DEF More
<1>4. /\ task = Token => task[1] = "token"
      /\ task = Expect => task[1] = "expect"
      /\ task = Null => task[1] = "null"
      /\ task = Operator => task[1] = "operator"
      /\ task = Add => task[1] = "add"
      /\ task = <<"build subprogram">> => task[1] = "build subprogram"
  BY TwoFirst DEF Token, Expect, Null, Operator, Add
<1>5. \/ task \in {Token, Expect, Null, Operator, Add, <<"build subprogram">>}
      \/ \E symbol : task = Parse(symbol)
      \/ \E tag, n : task = Build(tag, n)
      \/ \E work : task = More(work)
  BY DEF Step
<1> QED
  BY <1>1, <1>2, <1>3, <1>4, <1>5 DEF ParseTasks

LEMMA ParsingHead ==
  ASSUME Parsing
  PROVE  IsSeq(todo) /\ todo # <<>> /\ Head(todo)[1] \in ParseTasks \cup {"end"}
<1>1. ACCEPT[1] = "accept" /\ END[1] = "end" /\ Parse("program")[1] = "parse"
  BY TwoFirst DEF ACCEPT, END, Parse
<1>2. PICK ends : ends = <<ACCEPT, END>>
  OBVIOUS
<1>3. IsSeq(ends) /\ ends # <<>> /\ Head(ends) = ACCEPT
  BY <1>2, IsSeqShort, TwoFirst
<1>4. CASE todo \in {<<END>>, <<Parse("program"), END>>}
  <2>1. CASE todo = <<END>>
    BY <2>1, <1>1, IsSeqShort, TwoFirst
  <2>2. CASE todo = <<Parse("program"), END>>
    <3>1. IsSeq(todo) /\ todo # <<>> /\ Head(todo) = Parse("program")
      BY ONLY <2>2, IsSeqShort, TwoFirst
    <3> QED
      BY <3>1, <1>1 DEF ParseTasks
  <2> QED
    BY <1>4, <2>1, <2>2
<1>5. CASE \E w, s : ParsingIs(w, s)
  <2>1. PICK w, s : IsSeq(w) /\ todo = w \o ends /\ Run(w, s, ProgramKinds)
    BY <1>2, <1>5 DEF ParsingIs
  <2>2. CASE w = <<>>
    <3>1. todo = ends
      BY <2>1, <2>2, <1>3, Concatenated
    <3> QED
      BY <3>1, <1>1, <1>3 DEF ParseTasks
  <2>3. CASE w # <<>>
    <3>1. Head(todo) = w[1] /\ todo # <<>> /\ 1 \in 1..Len(w)
      BY <2>1, <2>3, <1>3, Concatenated, SeqFacts
    <3>2. w[1][1] \in ParseTasks
      BY <2>1, <3>1, StepTasks DEF Run
    <3>3. IsSeq(todo)
      BY <2>1, <1>3, SeqFacts
    <3> QED
      BY <3>1, <3>2, <3>3
  <2> QED
    BY <2>2, <2>3
<1> QED
  BY <1>4, <1>5 DEF Parsing

LEMMA RestFacts ==
  \A rest \in Rests : IsSeq(rest)
BY IsSeqShort DEF Rests

LEMMA DumpingHead ==
  ASSUME Dumping
  PROVE  IsSeq(todo) /\ todo # <<>> /\ Head(todo)[1] \in {"lex", "use", "free"}
<1>1. PICK rest \in Rests :
        \/ todo = <<<<"lex">>>> \o rest
        \/ \E a \in Alive : todo \in {<<<<"use", a>>, <<"free", a>>, <<"lex">>>> \o rest,
                                      <<<<"free", a>>, <<"lex">>>> \o rest}
  BY DEF Dumping
<1>2. IsSeq(rest)
  BY RestFacts
<1>3. \A s : IsSeq(s) /\ s # <<>> =>
        IsSeq(s \o rest) /\ s \o rest # <<>> /\ Head(s \o rest) = Head(s)
  BY <1>2, SeqFacts, Concatenated
<1>4. \A a, b, c : /\ IsSeq(<<a>>) /\ <<a>> # <<>> /\ Head(<<a>>) = a
                   /\ IsSeq(<<a, b>>) /\ <<a, b>> # <<>> /\ Head(<<a, b>>) = a
                   /\ IsSeq(<<a, b, c>>) /\ <<a, b, c>> # <<>> /\ Head(<<a, b, c>>) = a
  BY IsSeqShort, TwoFirst
<1>5. CASE todo = <<<<"lex">>>> \o rest
  <2>1. PICK s : s = <<<<"lex">>>>
    OBVIOUS
  <2>2. IsSeq(s) /\ s # <<>> /\ Head(s)[1] = "lex"
    BY <2>1, <1>4, TwoFirst
  <2> QED
    BY <2>1, <2>2, <1>3, <1>5
<1>6. CASE \E a \in Alive : todo \in {<<<<"use", a>>, <<"free", a>>, <<"lex">>>> \o rest,
                                      <<<<"free", a>>, <<"lex">>>> \o rest}
  <2>1. PICK a \in Alive : todo \in {<<<<"use", a>>, <<"free", a>>, <<"lex">>>> \o rest,
                                     <<<<"free", a>>, <<"lex">>>> \o rest}
    BY <1>6
  <2>2. CASE todo = <<<<"use", a>>, <<"free", a>>, <<"lex">>>> \o rest
    <3>1. PICK s : s = <<<<"use", a>>, <<"free", a>>, <<"lex">>>>
      OBVIOUS
    <3>2. IsSeq(s) /\ s # <<>> /\ Head(s)[1] = "use"
      <4>1. IsSeq(s) /\ s # <<>> /\ Head(s) = <<"use", a>>
        BY <3>1, <1>4
      <4> QED
        BY <4>1, TwoFirst
    <3> QED
      BY <3>1, <3>2, <1>3, <2>2
  <2>3. CASE todo = <<<<"free", a>>, <<"lex">>>> \o rest
    <3>1. PICK s : s = <<<<"free", a>>, <<"lex">>>>
      OBVIOUS
    <3>2. IsSeq(s) /\ s # <<>> /\ Head(s)[1] = "free"
      <4>1. IsSeq(s) /\ s # <<>> /\ Head(s) = <<"free", a>>
        BY <3>1, <1>4
      <4> QED
        BY <4>1, TwoFirst
    <3> QED
      BY <3>1, <3>2, <1>3, <2>3
  <2> QED
    BY <2>1, <2>2, <2>3
<1> QED
  BY <1>1, <1>5, <1>6

OnWalk == \E w, tail : LaterIs(w, tail) /\ w # <<>>
WalkTasks == {"print", "analyze", "import", "add var", "formals", "resolve", "free node"}
LEMMA Walking ==
  ASSUME Sound, phase = "run"
  PROVE  /\ Memory /\ IsSeq(todo) /\ todo # <<>>
         /\ Head(todo)[1] \in WalkTasks \cup {"free_program", "stab_free", "return"} => Later
         /\ Head(todo)[1] \in WalkTasks => OnWalk
         /\ Later /\ Head(todo)[1] \in {"use", "free"} => OnWalk
<1>1. Memory /\ (Dumping \/ Parsing \/ Later)
  BY DEF Sound
<1>2. Later => \E w, tail : LaterIs(w, tail)
  BY DEF Later, LaterIs
<1>3. IsSeq(todo) /\ todo # <<>>
  BY <1>1, <1>2, ParsingHead, DumpingHead, LaterHead
<1>4. Head(todo)[1] \in WalkTasks \cup {"free_program", "stab_free", "return"} => Later
  BY <1>1, ParsingHead, DumpingHead DEF WalkTasks, ParseTasks
<1>5. Head(todo)[1] \in WalkTasks => OnWalk
  BY <1>2, <1>4, LaterWork DEF WalkTasks, OnWalk
<1>6. Later /\ Head(todo)[1] \in {"use", "free"} => OnWalk
  BY <1>2, LaterWork DEF OnWalk
<1> QED
  BY <1>1, <1>3, <1>4, <1>5, <1>6

LEMMA GrowSound ==
  ASSUME Sound, phase = "run", OnWalk,
         NEW work, NEW nodes, NEW entries, NEW o,
         Does(work, nodes, entries), Accounts(work, nodes, entries, o),
         \A i \in 1..Len(work) : Good(work[i])',
         \A i \in 1..Len(work) : Analyzing(work[i]) =>
           /\ Analyzing(Head(todo)) /\ st' # NULL
           /\ work[i][1] = "analyze" => work[i][2] # program,
         st' # st => Analyzing(Head(todo))
  PROVE  Sound'
<1>1. PICK w, tail : LaterIs(w, tail) /\ w # <<>>
  BY DEF OnWalk
<1>2. Memory' /\ Later'
  BY <1>1, Walking, GrowMemory, GrowLater
<1> QED
  BY <1>2 DEF Sound, Memory, NoMisuse, Does

-----------------------------------------------------------------------------
(* Walks over the tree *)

LEMMA MadeSeq ==
  ASSUME NEW n \in Nat, NEW f, f = [i \in 1..n |-> f[i]]
  PROVE  IsSeq(f) /\ Len(f) = n
<1> DEFINE S == {f[i] : i \in 1..n}
<1>1. f \in [1..n -> S]
  OBVIOUS
<1>2. f \in Seq(S)
  BY <1>1
<1>3. DOMAIN f = 1..Len(f) /\ Len(f) \in Nat
  BY <1>2
<1>4. DOMAIN f = 1..n
  BY <1>1
<1>5. Len(f) = n
  BY <1>3, <1>4
<1> QED
  BY <1>2, <1>5 DEF IsSeq

LEMMA EachFacts ==
  ASSUME NEW what, NEW kids, IsSeq(kids)
  PROVE  /\ IsSeq(Each(what, kids)) /\ Len(Each(what, kids)) = Len(kids)
         /\ \A i \in 1..Len(kids) : Each(what, kids)[i] = <<what, kids[i]>>
<1>1. DOMAIN kids = 1..Len(kids) /\ Len(kids) \in Nat
  BY SeqFacts
<1>2. PICK f : f = [i \in 1..Len(kids) |-> <<what, kids[i]>>]
  OBVIOUS
<1>3. \A i \in 1..Len(kids) : f[i] = <<what, kids[i]>>
  BY <1>2
<1>4. f = [i \in 1..Len(kids) |-> f[i]]
  BY <1>2, <1>3
<1>5. f = Each(what, kids)
  BY <1>1, <1>2 DEF Each
<1> QED
  BY <1>1, <1>3, <1>4, <1>5, MadeSeq

(* What a walk over the tree may come to. *)
InTree(v) == v \in 0..program /\ (causes = {} /\ v # NULL => v \in Alive) /\ v # program

LEMMA TreeNode ==
  ASSUME Memory, NEW w, NEW tail, LaterIs(w, tail), program # NULL,
         NEW a \in Alive, a <= program
  PROVE  /\ Shaped(a) /\ IsSeq(KidsOf(a)) /\ KidsOf(a) \in Seq(References)
         /\ a # st /\ a \in 1..fresh
         /\ \A i \in DOMAIN KidsOf(a) : InTree(KidsOf(a)[i])
<1>1. /\ TypeOK /\ Records /\ Shape /\ Owned /\ Rooted /\ Stabbed
      /\ fresh \in Nat /\ program \in 1..fresh /\ a \in 1..fresh
      /\ KidsOf(a) \in Seq(References) /\ IsSeq(KidsOf(a))
  <2>1. TypeOK /\ Records /\ Shape /\ Owned /\ Rooted /\ Stabbed
    BY DEF Memory
  <2> QED
    BY <2>1 DEF TypeOK, Address, References, NULL, IsSeq
<1>2. Tagged(program, "program") /\ st # NULL => st > program
  BY <1>1 DEF Rooted
<1>3. a # st
  <2> SUFFICES ASSUME a = st
               PROVE  FALSE
    OBVIOUS
  <2>1. st # NULL /\ st > program
    BY <1>1 DEF Rooted, NULL
  <2> QED
    BY <2>1, <1>1
<1>4. Shaped(a)
  <2>1. CASE Emptied(a)
    <3>1. PICK i \in DOMAIN todo : todo[i][1] = "free" /\ todo[i][2] = a
      BY <2>1 DEF Emptied
    <3>2. /\ IsSeq(w) /\ IsSeq(tail) /\ todo = w \o tail /\ Ordered(w, tail)
          /\ Len(w) \in Nat /\ Len(tail) \in Nat /\ DOMAIN todo = 1..(Len(w) + Len(tail))
          /\ \A j \in 1..Len(tail) : tail[j] \in {FP, SF, RET}
      BY EndsFacts, SeqFacts DEF LaterIs
    <3>3. i \in 1..Len(w)
      <4> SUFFICES ASSUME i \notin 1..Len(w)
                   PROVE  FALSE
        OBVIOUS
      <4>1. i - Len(w) \in 1..Len(tail) /\ i = Len(w) + (i - Len(w))
        BY <3>1, <3>2
      <4>2. todo[i] = tail[i - Len(w)]
        BY <3>2, <4>1, SeqFacts
      <4>3. todo[i][1] \in {"free_program", "stab_free", "return"}
        BY <3>2, <4>1, <4>2, TwoFirst DEF FP, SF, RET
      <4> QED
        BY <3>1, <4>3
    <3>4. todo[i] = w[i] /\ Good(w[i])
      BY <3>2, <3>3, SeqFacts DEF Ordered
    <3>5. Apart(a)
      BY <3>1, <3>4 DEF Good, Borrowing, Borrows
    <3>6. heap[a].tag = "string"
      BY <3>5, <1>1 DEF Apart, IsString, NULL
    <3> QED
      BY <3>6, <2>1 DEF Emptied, Shaped, Layouts
  <2> QED
    BY <2>1, <1>1 DEF Shape
<1>5. ASSUME NEW i \in DOMAIN KidsOf(a)
      PROVE  InTree(KidsOf(a)[i])
  <2> DEFINE v == KidsOf(a)[i]
  <2>1. v \in 0..program
    <3>1. v \in 0..fresh /\ v <= program
      BY <1>1 DEF Rooted, References, Address, NULL
    <3> QED
      BY <3>1, <1>1
  <2>2. causes = {} /\ v # NULL => v \in Alive
    <3>1. PICK p : p = <<"field", a, i>>
      OBVIOUS
    <3>2. v # NULL => p \in Owners /\ Held(p) = v
      BY <3>1, <2>1, PlaceFacts DEF PlaceLaws, NULL
    <3> QED
      BY <3>2, <1>1 DEF Owned
  <2>3. v # program
    <3>1. program \in Alive /\ heap[program].tag # "string"
      BY <1>1 DEF Rooted, Tagged
    <3> QED
      BY <3>1, <1>1, Held1
  <2> QED
    BY <2>1, <2>2, <2>3 DEF InTree
<1> QED
  BY <1>1, <1>3, <1>4, <1>5

LEMMA BorrowKept ==
  ASSUME Memory, NEW nodes, NEW entries, Grows(nodes, entries),
         program' = program, causes \subseteq causes', program # NULL, NEW v, InTree(v),
         NEW what \in Borrows,
         what = "formals" => v = NULL \/ Tagged(v, "decls")
  PROVE  Good(<<what, v>>)'
<1>1. PICK task : task = <<what, v>>
  OBVIOUS
<1>2. task[1] = what /\ task[2] = v
  BY <1>1, TwoFirst
<1>3. 0 \notin Alive
  <2>1. Alive \subseteq 1..fresh /\ fresh \in Nat
    BY DEF Memory, TypeOK, Address
  <2> QED
    BY <2>1
<1>4. Good(task)
  BY <1>2, <1>3 DEF Good, Borrowing, Borrows, InTree, Tagged, NULL
<1>5. Good(task)'
  <2>1. task[1] # "free"
    BY <1>2 DEF Borrows
  <2>2. ~Releasing(task)
    BY <1>2 DEF Borrows, Releasing
  <2> QED
    BY <2>1, <2>2, <1>4, GoodKept DEF Memory
<1> QED
  BY <1>1, <1>5

LEMMA GrowNothing ==
  ASSUME TypeOK, Records, UNCHANGED <<heap, fresh>>
  PROVE  Grows(<<>>, <<>>) /\ Enters(<<>>, <<>>)
<1>1. Len(<<>>) = 0 /\ IsSeq(<<>>)
  BY SeqFacts
<1>2. \A a \in Alive : heap[a] = Node(heap[a].tag, KidsOf(a)) /\ KidsOf(a) \o <<>> = KidsOf(a)
  <2>1. \A a \in Alive : IsSeq(KidsOf(a))
    BY DEF TypeOK, IsSeq
  <2> QED
    BY <2>1, Concatenated DEF Records, KidsOf
<1>3. fresh \in Nat
  BY DEF TypeOK
<1>4. fresh' = fresh + 0 /\ Alive' = Alive \cup (fresh + 1)..(fresh + 0) /\ Records'
  <2>1. heap' = heap /\ fresh' = fresh
    OBVIOUS
  <2>2. Alive' = Alive
    BY <2>1 DEF Alive
  <2>3. (fresh + 1)..(fresh + 0) = {}
    BY <1>3
  <2> QED
    BY <1>3, <2>1, <2>2, <2>3 DEF Records
<1>5. Grows(<<>>, <<>>)
  BY <1>1, <1>2, <1>4 DEF Grows
<1>6. Enters(<<>>, <<>>)
  BY <1>1 DEF Enters
<1> QED
  BY <1>5, <1>6

LEMMA WalkSound ==
  ASSUME Sound, phase = "run", OnWalk, Head(todo)[1] # "free" \/ Arg = NULL,
         NEW work, NEW o, IsSeq(work), Then(work),
         UNCHANGED <<heap, fresh, vals, program, st, room, phase>>,
         causes \subseteq causes', causes' \subseteq Shares,
         \A i \in 1..Len(work) : Releasing(work[i]) =>
           Accounted(work[i][2], <<"call", Len(todo) + Len(work) - 1 - i, 0>>, o, 0),
         \A v \in Moved(0) : \E i \in 1..Len(work) : Releasing(work[i]) /\ work[i][2] = v,
         \A i \in 1..Len(work) : Good(work[i])',
         \A i \in 1..Len(work) : Analyzing(work[i]) =>
           /\ Analyzing(Head(todo)) /\ st # NULL
           /\ work[i][1] = "analyze" => work[i][2] # program
  PROVE  Sound'
<1>1. Len(<<>>) = 0 /\ Memory /\ todo # <<>>
  BY SeqFacts, Walking
<1>2. Does(work, <<>>, <<>>)
  <2>1. Grows(<<>>, <<>>) /\ Enters(<<>>, <<>>)
    BY <1>1, GrowNothing DEF Memory
  <2> QED
    BY <1>1, <2>1 DEF Does
<1>3. Accounts(work, <<>>, <<>>, o)
  <2>1. st = NULL => Accounted(st', <<"st", 0, 0>>, o, 0)
    <3>1. st' = st
      OBVIOUS
    <3> QED
      BY <3>1 DEF Accounted, NULL
  <2>2. 1..0 = {}
    OBVIOUS
  <2> QED
    BY <2>1, <2>2, <1>1 DEF Accounts
<1> QED
  BY <1>2, <1>3, GrowSound

LEMMA LayoutOf ==
  ASSUME NEW a, Shaped(a)
  PROVE  /\ heap[a].tag = "program" => Fields(KidsOf(a), ProgramKinds)
         /\ heap[a].tag = "subdecl" =>
              Fields(KidsOf(a), <<"string", "function", "list", "list", "list", "ref">>)
         /\ heap[a].tag = "TYPE_FUNCTION" => Fields(KidsOf(a), <<"formals", "result">>)
         /\ heap[a].tag = "decls" => Fields(KidsOf(a), <<"names", "type">>)
         /\ heap[a].tag = "EXPR_APP" => Fields(KidsOf(a), <<"path", "list">>)
         /\ heap[a].tag = "type_decl" => Fields(KidsOf(a), <<"string", "type">>)
         /\ heap[a].tag = "TYPE_POINTER" => Fields(KidsOf(a), <<"type">>)
         /\ heap[a].tag = "TYPE_ARRAY" => Fields(KidsOf(a), <<"string", "string", "type">>)
         /\ heap[a].tag = "TYPE_RECORD" => Fields(KidsOf(a), <<"fields">>)
         /\ heap[a].tag = "record_field" => Fields(KidsOf(a), <<"string", "type">>)
         /\ heap[a].tag = "STMT_FOR" => Fields(KidsOf(a), <<"string", "ref", "ref", "ref">>)
<1>1. \A tag, kinds : <<tag, kinds>> \in Layouts /\ heap[a].tag = tag => Fields(KidsOf(a), kinds)
  <2> TAKE tag, kinds
  <2>1. <<tag, kinds>>[1] = tag /\ <<tag, kinds>>[2] = kinds
    BY TwoFirst
  <2> QED
    BY <2>1 DEF Shaped
<1> QED
  BY <1>1 DEF Layouts, ProgramKinds

LEMMA Tuples ==
  /\ \A a, b, c, d : LET s == <<a, b, c, d>> IN
       IsSeq(s) /\ Len(s) = 4 /\ s[1] = a /\ s[2] = b /\ s[3] = c /\ s[4] = d
  /\ \A a, b, c, d, e : LET s == <<a, b, c, d, e>> IN
       IsSeq(s) /\ Len(s) = 5 /\ s[1] = a /\ s[2] = b /\ s[3] = c /\ s[4] = d /\ s[5] = e
  /\ \A a, b, c, d, e, f : LET s == <<a, b, c, d, e, f>> IN
       /\ IsSeq(s) /\ Len(s) = 6
       /\ s[1] = a /\ s[2] = b /\ s[3] = c /\ s[4] = d /\ s[5] = e /\ s[6] = f
<1>1. \A a, b, c, d, e, f : <<a, b, c, d, e, f>> \in Seq({a, b, c, d, e, f})
  OBVIOUS
<1>2. \A a, b, c, d, e, f : LET s == <<a, b, c, d, e, f>> IN
       /\ IsSeq(s) /\ Len(s) = 6
       /\ s[1] = a /\ s[2] = b /\ s[3] = c /\ s[4] = d /\ s[5] = e /\ s[6] = f
  <2> TAKE a, b, c, d, e, f
  <2>1. IsSeq(<<a, b, c, d, e, f>>)
    BY <1>1 DEF IsSeq
  <2> QED
    BY <2>1
<1>3. \A a, b, c, d, e : LET s == <<a, b, c, d, e>> IN
       IsSeq(s) /\ Len(s) = 5 /\ s[1] = a /\ s[2] = b /\ s[3] = c /\ s[4] = d /\ s[5] = e
  <2> TAKE a, b, c, d, e
  <2>1. IsSeq(<<a, b, c, d, e>>)
    BY IsSeqShort
  <2> QED
    BY <2>1
<1>4. \A a, b, c, d : LET s == <<a, b, c, d>> IN
       IsSeq(s) /\ Len(s) = 4 /\ s[1] = a /\ s[2] = b /\ s[3] = c /\ s[4] = d
  BY IsSeqShort
<1> QED
  BY <1>2, <1>3, <1>4

(* What is printed are fields. *)
LEMMA PrintedKids ==
  ASSUME NEW a, Shaped(a), IsSeq(KidsOf(a)), NEW p, p = Printed(heap[a].tag, KidsOf(a))
  PROVE  IsSeq(p) /\ \A j \in 1..Len(p) : \E i \in DOMAIN KidsOf(a) : p[j] = KidsOf(a)[i]
<1> DEFINE k == KidsOf(a)
<1>1. DOMAIN k = 1..Len(k)
  BY SeqFacts
<1>2. CASE heap[a].tag = "program"
  <2>1. Len(k) = 6
    BY <1>2, LayoutOf, Tuples DEF Fields, ProgramKinds
  <2>2. p = <<k[1], k[2], k[4], k[5], k[6]>>
    BY <1>2 DEF Printed
  <2>3. {1, 2, 4, 5, 6} \subseteq DOMAIN k
    BY <2>1, <1>1
  <2>4. \A j \in 1..5 : j \in {1, 2, 3, 4, 5}
    OBVIOUS
  <2>5. /\ IsSeq(p) /\ Len(p) = 5
        /\ p[1] = k[1] /\ p[2] = k[2] /\ p[3] = k[4] /\ p[4] = k[5] /\ p[5] = k[6]
    BY <2>2, Tuples
  <2> QED
    BY <2>3, <2>4, <2>5
<1>3. CASE heap[a].tag = "subdecl"
  <2>1. Len(k) = 6
    BY <1>3, LayoutOf, Tuples DEF Fields
  <2>2. p = <<k[2], k[3], k[5], k[6]>>
    BY <1>3 DEF Printed
  <2>3. {2, 3, 5, 6} \subseteq DOMAIN k
    BY <2>1, <1>1
  <2>4. \A j \in 1..4 : j \in {1, 2, 3, 4}
    OBVIOUS
  <2>5. /\ IsSeq(p) /\ Len(p) = 4
        /\ p[1] = k[2] /\ p[2] = k[3] /\ p[3] = k[5] /\ p[4] = k[6]
    BY <2>2, Tuples
  <2> QED
    BY <2>3, <2>4, <2>5
<1>4. CASE heap[a].tag = "decls"
  <2>1. Len(k) = 2
    BY <1>4, LayoutOf, TwoFirst DEF Fields
  <2>2. p = <<k[2], k[1]>>
    BY <1>4 DEF Printed
  <2>3. {1, 2} \subseteq DOMAIN k
    BY <2>1, <1>1
  <2>4. \A j \in 1..2 : j \in {1, 2}
    OBVIOUS
  <2>5. IsSeq(p) /\ Len(p) = 2 /\ p[1] = k[2] /\ p[2] = k[1]
    BY <2>2, TwoFirst, IsSeqShort
  <2> QED
    BY <2>3, <2>4, <2>5
<1>5. CASE heap[a].tag \notin {"program", "subdecl", "decls"}
  <2>1. p = k
    BY <1>5 DEF Printed
  <2> QED
    BY <2>1, <1>1
<1> QED
  BY <1>2, <1>3, <1>4, <1>5

NodeOf(a) ==
  /\ Shaped(a) /\ IsSeq(KidsOf(a)) /\ KidsOf(a) \in Seq(References)
  /\ a # st /\ a \in 1..fresh
  /\ \A i \in DOMAIN KidsOf(a) : InTree(KidsOf(a)[i])

LEMMA Visit ==
  ASSUME Sound, phase = "run", OnWalk, Borrowing(Head(todo))
  PROVE  /\ program # NULL /\ (InTree(Arg) \/ Arg = program)
         /\ program # NULL /\ Arg <= program
         /\ \A a \in Alive : a <= program => NodeOf(a)
         /\ Head(todo)[1] = "formals" /\ Arg \in Alive => heap[Arg].tag = "decls"
         /\ Analyzing(Head(todo)) =>
              IF st = NULL THEN Head(todo) = <<"analyze", program>>
                           ELSE Head(todo)[1] = "analyze" => Arg # program
<1>1. PICK w, tail : LaterIs(w, tail) /\ w # <<>>
  BY DEF OnWalk
<1>2. Memory /\ Head(todo) = w[1] /\ Good(Head(todo)) /\ 1 \in 1..Len(w) /\ Ordered(w, tail)
  BY <1>1, Walking, LaterHead DEF LaterIs
<1>3. /\ program # NULL /\ Arg \in 0..program /\ (causes = {} /\ Arg # NULL => Arg \in Alive)
      /\ Head(todo)[1] = "formals" /\ Arg \in Alive => heap[Arg].tag = "decls"
  BY <1>2 DEF Good, Borrowing, Borrows, Arg
<1>4. \A a \in Alive : a <= program => NodeOf(a)
  BY <1>1, <1>2, <1>3, TreeNode DEF NodeOf
<1>5. Analyzing(Head(todo)) =>
        IF st = NULL THEN Head(todo) = <<"analyze", program>>
                     ELSE Head(todo)[1] = "analyze" => Arg # program
  BY <1>2 DEF Ordered, Arg
<1>6. Arg <= program
  <2>1. program \in Int
    BY <1>2 DEF Memory, TypeOK, References, Address, NULL
  <2> QED
    BY <2>1, <1>3
<1> QED
  BY <1>3, <1>4, <1>5, <1>6 DEF InTree

(* Of the tasks of a walk none releases anything. *)
LEMMA Borrowed ==
  \A task : task[1] \in Borrows => ~Releasing(task) /\ (Analyzing(task) <=> task[1] # "print")
BY DEF Borrows, Releasing, Analyzing

LEMMA NothingMoved ==
  ASSUME fresh \in Nat, ~Releasing(Head(todo)) \/ ~(Arg > 0)
  PROVE  Moved(0) = {}
<1>1. (fresh + 1)..(fresh + 0) = {}
  OBVIOUS
<1> QED
  BY <1>1 DEF Moved

LEMMA TaskNames ==
  {"print", "use", "analyze", "import", "add var", "formals"} \subseteq Borrows
BY DEF Borrows

(* A step of a walk that goes on to parts of the tree. *)
LEMMA WalkOn ==
  ASSUME Sound, phase = "run", OnWalk,
         ~Releasing(Head(todo)) \/ Arg = NULL,
         NEW work, IsSeq(work), Then(work),
         UNCHANGED <<heap, fresh, vals, program, st, room, phase, causes>>,
         \A i \in 1..Len(work) : \E what \in Borrows \ {"formals"} : \E v :
           /\ work[i] = <<what, v>> /\ InTree(v) /\ program # NULL
           /\ what = "print" \/ (Analyzing(Head(todo)) /\ st # NULL)
  PROVE  Sound'
<1>1. Memory
  BY Walking
<1>2. ASSUME NEW i \in 1..Len(work)
      PROVE  /\ Good(work[i])' /\ ~Releasing(work[i])
             /\ Analyzing(work[i]) =>
                  /\ Analyzing(Head(todo)) /\ st # NULL
                  /\ work[i][1] = "analyze" => work[i][2] # program
  <2>1. PICK what, v :
           /\ what \in Borrows \ {"formals"}
           /\ work[i] = <<what, v>> /\ InTree(v) /\ program # NULL
           /\ what = "print" \/ (Analyzing(Head(todo)) /\ st # NULL)
    OBVIOUS
  <2>2. Good(work[i])'
    BY <2>1, <1>1, BorrowKept, GrowNothing DEF Memory
  <2>3. work[i][1] = what /\ work[i][2] = v
    BY <2>1, TwoFirst
  <2> QED
    BY <2>1, <2>2, <2>3, Borrowed DEF InTree
<1>3. Moved(0) = {}
  BY <1>1, NothingMoved DEF Memory, TypeOK, NULL
<1>4. Head(todo)[1] # "free" \/ Arg = NULL
  BY DEF Releasing
<1> QED
  BY <1>1, <1>2, <1>3, <1>4, WalkSound DEF Memory

LEMMA PrintNodeSound ==
  ASSUME Sound, PrintNode
  PROVE  Sound'
<1> DEFINE work == Each("print", Printed(heap[Arg].tag, heap[Arg].kids))
<1>1. /\ phase = "run" /\ todo # <<>> /\ Head(todo)[1] = "print" /\ Arg \in Alive /\ Then(work)
      /\ UNCHANGED <<heap, fresh, vals, program, st, room, phase, causes>>
  BY DEF PrintNode, At
<1>2. OnWalk /\ Borrowing(Head(todo)) /\ ~Releasing(Head(todo)) /\ "print" \in Borrows
  BY <1>1, Walking, Borrowed, TaskNames DEF WalkTasks, Borrowing
<1>3. program # NULL /\ NodeOf(Arg)
  BY <1>1, <1>2, Visit
<1>4. PICK p : p = Printed(heap[Arg].tag, heap[Arg].kids)
  OBVIOUS
<1>5. /\ IsSeq(p)
      /\ \A j \in 1..Len(p) : \E i \in DOMAIN KidsOf(Arg) : p[j] = KidsOf(Arg)[i]
  BY <1>3, <1>4, PrintedKids DEF NodeOf, KidsOf
<1>6. /\ IsSeq(work) /\ Len(work) = Len(p)
      /\ \A j \in 1..Len(p) : work[j] = <<"print", p[j]>> /\ InTree(p[j])
  BY <1>3, <1>4, <1>5, EachFacts DEF NodeOf
<1>7. PICK W : W = work
  OBVIOUS
<1> HIDE DEF work
<1> QED
  BY <1>1, <1>2, <1>3, <1>6, <1>7, WalkOn

LEMMA AnalyzePartsSound ==
  ASSUME Sound, AnalyzeParts
  PROVE  Sound'
<1> DEFINE work == Each("analyze", KidsOf(Arg))
<1>1. /\ phase = "run" /\ todo # <<>> /\ Head(todo)[1] = "analyze" /\ Arg \in Alive /\ Then(work)
      /\ heap[Arg].tag # "program"
      /\ UNCHANGED <<heap, fresh, vals, program, st, room, phase, causes>>
  BY DEF AnalyzeParts, At
<1>2. /\ OnWalk /\ Borrowing(Head(todo)) /\ ~Releasing(Head(todo)) /\ "analyze" \in Borrows
      /\ Analyzing(Head(todo))
  BY <1>1, Walking, Borrowed, TaskNames DEF WalkTasks, Borrowing
<1>3. /\ program # NULL /\ NodeOf(Arg)
      /\ IF st = NULL THEN Head(todo) = <<"analyze", program>>
                      ELSE Head(todo)[1] = "analyze" => Arg # program
  BY <1>1, <1>2, Visit
<1>4. st # NULL
  <2>1. Rooted
    BY <1>1, Walking DEF Memory
  <2>2. Head(todo) = <<"analyze", program>> => Arg = program
    BY TwoFirst DEF Arg
  <2> QED
    BY <2>1, <2>2, <1>1, <1>3 DEF Rooted, Tagged
<1>5. /\ IsSeq(work) /\ Len(work) = Len(KidsOf(Arg))
      /\ \A j \in 1..Len(work) : work[j] = <<"analyze", KidsOf(Arg)[j]>> /\ InTree(KidsOf(Arg)[j])
  BY <1>3, EachFacts, SeqFacts DEF NodeOf
<1>6. PICK W : W = work
  OBVIOUS
<1> HIDE DEF work
<1> QED
  BY <1>1, <1>2, <1>3, <1>4, <1>5, <1>6, WalkOn

LEMMA AllocateGrows ==
  ASSUME TypeOK, Records, NEW nodes, IsSeq(nodes), Allocate(nodes),
         \A i \in 1..Len(nodes) : IsSeq(nodes[i].kids) /\ nodes[i] = Node(nodes[i].tag, nodes[i].kids)
  PROVE  Grows(nodes, <<>>)
<1> DEFINE n == Len(nodes)
<1>1. /\ fresh \in Nat /\ n \in Nat /\ Alive \subseteq 1..fresh
      /\ \A a \in Alive : IsSeq(KidsOf(a))
  BY SeqFacts DEF TypeOK, Address, IsSeq
<1>2. /\ heap' = [a \in Alive \cup (fresh + 1)..(fresh + n) |->
                    IF a \in Alive THEN heap[a] ELSE nodes[a - fresh]]
      /\ fresh' = fresh + n
  BY DEF Allocate, With
<1>3. Alive' = Alive \cup (fresh + 1)..(fresh + n)
  BY <1>2 DEF Alive
<1>4. ASSUME NEW i \in 1..n
      PROVE  heap'[fresh + i] = nodes[i]
  <2>1. fresh + i \in (fresh + 1)..(fresh + n) /\ fresh + i \notin Alive /\ (fresh + i) - fresh = i
    BY <1>1
  <2> QED
    BY <2>1, <1>2
<1>5. \A a \in Alive : heap'[a] = heap[a] /\ heap[a] = Node(heap[a].tag, KidsOf(a) \o <<>>)
  <2>1. \A a \in Alive : heap'[a] = heap[a]
    BY <1>2
  <2>2. \A a \in Alive : KidsOf(a) \o <<>> = KidsOf(a)
    BY <1>1, Concatenated
  <2> QED
    BY <2>1, <2>2 DEF Records, KidsOf
<1>6. Records'
  <2>1. \A a \in Alive' : heap'[a] = Node(heap'[a].tag, heap'[a].kids)
    <3> TAKE a \in Alive'
    <3>1. CASE a \in Alive
      BY <3>1, <1>5 DEF Records
    <3>2. CASE a \notin Alive
      <4>1. PICK i \in 1..n : a = fresh + i
        <5>1. a - fresh \in 1..n /\ a = fresh + (a - fresh)
          BY <3>2, <1>1, <1>3
        <5> QED
          BY <5>1
      <4> QED
        BY <4>1, <1>4
    <3> QED
      BY <3>1, <3>2
  <2>2. heap' = [a \in Alive' |-> heap'[a]]
    BY <1>2, <1>3
  <2> QED
    BY <2>1, <2>2 DEF Records
<1> QED
  BY <1>1, <1>2, <1>3, <1>4, <1>5, <1>6, SeqFacts DEF Grows

(* The tokens dumped *)
DumpingIs(rest) ==
  \/ Head(todo) = <<"lex">> /\ Tail(todo) = rest
  \/ \E a \in Alive : Head(todo) = <<"use", a>> /\ Tail(todo) = <<<<"free", a>>, <<"lex">>>> \o rest
  \/ \E a \in Alive : Head(todo) = <<"free", a>> /\ Tail(todo) = <<<<"lex">>>> \o rest
LEMMA DumpingTasks ==
  ASSUME Dumping
  PROVE  \E rest \in Rests : DumpingIs(rest)
<1>1. PICK rest \in Rests :
        \/ todo = <<<<"lex">>>> \o rest
        \/ \E a \in Alive : todo \in {<<<<"use", a>>, <<"free", a>>, <<"lex">>>> \o rest,
                                      <<<<"free", a>>, <<"lex">>>> \o rest}
  BY DEF Dumping
<1>2. IsSeq(rest)
  BY RestFacts
<1>3. \A s : IsSeq(s) /\ s # <<>> =>
        Head(s \o rest) = Head(s) /\ Tail(s \o rest) = Tail(s) \o rest
  BY <1>2, Concatenated
<1>4. \A a, b, c :
        /\ IsSeq(<<a>>) /\ <<a>> # <<>> /\ Head(<<a>>) = a /\ Tail(<<a>>) = <<>>
        /\ IsSeq(<<a, b>>) /\ <<a, b>> # <<>> /\ Head(<<a, b>>) = a /\ Tail(<<a, b>>) = <<b>>
        /\ IsSeq(<<a, b, c>>) /\ <<a, b, c>> # <<>> /\ Head(<<a, b, c>>) = a
        /\ Tail(<<a, b, c>>) = <<b, c>>
  <2> TAKE a, b, c
  <2>1. /\ IsSeq(<<a>>) /\ <<a>> # <<>> /\ Head(<<a>>) = a /\ Tail(<<a>>) = <<>>
        /\ IsSeq(<<a, b>>) /\ <<a, b>> # <<>> /\ Head(<<a, b>>) = a /\ Tail(<<a, b>>) = <<b>>
    BY IsSeqShort, TwoFirst
  <2> QED
    BY <2>1, IsSeqShort, TwoFirst
<1>5. CASE todo = <<<<"lex">>>> \o rest
  <2>1. PICK s : s = <<<<"lex">>>>
    OBVIOUS
  <2>2. IsSeq(s) /\ s # <<>> /\ Head(s) = <<"lex">> /\ Tail(s) = <<>>
    BY <2>1, <1>4
  <2> QED
    BY <2>1, <2>2, <1>2, <1>3, <1>5, Concatenated, ZenonT(60) DEF DumpingIs
<1>6. CASE \E a \in Alive : todo \in {<<<<"use", a>>, <<"free", a>>, <<"lex">>>> \o rest,
                                      <<<<"free", a>>, <<"lex">>>> \o rest}
  <2>1. PICK a \in Alive : todo \in {<<<<"use", a>>, <<"free", a>>, <<"lex">>>> \o rest,
                                     <<<<"free", a>>, <<"lex">>>> \o rest}
    BY <1>6
  <2>2. CASE todo = <<<<"use", a>>, <<"free", a>>, <<"lex">>>> \o rest
    <3>1. PICK s : s = <<<<"use", a>>, <<"free", a>>, <<"lex">>>>
      OBVIOUS
    <3>2. /\ IsSeq(s) /\ s # <<>> /\ Head(s) = <<"use", a>>
          /\ Tail(s) = <<<<"free", a>>, <<"lex">>>>
      <4>1. PICK x, y, z : x = <<"use", a>> /\ y = <<"free", a>> /\ z = <<"lex">>
        OBVIOUS
      <4>2. s = <<x, y, z>>
        BY <3>1, <4>1
      <4>3. IsSeq(s) /\ s # <<>> /\ Head(s) = x
        BY ONLY <4>2, IsSeqShort, TwoFirst
      <4>4. Tail(s) = <<y, z>>
        BY ONLY <4>2, TwoFirst
      <4> QED
        BY <4>1, <4>3, <4>4
    <3> QED
      BY <3>1, <3>2, <1>3, <2>2 DEF DumpingIs
  <2>3. CASE todo = <<<<"free", a>>, <<"lex">>>> \o rest
    <3>1. PICK s : s = <<<<"free", a>>, <<"lex">>>>
      OBVIOUS
    <3>2. IsSeq(s) /\ s # <<>> /\ Head(s) = <<"free", a>> /\ Tail(s) = <<<<"lex">>>>
      BY <3>1, <1>4
    <3> QED
      BY <3>1, <3>2, <1>3, <2>3 DEF DumpingIs
  <2> QED
    BY <2>1, <2>2, <2>3
<1> QED
  BY <1>1, <1>5, <1>6

LEMMA SkipSound ==
  ASSUME Sound, Skip
  PROVE  Sound'
<1>1. /\ phase = "run" /\ todo # <<>> /\ Head(todo)[1] \in {"free node", "free", "print", "analyze"}
      /\ Arg = NULL /\ Then(<<>>)
      /\ UNCHANGED <<heap, fresh, vals, program, st, room, phase, causes>>
  BY DEF Skip, At
<1>2. Memory /\ (Dumping \/ Parsing \/ Later)
  BY <1>1 DEF Sound
<1>3. ~(Dumping /\ Head(todo)[1] = "free")
  <2> SUFFICES ASSUME Dumping, Head(todo)[1] = "free"
               PROVE  FALSE
    OBVIOUS
  <2>1. PICK rest : DumpingIs(rest)
    BY DumpingTasks
  <2>2. PICK a \in Alive : Head(todo) = <<"free", a>>
    <3>1. /\ Head(todo) # <<"lex">>
          /\ \A a \in Alive : Head(todo) # <<"use", a>>
      BY TwoFirst
    <3> QED
      BY <2>1, <3>1 DEF DumpingIs
  <2>3. Arg \in Alive
    BY <2>2, TwoFirst DEF Arg
  <2>4. Alive \subseteq 1..fresh /\ fresh \in Nat
    BY <1>2 DEF Memory, TypeOK, Address
  <2> QED
    <3>1. NULL \in Alive
      BY <2>3, <1>1
    <3> QED
      BY <2>4, <3>1 DEF NULL
<1>4. OnWalk
  <2>1. CASE Head(todo)[1] \in WalkTasks
    BY <2>1, <1>1, Walking
  <2>2. CASE Head(todo)[1] = "free"
    <3>1. ~Parsing
      BY <2>2, ParsingHead DEF ParseTasks
    <3> QED
      BY <2>2, <3>1, <1>1, <1>2, <1>3, Walking
  <2> QED
    BY <2>1, <2>2, <1>1 DEF WalkTasks
<1>5. IsSeq(<<>>) /\ Len(<<>>) = 0 /\ 1..0 = {}
  BY SeqFacts
<1> QED
  BY <1>1, <1>4, <1>5, WalkOn

LEMMA StillMemory ==
  ASSUME Memory, IsSeq(todo), todo # <<>>, Then(<<>>),
         UNCHANGED <<heap, fresh, vals, program, st, room, phase, causes>>,
         ~Releasing(Head(todo)) \/ Arg = NULL
  PROVE  Memory'
<1>1. IsSeq(<<>>) /\ Len(<<>>) = 0 /\ 1..0 = {}
  BY SeqFacts
<1>2. Head(todo)[1] # "free" \/ Arg = NULL
  BY DEF Releasing
<1>3. Does(<<>>, <<>>, <<>>)
  BY <1>1, <1>2, GrowNothing DEF Memory, Does
<1>4. Moved(0) = {}
  BY NothingMoved DEF Memory, TypeOK, NULL
<1>5. Accounts(<<>>, <<>>, <<>>, {})
  <2>1. st = NULL => Accounted(st', <<"st", 0, 0>>, {}, 0)
    <3>1. st' = st
      OBVIOUS
    <3> QED
      BY <3>1 DEF Accounted, NULL
  <2> QED
    BY <2>1, <1>1, <1>4 DEF Accounts
<1> QED
  BY <1>3, <1>5, GrowMemory

LEMMA UseSound ==
  ASSUME Sound, Use
  PROVE  Sound'
<1>1. /\ phase = "run" /\ todo # <<>> /\ Head(todo)[1] = "use" /\ Arg \in Alive /\ Then(<<>>)
      /\ UNCHANGED <<heap, fresh, vals, program, st, room, phase, causes>>
      /\ ~Releasing(Head(todo))
  BY DEF Use, At, Releasing
<1>2. Memory /\ IsSeq(todo) /\ (Dumping \/ Parsing \/ Later)
  BY <1>1, Walking DEF Sound
<1>3. IsSeq(<<>>) /\ Len(<<>>) = 0 /\ 1..0 = {}
  BY SeqFacts
<1>4. CASE Later
  <2>1. OnWalk
    BY <1>1, <1>4, Walking
  <2> QED
    BY <2>1, <1>1, <1>3, WalkOn
<1>5. CASE Dumping
  <2>1. Memory'
    BY <1>1, <1>2, StillMemory
  <2>2. PICK rest \in Rests : DumpingIs(rest)
    BY <1>5, DumpingTasks
  <2>3. PICK a \in Alive : Head(todo) = <<"use", a>> /\ Tail(todo) = <<<<"free", a>>, <<"lex">>>> \o rest
    <3>1. /\ Head(todo) # <<"lex">>
          /\ \A a \in Alive : Head(todo) # <<"free", a>>
      BY <1>1, TwoFirst
    <3> QED
      BY <2>2, <3>1 DEF DumpingIs
  <2>4. todo' = <<<<"free", a>>, <<"lex">>>> \o rest
    <3>1. IsSeq(Tail(todo))
      BY <1>1, <1>2, SeqFacts
    <3> QED
      BY <2>3, <3>1, <1>1, Concatenated DEF Then
  <2>5. Dumping'
    BY <2>4, <1>1, <1>5 DEF Dumping, Alive
  <2> QED
    BY <2>1, <2>5, <1>1 DEF Sound, Memory, NoMisuse
<1> QED
  BY <1>1, <1>2, <1>4, <1>5, ParsingHead DEF ParseTasks

LEMMA LaterTasks ==
  ASSUME Later
  PROVE  Head(todo)[1] \in {"free", "free node", "resolve", "free_program", "stab_free", "return"}
                           \cup Borrows
<1>1. PICK w, tail : LaterIs(w, tail)
  BY DEF Later, LaterIs
<1>2. CASE w = <<>>
  <2>1. Head(todo) = Head(tail)
    BY <1>1, <1>2, LaterHead
  <2>2. Head(tail) \in {FP, SF, RET}
    <3>1. Head(tail) = tail[1] /\ 1 \in 1..Len(tail)
      BY <1>1, EndsFacts, SeqFacts DEF LaterIs
    <3> QED
      BY <1>1, <3>1, EndsFacts DEF LaterIs
  <2>3. FP[1] = "free_program" /\ SF[1] = "stab_free" /\ RET[1] = "return"
    BY DEF FP, SF, RET
  <2> QED
    BY <2>1, <2>2, <2>3
<1>3. CASE w # <<>>
  BY <1>1, <1>3, LaterHead DEF Good, Borrowing
<1> QED
  BY <1>2, <1>3

LEMMA Stages ==
  ASSUME Sound, phase = "run"
  PROVE  /\ Memory /\ IsSeq(todo) /\ todo # <<>>
         /\ Head(todo)[1] = "lex" => Dumping
         /\ Head(todo)[1] \in ParseTasks \cup {"end"} => Parsing
<1>1. /\ Memory /\ IsSeq(todo) /\ todo # <<>> /\ (Dumping \/ Parsing \/ Later)
  BY Walking DEF Sound
<1>2. Head(todo)[1] = "lex" => ~Parsing /\ ~Later
  BY ParsingHead, LaterTasks DEF ParseTasks, Borrows
<1>3. Head(todo)[1] \in ParseTasks \cup {"end"} => ~Dumping /\ ~Later
  BY DumpingHead, LaterTasks DEF ParseTasks, Borrows
<1> QED
  BY <1>1, <1>2, <1>3

LEMMA DumpTokenSound ==
  ASSUME Sound, DumpToken
  PROVE  Sound'
<1>1. /\ phase = "run" /\ todo # <<>> /\ Head(todo)[1] = "lex" /\ Allocate(<<String>>)
      /\ todo' = <<<<"use", fresh + 1>>, <<"free", fresh + 1>>>> \o todo
      /\ UNCHANGED <<vals, program, st, room, phase, causes>>
  BY DEF DumpToken, At
<1>2. Memory /\ IsSeq(todo) /\ Dumping
  BY <1>1, Stages
<1>3. PICK rest \in Rests : Head(todo) = <<"lex">> /\ Tail(todo) = rest /\ IsSeq(rest)
  <2>1. PICK rest \in Rests : DumpingIs(rest)
    BY <1>2, DumpingTasks
  <2>2. \A a \in Alive : Head(todo) # <<"free", a>> /\ Head(todo) # <<"use", a>>
    BY <1>1, TwoFirst
  <2> QED
    BY <2>1, <2>2, RestFacts DEF DumpingIs
<1>4. PICK f, x, y, z, work, nodes :
        /\ f = fresh + 1 /\ x = <<"use", f>> /\ y = <<"free", f>> /\ z = <<"lex">>
        /\ work = <<x, y, z>> /\ nodes = <<String>>
  OBVIOUS
<1>5. /\ IsSeq(work) /\ Len(work) = 3 /\ work[1] = x /\ work[2] = y /\ work[3] = z
      /\ IsSeq(nodes) /\ Len(nodes) = 1 /\ nodes[1] = String
  <2>1. work = <<x, y, z>> /\ nodes = <<String>>
    BY <1>4
  <2> QED
    BY ONLY <2>1, IsSeqShort, TwoFirst
<1>6. work = <<x, y>> \o <<z>>
  BY <1>4
<1>7. todo = <<z>> \o rest
  <2>1. IsSeq(<<z>>) /\ Len(<<z>>) = 1 /\ <<z>>[1] = z
    BY IsSeqShort, TwoFirst
  <2>2. /\ Len(todo) \in Nat /\ Len(rest) = Len(todo) - 1 /\ Head(todo) = todo[1]
        /\ \A i \in 1..(Len(todo) - 1) : rest[i] = todo[i + 1]
    BY <1>2, <1>1, <1>3, SeqFacts
  <2>3. PICK t : t = <<z>> \o rest
    OBVIOUS
  <2>4. /\ IsSeq(t) /\ Len(t) = Len(todo) /\ t[1] = z
        /\ \A i \in 1..Len(rest) : t[1 + i] = rest[i]
    BY <2>1, <2>2, <2>3, <1>3, SeqFacts
  <2>5. \A i \in 1..Len(t) : t[i] = todo[i]
    <3> TAKE i \in 1..Len(t)
    <3>1. CASE i = 1
      BY <3>1, <2>2, <2>4, <1>3, <1>4
    <3>2. CASE i # 1
      <4>1. i - 1 \in 1..(Len(todo) - 1) /\ (i - 1) + 1 = i /\ 1 + (i - 1) = i
        BY <3>2, <2>2, <2>4
      <4> QED
        BY <4>1, <2>2, <2>4
    <3> QED
      BY <3>1, <3>2
  <2> QED
    BY <2>3, <2>4, <2>5, <1>2, SeqExtensional
<1>8. todo' = work \o rest
  <2>1. IsSeq(<<x, y>>) /\ IsSeq(<<z>>)
    BY IsSeqShort
  <2>2. (<<x, y>> \o <<z>>) \o rest = <<x, y>> \o (<<z>> \o rest)
    BY <2>1, <1>3, ConcatAssociative
  <2> QED
    BY <2>2, <1>1, <1>4, <1>6, <1>7
<1>9. String = Node("string", <<>>) /\ String.tag = "string" /\ String.kids = <<>>
  BY DEF String, Node
<1>10. Does(work, nodes, <<>>)
  <2>1. Grows(nodes, <<>>)
    <3>1. \A i \in 1..Len(nodes) :
            IsSeq(nodes[i].kids) /\ nodes[i] = Node(nodes[i].tag, nodes[i].kids)
      <4>1. \A i \in 1..1 : i = 1
        OBVIOUS
      <4>2. IsSeq(<<>>)
        BY SeqFacts
      <4> QED
        BY <4>1, <4>2, <1>5, <1>9
    <3>2. Allocate(nodes)
      BY <1>1, <1>4
    <3> QED
      BY <3>1, <3>2, <1>2, <1>5, AllocateGrows DEF Memory
  <2>2. Enters(nodes, <<>>)
    <3>1. Len(<<>>) = 0 /\ 1..0 = {} /\ \A i \in 1..1 : i = 1
      BY SeqFacts
    <3> QED
      BY <3>1, <1>5, <1>9 DEF Enters
  <2>3. Then(work)
    BY <1>3, <1>8 DEF Then
  <2>4. causes' \subseteq Shares /\ Head(todo)[1] # "free"
    BY <1>1, <1>2 DEF Memory
  <2> QED
    BY <2>1, <2>2, <2>3, <2>4, <1>1, <1>5 DEF Does
<1>11. PICK o : o = [v \in {f} |-> <<"call", Len(todo) + 3 - 1 - 2, 0>>]
  OBVIOUS
<1>12. Accounts(work, nodes, <<>>, o)
  <2>1. Len(<<>>) = 0 /\ 1..0 = {} /\ \A i \in 1..1 : i = 1
    BY SeqFacts
  <2>2. st = NULL => Accounted(st', <<"st", 0, 0>>, o, Len(nodes))
    <3>1. st' = st
      BY <1>1
    <3> QED
      BY <3>1 DEF Accounted, NULL
  <2>3. Moved(1) = {f}
    <3>1. fresh \in Nat /\ ~Releasing(Head(todo))
      BY <1>1, <1>2 DEF Memory, TypeOK, Releasing
    <3> QED
      BY <3>1, <1>4 DEF Moved
  <2>4. /\ \A i \in 1..3 : i \in {1, 2, 3}
        /\ ~Releasing(x) /\ Releasing(y) /\ ~Releasing(z) /\ y[2] = f
    BY <1>4, TwoFirst DEF Releasing
  <2>5. Accounted(f, <<"call", Len(todo) + 3 - 1 - 2, 0>>, o, 1)
    BY <1>11, <2>3 DEF Accounted
  <2>6. \A i \in 1..Len(work) : Releasing(work[i]) => i = 2
    BY <2>4, <1>5
  <2> QED
    BY <2>1, <2>2, <2>3, <2>4, <2>5, <2>6, <1>5, <1>9 DEF Accounts
<1>13. Memory'
  BY <1>2, <1>10, <1>12, GrowMemory
<1>14. Dumping'
  <2>1. f \in Alive' /\ heap'[f].tag = "string" /\ \A a \in Alive' : heap'[a].tag = "string"
    <3>1. TypeOK /\ Stabbed /\ Grows(nodes, <<>>) /\ fresh \in Nat
      BY <1>2, <1>10 DEF Memory, Does, TypeOK
    <3>2. \A i \in 1..1 : i = 1
      OBVIOUS
    <3>3. f \in Alive' /\ heap'[f] = String
      BY <3>1, <1>4, <1>5 DEF Grows
    <3>4. \A a \in Alive' : a \notin Alive => heap'[a] = String
      BY <3>1, <3>2, <1>5, GrowKeeps
    <3>5. \A a \in Alive : heap'[a].tag = "string"
      BY <3>1, <1>2, GrowKeeps DEF Dumping
    <3> QED
      BY <3>3, <3>4, <3>5, <1>9
  <2>2. todo' = <<<<"use", f>>, <<"free", f>>, <<"lex">>>> \o rest
    BY <1>4, <1>8
  <2> QED
    BY <2>1, <2>2, <1>1, <1>2 DEF Dumping
<1> QED
  BY <1>1, <1>13, <1>14 DEF Sound, Memory, NoMisuse

(* Both begin once the tokens are dumped, or at once. *)
Begins ==
  /\ vals = <<>> /\ program = NULL /\ st = NULL /\ causes = {}
  /\ \A a \in Alive : heap[a].tag = "string"
  /\ todo \in Rests
BegunLaw == Begins => Parsing \/ Later
LEMMA Begun == BegunLaw
<1> SUFFICES ASSUME Begins
             PROVE  Parsing \/ Later
  BY DEF BegunLaw
<1>1. CASE todo = <<RET>>
  <2>1. IsSeq(<<>>) /\ Len(<<>>) = 0 /\ 1..0 = {}
    BY SeqFacts
  <2>2. IsSeq(<<RET>>) /\ todo = <<>> \o <<RET>>
    BY <1>1, IsSeqShort, Concatenated
  <2>3. Ending(<<RET>>)
    BY DEF Begins, Ending, Ends
  <2>4. Ordered(<<>>, <<RET>>)
    BY <2>1 DEF Ordered
  <2> QED
    BY <2>1, <2>2, <2>3, <2>4 DEF Begins, Later
<1>2. CASE todo = <<Parse("program"), <<"end">>>>
  BY <1>2 DEF Begins, Parsing, END
<1> QED
  BY <1>1, <1>2 DEF Begins, Rests, RET

(* Nothing is allocated and nothing to be released. *)
Bare ==
  /\ heap = <<>> /\ fresh \in Nat /\ room \in 0..MaxObjects
  /\ vals = <<>> /\ program = NULL /\ st = NULL /\ causes = {}
  /\ IsSeq(todo) /\ \A i \in DOMAIN todo : ~Releasing(todo[i])
  /\ phase = "run"
BareLaw == Bare => Memory
LEMMA BareMemory == BareLaw
<1> SUFFICES ASSUME Bare
             PROVE  Memory
  BY DEF BareLaw
<1>1. Alive = {}
  BY DEF Bare, Alive
<1>2. TypeOK
  BY <1>1 DEF Bare, TypeOK, References, Address
<1>3. Records
  BY <1>1 DEF Records, Bare
<1>4. Owners = {}
  <2>1. \A p \in Places : ~(Held(p) > 0)
    <3> TAKE p \in Places
    <3>1. DOMAIN vals = {}
      BY DEF Bare
    <3>2. p = <<"program", 0, 0>> \/ p = <<"st", 0, 0>>
      BY <1>1, <3>1, PlaceFacts DEF PlaceLaws, Bare
    <3>3. Held(p) = 0
      BY <3>2, PlaceFacts DEF PlaceLaws, Bare, NULL
    <3> QED
      BY <3>3
  <2> QED
    BY <2>1 DEF Owners
<1>5. Shape /\ Owned /\ Grounded /\ Rooted /\ Stabbed
  BY <1>1, <1>4 DEF Shape, Owned, Grounded, GroundedOn, Rooted, Stabbed, Bare
<1> QED
  BY <1>2, <1>3, <1>5 DEF Memory, Bare

LEMMA RestTasks ==
  \A rest \in Rests : IsSeq(rest) /\ \A i \in DOMAIN rest : ~Releasing(rest[i])
<1> TAKE rest \in Rests
<1>1. PICK a, b, c : a = <<"return">> /\ b = Parse("program") /\ c = <<"end">>
  OBVIOUS
<1>2. ~Releasing(a) /\ ~Releasing(b) /\ ~Releasing(c)
  BY <1>1, TwoFirst DEF Releasing, Parse
<1>3. rest = <<a>> \/ rest = <<b, c>>
  BY <1>1 DEF Rests
<1>4. /\ DOMAIN <<a>> = {1} /\ <<a>>[1] = a
      /\ DOMAIN <<b, c>> = {1, 2} /\ <<b, c>>[1] = b /\ <<b, c>>[2] = c
  OBVIOUS
<1> QED
  BY <1>2, <1>3, <1>4, RestFacts

LEMMA EndDumpSound ==
  ASSUME Sound, EndDump
  PROVE  Sound'
<1>1. /\ phase = "run" /\ todo # <<>> /\ Head(todo)[1] = "lex" /\ Then(<<>>)
      /\ fresh' = IF heap = <<>> THEN 0 ELSE fresh
      /\ UNCHANGED <<heap, vals, program, st, room, phase, causes>>
  BY DEF EndDump, At
<1>2. Memory /\ IsSeq(todo) /\ Dumping
  BY <1>1, Stages
<1>3. PICK rest \in Rests : Head(todo) = <<"lex">> /\ Tail(todo) = rest /\ IsSeq(rest)
  <2>1. PICK rest \in Rests : DumpingIs(rest)
    BY <1>2, DumpingTasks
  <2>2. \A a \in Alive : Head(todo) # <<"free", a>> /\ Head(todo) # <<"use", a>>
    BY <1>1, TwoFirst
  <2> QED
    BY <2>1, <2>2, RestFacts DEF DumpingIs
<1>4. todo' = rest
  BY <1>1, <1>3, Concatenated DEF Then
<1>5. Memory'
  <2>1. CASE heap = <<>>
    <3>1. Bare'
      <4>1. \A i \in DOMAIN todo' : ~Releasing(todo'[i])
        BY <1>4, RestTasks
      <4>2. room \in 0..MaxObjects
        BY <1>2 DEF Memory, TypeOK
      <4>3. todo' \in Rests /\ IsSeq(todo')
        BY <1>3, <1>4
      <4> QED
        BY <1>1, <1>2, <2>1, <4>1, <4>2, <4>3 DEF Bare, Dumping, Releasing
    <3>2. BareLaw'
      BY BareMemory, PTL
    <3> QED
      BY <3>1, <3>2 DEF BareLaw
  <2>2. CASE heap # <<>>
    <3>1. ~Releasing(Head(todo))
      BY <1>1 DEF Releasing
    <3> QED
      BY <1>1, <1>2, <2>2, <3>1, StillMemory
  <2> QED
    BY <2>1, <2>2
<1>6. Begins'
  BY <1>1, <1>2, <1>3, <1>4 DEF Begins, Dumping, Alive, Rests
<1>7. (Parsing \/ Later)'
  <2>1. BegunLaw'
    BY Begun, PTL
  <2> QED
    BY <2>1, <1>6 DEF BegunLaw
<1> QED
  BY <1>1, <1>5, <1>7 DEF Sound, Memory, NoMisuse

LEMMA InitSound ==
  ASSUME Init
  PROVE  Sound
<1>1. PICK x, a, b, c : x = <<"lex">> /\ a = <<"return">> /\ b = Parse("program") /\ c = <<"end">>
  OBVIOUS
<1>2. ~Releasing(x) /\ ~Releasing(a) /\ ~Releasing(b) /\ ~Releasing(c)
  BY <1>1, TwoFirst DEF Releasing, Parse
<1>3. todo \in {<<x, a>>, <<x, b, c>>, <<a>>, <<b, c>>}
  BY <1>1 DEF Init
<1>4. IsSeq(todo) /\ \A i \in DOMAIN todo : ~Releasing(todo[i])
  <2>1. /\ DOMAIN <<a>> = {1} /\ <<a>>[1] = a
        /\ DOMAIN <<b, c>> = {1, 2} /\ <<b, c>>[1] = b /\ <<b, c>>[2] = c
        /\ DOMAIN <<x, a>> = {1, 2} /\ <<x, a>>[1] = x /\ <<x, a>>[2] = a
        /\ DOMAIN <<x, b, c>> = {1, 2, 3}
        /\ <<x, b, c>>[1] = x /\ <<x, b, c>>[2] = b /\ <<x, b, c>>[3] = c
    OBVIOUS
  <2> QED
    BY <2>1, <1>2, <1>3, IsSeqShort
<1>5. Bare
  BY <1>4, OwnershipAssumption DEF Init, Bare
<1>6. Memory
  BY <1>5, BareMemory DEF BareLaw
<1>7. CASE todo \in {<<a>>, <<b, c>>}
  <2>1. Begins
    BY <1>1, <1>5, <1>7 DEF Bare, Begins, Rests, Alive
  <2>2. Parsing \/ Later
    BY <2>1, Begun DEF BegunLaw
  <2> QED
    BY <2>2, <1>5, <1>6 DEF Sound, Memory, NoMisuse, Bare
<1>8. CASE todo \in {<<x, a>>, <<x, b, c>>}
  <2>1. \E rest \in Rests : todo = <<x>> \o rest
    BY <1>1, <1>8 DEF Rests
  <2>2. Dumping
    BY <1>1, <1>5, <2>1 DEF Bare, Dumping, Alive
  <2> QED
    BY <2>2, <1>5, <1>6 DEF Sound, Memory, NoMisuse, Bare
<1> QED
  BY <1>3, <1>7, <1>8

-----------------------------------------------------------------------------
(* Pointers that change hands *)

(* Nothing is allocated or freed; what the places R held, the places G     *)
(* hold now.                                                               *)
LEMMA Passed ==
  ASSUME Memory, TypeOK', UNCHANGED <<heap, fresh, causes>>,
         program' \in {program, NULL}, st' \in {st, NULL},
         \A a \in Alive : Emptied(a) => Emptied(a)',
         NEW R, NEW G,
         \A p \in Owners' \ G : p \in Owners \ R /\ Held(p)' = Held(p),
         \A p \in Owners \ R : p \in Owners' /\ Held(p)' = Held(p),
         \A p \in G \cap Owners' : \E r \in R \cap Owners : Held(r) = Held(p)',
         \A p, q \in G \cap Owners' : Held(p)' = Held(q)' => p = q,
         \A r \in R \cap Owners : \E p \in G \cap Owners' : Held(p)' = Held(r)
  PROVE  Memory'
<1>1. /\ TypeOK /\ Records /\ Shape /\ Owned /\ Grounded /\ Rooted /\ Stabbed
      /\ causes \subseteq Shares
      /\ fresh \in Nat /\ Alive \subseteq Address
  BY DEF Memory, TypeOK
<1>2. /\ Alive' = Alive /\ Address' = Address /\ References' = References
      /\ \A a : KidsOf(a)' = KidsOf(a)
  BY DEF Alive, Address, References, KidsOf
<1>3. Owned'
  <2>1. fresh' = fresh /\ fresh <= fresh' /\ causes' = causes
    BY <1>1
  <2>2. \A a \in Alive' : a \in Alive /\ heap'[a].tag = heap[a].tag
    BY <1>2
  <2>3. \A a \in Alive' : \/ \E p \in G \cap Owners' : Held(p)' = a
                          \/ a \in Alive /\ \A r \in R \cap Owners : Held(r) # a
    BY <1>2
  <2>4. \A a \in Alive \ Alive' : /\ \E r \in R \cap Owners : Held(r) = a
                                 /\ \A p \in G \cap Owners' : Held(p)' # a
    BY <1>2
  <2>5. \A p \in G \cap Owners' :
          \/ Held(p)' \in Alive' /\ Held(p)' > fresh
          \/ \E r \in R \cap Owners : Held(r) = Held(p)'
          \/ causes' # {} /\ IsString(Held(p))' /\ Held(p)' \in Address
    OBVIOUS
  <2>6. \A p, q \in G \cap Owners' :
          Held(p)' = Held(q)' /\ p # q => causes' # {} /\ IsString(Held(p))'
    OBVIOUS
  <2> QED
    <3>1. /\ fresh' \in Nat /\ Alive' \subseteq Address' /\ causes \subseteq causes'
          /\ \A a \in Alive' : a <= fresh => a \in Alive /\ heap'[a].tag = heap[a].tag
      BY <1>1, <1>2, <2>1, <2>2
    <3>2. /\ \A p \in Owners' \ G : p \in Owners \ R /\ Held(p)' = Held(p)
          /\ \A p \in Owners \ R : p \in Owners' /\ Held(p)' = Held(p)
      OBVIOUS
    <3> QED
      BY ONLY <1>1, <2>1, <2>3, <2>4, <2>5, <2>6, <3>1, <3>2, Transfer
<1>4. \A v, kind : Is(v, kind) => Is(v, kind)'
  BY <1>2 DEF Is, Tagged, IsString, IsType, ListOf
<1>5. Shape'
  <2>1. \A a \in Alive : Shaped(a) => Shaped(a)'
    <3> SUFFICES ASSUME NEW a \in Alive, Shaped(a)
                 PROVE  Shaped(a)'
      OBVIOUS
    <3>1. KidsOf(a) \in Seq(References) /\ heap'[a].kids = KidsOf(a)
      BY <1>1 DEF TypeOK, KidsOf
    <3> QED
      BY <1>2, <1>4, <3>1, ShapedKept
  <2> QED
    BY <2>1, <1>1, <1>2 DEF Shape
<1>6. Grounded'
  BY <1>1, <1>2 DEF Grounded, GroundedOn, Into
<1>7. Rooted'
  <2>1. CASE program' = NULL
    BY <2>1 DEF Rooted
  <2>2. CASE program' = program
    BY <2>2, <1>1, <1>2 DEF Rooted, Tagged
  <2> QED
    BY <2>1, <2>2
<1>8. Stabbed'
  BY <1>1, <1>2 DEF Stabbed, Tagged
<1>9. Records' /\ causes' \subseteq Shares
  BY <1>1, <1>2 DEF Records
<1> QED
  BY <1>3, <1>5, <1>6, <1>7, <1>8, <1>9 DEF Memory

(* One of the driver's two pointers goes to a call of its destructor. *)
LEMMA Handover ==
  ASSUME Memory, IsSeq(todo), todo # <<>>, ~Releasing(Head(todo)),
         NEW v, NEW place, place \in {<<"program", 0, 0>>, <<"st", 0, 0>>}, v = Held(place),
         NEW x, Releasing(x), x[2] = v, Then(<<x>>),
         UNCHANGED <<heap, fresh, vals, causes, room, phase>>,
         place = <<"program", 0, 0>> => program' = NULL /\ st' = st,
         place = <<"st", 0, 0>> => st' = NULL /\ program' = program
  PROVE  Memory'
<1>1. TypeOK /\ fresh \in Nat /\ <<"program", 0, 0>> # <<"st", 0, 0>> /\ NULL = 0
  BY DEF Memory, TypeOK, NULL
<1>2. IsSeq(<<x>>) /\ Len(<<x>>) = 1 /\ <<x>>[1] = x /\ Len(todo) \in Nat /\ Len(todo) > 0
  BY IsSeqShort, TwoFirst, SeqFacts
<1>3. Releasing(x) /\ x[2] = v
  OBVIOUS
<1>4. PICK c, n : c = <<"call", n, 0>> /\ n = Len(todo) - 1
  OBVIOUS
<1>5. /\ IsSeq(todo') /\ Len(todo') = Len(todo) + 1 - 1
      /\ \A i \in 1..1 : todo'[i] = <<x>>[i]
      /\ \A i \in 2..Len(todo) : todo'[i - 1 + 1] = todo[i]
      /\ \A d \in 0..(Len(todo) - 2) :
           /\ (<<"call", d, 0>> \in Places)' <=> <<"call", d, 0>> \in Places
           /\ Held(<<"call", d, 0>>)' = Held(<<"call", d, 0>>)
      /\ \A i \in 1..1 : \A d : d = Len(todo) + 1 - 1 - i =>
           /\ (<<"call", d, 0>> \in Places)' <=> Releasing(<<x>>[i])
           /\ Held(<<"call", d, 0>>)' = <<x>>[i][2]
      /\ \A d : (<<"call", d, 0>> \in Places)' =>
           \/ d \in 0..(Len(todo) - 2)
           \/ \E i \in 1..1 : Releasing(<<x>>[i]) /\ d = Len(todo) + 1 - 1 - i
      /\ \A d : <<"call", d, 0>> \in Places =>
           d \in 0..(Len(todo) - 2) \/ (d = Len(todo) - 1 /\ Releasing(Head(todo)))
  <2>1. PICK work : work = <<x>>
    OBVIOUS
  <2>2. Then(work) /\ IsSeq(work) /\ Len(work) = 1
    BY <2>1, <1>2
  <2> QED
    BY ONLY <2>1, <2>2, CallPlaces, IsSeq(todo), todo # <<>>, SMTT(40)
<1>6. 1 \in 1..1 /\ Len(todo) - 1 = Len(todo) + 1 - 1 - 1 /\ \A i \in 1..1 : i = 1
  BY <1>2
<1>7. c \in Places' /\ Held(c)' = v
  BY <1>2, <1>3, <1>4, <1>5, <1>6
<1>8. ASSUME NEW p \in Places', p # c
      PROVE  /\ p # place => p \in Places /\ Held(p)' = Held(p)
             /\ p = place => Held(p)' = 0
  <2>1. CASE \E i \in DOMAIN vals' : p = <<"value", i, 0>>
    <3>1. PICK i \in DOMAIN vals : p = <<"value", i, 0>>
      BY <2>1
    <3> QED
      BY <3>1, PlaceFacts, PlaceFactsPrime DEF PlaceLaws
  <2>2. CASE \E d : p = <<"call", d, 0>>
    <3>1. PICK d : p = <<"call", d, 0>>
      BY <2>2
    <3>2. d \in 0..(Len(todo) - 2)
      BY <3>1, <1>4, <1>5, <1>6, <1>8
    <3> QED
      BY <3>1, <3>2, <1>5
  <2>3. CASE \E a \in Alive' : \E i \in DOMAIN heap'[a].kids : p = <<"field", a, i>>
    <3>1. PICK a, i : a \in Alive /\ p = <<"field", a, i>> /\ i \in DOMAIN KidsOf(a)
      BY <2>3 DEF Alive, KidsOf
    <3>2. p \in Places /\ Held(p) = KidsOf(a)[i] /\ Held(p)' = heap'[a].kids[i] /\ p # place
      BY <3>1, PlaceFacts, PlaceFactsPrime DEF PlaceLaws
    <3> QED
      BY <3>2 DEF KidsOf
  <2>4. CASE p \in {<<"program", 0, 0>>, <<"st", 0, 0>>}
    BY <2>4, <1>1, PlaceFacts, PlaceFactsPrime DEF PlaceLaws
  <2> QED
    BY <2>1, <2>2, <2>3, <2>4, PlaceFactsPrime
<1>9. ASSUME NEW p \in Places, p # place
      PROVE  p \in Places' /\ Held(p)' = Held(p) /\ p # c
  <2>1. CASE \E i \in DOMAIN vals : p = <<"value", i, 0>>
    <3>1. PICK i \in DOMAIN vals : p = <<"value", i, 0>>
      BY <2>1
    <3> QED
      BY <3>1, <1>4, PlaceFacts, PlaceFactsPrime DEF PlaceLaws
  <2>2. CASE \E d : p = <<"call", d, 0>>
    <3>1. PICK d : p = <<"call", d, 0>>
      BY <2>2
    <3>2. d \in 0..(Len(todo) - 2)
      BY <3>1, <1>5
    <3>3. d # n
      BY <3>2, <1>4, <1>2
    <3> QED
      BY <3>1, <3>2, <3>3, <1>4, <1>5
  <2>3. CASE \E a \in Alive : \E i \in DOMAIN KidsOf(a) : p = <<"field", a, i>>
    <3>1. PICK a, i : a \in Alive /\ p = <<"field", a, i>> /\ i \in DOMAIN KidsOf(a)
      BY <2>3
    <3>2. a \in Alive' /\ i \in DOMAIN heap'[a].kids
      BY <3>1 DEF Alive, KidsOf
    <3>3. p \in Places' /\ Held(p) = KidsOf(a)[i] /\ Held(p)' = heap'[a].kids[i] /\ p # c
      BY <3>1, <3>2, <1>4, PlaceFacts, PlaceFactsPrime DEF PlaceLaws
    <3> QED
      BY <3>3 DEF KidsOf
  <2>4. CASE p \in {<<"program", 0, 0>>, <<"st", 0, 0>>}
    <3>1. /\ p \in Places'
          /\ p = <<"program", 0, 0>> => Held(p)' = program' /\ Held(p) = program
          /\ p = <<"st", 0, 0>> => Held(p)' = st' /\ Held(p) = st
      BY <2>4, PlaceFacts, PlaceFactsPrime DEF PlaceLaws
    <3>2. p # c
      BY <2>4, <1>4
    <3> QED
      BY <2>4, <3>1, <3>2, <1>9
  <2> QED
    BY <2>1, <2>2, <2>3, <2>4, PlaceFacts DEF PlaceLaws
<1>10. /\ \A p : p \in Owners <=> p \in Places /\ Held(p) > 0
       /\ \A p : p \in Owners' <=> p \in Places' /\ Held(p)' > 0
       /\ place \in Places /\ c # place
  BY <1>4, PlaceFacts, PlaceFactsPrime, SMTT(40) DEF PlaceLaws
<1>11. TypeOK'
  <2>1. {program', st'} \subseteq References
    BY <1>1 DEF TypeOK, References
  <2> QED
    BY <2>1, <1>1 DEF TypeOK, Alive, Address, References, KidsOf
<1>12. ASSUME NEW a \in Alive, Emptied(a)
       PROVE  Emptied(a)'
  <2>1. PICK i \in DOMAIN todo : todo[i][1] = "free" /\ todo[i][2] = a
    BY <1>12 DEF Emptied
  <2>2. i \in 1..Len(todo) /\ Head(todo) = todo[1] /\ DOMAIN todo' = 1..Len(todo')
    BY <1>5, SeqFacts
  <2>3. i # 1
    BY <2>1, <2>2 DEF Releasing
  <2>4. i \in 2..Len(todo) /\ i \in 1..Len(todo') /\ i - 1 + 1 = i
    BY <2>2, <2>3, <1>2, <1>5
  <2>5. i \in DOMAIN todo' /\ todo'[i] = todo[i]
    BY <2>2, <2>4, <1>5
  <2> QED
    BY <2>1, <2>5, <1>12 DEF Emptied, KidsOf
<1>13. PICK R, G : R = {place} /\ G = {c}
  OBVIOUS
<1>14. /\ \A p \in Owners' \ G : p \in Owners \ R /\ Held(p)' = Held(p)
       /\ \A p \in Owners \ R : p \in Owners' /\ Held(p)' = Held(p)
       /\ \A p \in G \cap Owners' : \E r \in R \cap Owners : Held(r) = Held(p)'
       /\ \A p, q \in G \cap Owners' : Held(p)' = Held(q)' => p = q
       /\ \A r \in R \cap Owners : \E p \in G \cap Owners' : Held(p)' = Held(r)
  <2>1. \A p \in Owners' \ G : p \in Owners \ R /\ Held(p)' = Held(p)
    BY <1>8, <1>10, <1>13
  <2>2. \A p \in Owners \ R : p \in Owners' /\ Held(p)' = Held(p)
    BY <1>9, <1>10, <1>13
  <2>3. \A p \in G \cap Owners' : \E r \in R \cap Owners : Held(r) = Held(p)'
    BY <1>7, <1>10, <1>13
  <2>4. \A r \in R \cap Owners : \E p \in G \cap Owners' : Held(p)' = Held(r)
    BY <1>7, <1>10, <1>13
  <2> QED
    BY <2>1, <2>2, <2>3, <2>4, <1>13
<1>15. program' \in {program, NULL} /\ st' \in {st, NULL}
  OBVIOUS
<1> QED
  BY <1>11, <1>12, <1>14, <1>15, Passed

LEMMA LastTasks ==
  ASSUME Later, Head(todo)[1] \in {"free_program", "stab_free", "return"}
  PROVE  /\ vals = <<>> /\ Ending(todo)
         /\ Head(todo)[1] = "free_program" => todo \in {<<FP, RET>>, <<FP, SF, RET>>}
         /\ Head(todo)[1] = "stab_free" => todo = <<SF, RET>>
         /\ Head(todo)[1] = "return" => todo = <<RET>>
<1>1. PICK w, tail : LaterIs(w, tail)
  BY DEF Later, LaterIs
<1>2. w = <<>>
  <2> SUFFICES ASSUME w # <<>>
               PROVE  FALSE
    OBVIOUS
  <2>1. Good(Head(todo))
    BY <1>1, LaterHead
  <2> QED
    BY <2>1 DEF Good, Borrowing, Borrows
<1>3. todo = tail /\ vals = <<>> /\ Ending(tail)
  BY <1>1, <1>2, EndsFacts, Concatenated DEF LaterIs
<1>4. FP[1] = "free_program" /\ SF[1] = "stab_free" /\ RET[1] = "return"
  BY DEF FP, SF, RET
<1>5. /\ Head(<<FP, RET>>) = FP /\ Head(<<FP, SF, RET>>) = FP /\ Head(<<SF, RET>>) = SF
      /\ Head(<<RET>>) = RET
  BY TwoFirst
<1> QED
  BY <1>3, <1>4, <1>5 DEF Ending, Ends

LaterLaw == \A w, tail : LaterIs(w, tail) => Later
LEMMA LaterHolds == LaterLaw
BY DEF LaterLaw, Later, LaterIs

(* A destructor of one of the driver's two pointers is all that is before  *)
(* the end.                                                                *)
Destroys(task) == task[1] = "free node"
LEMMA LaterFree ==
  ASSUME NEW x, Destroys(x), x[2] \in References', program' = NULL,
         NEW tail, Ending(tail)', todo' = <<x>> \o tail, vals' = <<>>
  PROVE  Later'
<1>1. Good(x)' /\ ~Analyzing(x)
  BY DEF Good, Analyzing, Destroys
<1>2. IsSeq(<<x>>) /\ Len(<<x>>) = 1 /\ <<x>>[1] = x /\ \A i \in 1..1 : i = 1
  BY IsSeqShort, TwoFirst
<1>3. PICK w : w = <<x>>
  OBVIOUS
<1>4. Ordered(w, tail)'
  <2>1. \A i \in 1..Len(w) : w[i] = x
    BY <1>2, <1>3
  <2> QED
    BY <2>1, <1>1 DEF Ordered, Analyzing
<1>5. LaterIs(w, tail)'
  BY <1>2, <1>3, <1>4 DEF LaterIs
<1> QED
  <2>1. LaterLaw'
    BY LaterHolds, PTL
  <2> QED
    BY <2>1, <1>5 DEF LaterLaw

LEMMA FreeProgramSound ==
  ASSUME Sound, FreeProgram
  PROVE  Sound'
<1>1. PICK x : /\ x = <<"free node", program>>
               /\ phase = "run" /\ todo # <<>> /\ Head(todo)[1] = "free_program" /\ Then(<<x>>)
               /\ program' = NULL /\ UNCHANGED <<heap, fresh, vals, st, room, phase, causes>>
  BY DEF FreeProgram, At
<1>2. x[1] = "free node" /\ x[2] = program /\ Releasing(x)
  BY <1>1, TwoFirst DEF Releasing
<1>3. Memory /\ IsSeq(todo) /\ Later
  BY <1>1, Walking
<1>4. ~Releasing(Head(todo))
  BY <1>1 DEF Releasing
<1>5. Memory'
  <2>1. <<"program", 0, 0>> # <<"st", 0, 0>>
    OBVIOUS
  <2>2. /\ todo # <<>> /\ Then(<<x>>) /\ program' = NULL /\ st' = st
        /\ UNCHANGED <<heap, fresh, vals, causes, room, phase>>
    BY <1>1
  <2>3. Held(<<"program", 0, 0>>) = program
    BY PlaceFacts DEF PlaceLaws
  <2>4. PICK place : place = <<"program", 0, 0>>
    OBVIOUS
  <2> QED
    BY ONLY <1>2, <1>3, <1>4, <2>1, <2>2, <2>3, <2>4, Handover
<1>6. /\ vals = <<>> /\ Ending(todo) /\ todo \in {<<FP, RET>>, <<FP, SF, RET>>}
  BY <1>1, <1>3, LastTasks
<1>7. PICK tail : tail = Tail(todo) /\ Ending(tail)'
  <2>1. Tail(<<FP, RET>>) = <<RET>> /\ Tail(<<FP, SF, RET>>) = <<SF, RET>>
    BY TwoFirst
  <2>2. <<FP, RET>> # <<SF, RET>>
    BY TwoFirst DEF FP, SF
  <2>3. st # NULL => todo = <<FP, SF, RET>>
    BY <1>6, <2>2 DEF Ending
  <2>4. PICK t : t = Tail(todo)
    OBVIOUS
  <2>5. t \in {<<RET>>, <<SF, RET>>} /\ (st # NULL => t = <<SF, RET>>)
    BY <2>1, <2>3, <2>4, <1>6
  <2>6. Ending(t)'
    <3>1. st' # NULL => t = <<SF, RET>>
      BY <2>5, <1>1
    <3>2. program' = NULL
      BY <1>1
    <3> QED
      BY <2>5, <3>1, <3>2 DEF Ending, Ends
  <2> QED
    BY <2>4, <2>6
<1>8. Later'
  <2>1. program \in References'
    BY <1>1, <1>3 DEF Memory, TypeOK, References, Address
  <2>2. todo' = <<x>> \o tail /\ vals' = <<>>
    BY <1>7, <1>1, <1>6 DEF Then
  <2>3. Destroys(x) /\ x[2] \in References' /\ program' = NULL
    BY <2>1, <1>1, <1>2 DEF Destroys
  <2> QED
    BY ONLY <2>2, <2>3, <1>7, LaterFree
<1> QED
  BY <1>1, <1>5, <1>8 DEF Sound, Memory, NoMisuse

LEMMA StabFreeSound ==
  ASSUME Sound, StabFree
  PROVE  Sound'
<1>1. PICK x : /\ x = <<"free node", st>>
               /\ phase = "run" /\ todo # <<>> /\ Head(todo)[1] = "stab_free" /\ Then(<<x>>)
               /\ st' = NULL /\ UNCHANGED <<heap, fresh, vals, program, room, phase, causes>>
  BY DEF StabFree, At
<1>2. x[1] = "free node" /\ x[2] = st /\ Releasing(x)
  BY <1>1, TwoFirst DEF Releasing
<1>3. Memory /\ IsSeq(todo) /\ Later
  BY <1>1, Walking
<1>4. ~Releasing(Head(todo))
  BY <1>1 DEF Releasing
<1>5. Memory'
  <2>1. <<"program", 0, 0>> # <<"st", 0, 0>>
    OBVIOUS
  <2>2. /\ todo # <<>> /\ Then(<<x>>) /\ st' = NULL /\ program' = program
        /\ UNCHANGED <<heap, fresh, vals, causes, room, phase>>
    BY <1>1
  <2>3. Held(<<"st", 0, 0>>) = st
    BY PlaceFacts DEF PlaceLaws
  <2>4. PICK place : place = <<"st", 0, 0>>
    OBVIOUS
  <2> QED
    BY ONLY <1>2, <1>3, <1>4, <2>1, <2>2, <2>3, <2>4, Handover
<1>6. /\ vals = <<>> /\ Ending(todo) /\ todo = <<SF, RET>>
  BY <1>1, <1>3, LastTasks
<1>7. program = NULL
  <2>1. <<FP, RET>> # <<SF, RET>> /\ <<FP, SF, RET>> # <<SF, RET>>
    BY TwoFirst DEF FP, SF
  <2> QED
    BY <2>1, <1>6 DEF Ending
<1>8. PICK tail : tail = <<RET>>
  OBVIOUS
<1>9. Tail(todo) = tail /\ Ending(tail)'
  <2>1. Tail(todo) = tail
    BY <1>6, <1>8, TwoFirst
  <2>2. program' = NULL /\ st' = NULL
    BY <1>1, <1>7
  <2> QED
    BY <2>1, <2>2, <1>8 DEF Ending, Ends
<1>10. Later'
  <2>1. st \in References'
    BY <1>1, <1>3 DEF Memory, TypeOK, References, Address
  <2>2. todo' = <<x>> \o tail /\ vals' = <<>>
    BY <1>9, <1>1, <1>6 DEF Then
  <2>3. Destroys(x) /\ x[2] \in References' /\ program' = NULL
    BY <2>1, <1>1, <1>2, <1>7 DEF Destroys
  <2> QED
    BY ONLY <2>2, <2>3, <1>9, LaterFree
<1> QED
  BY <1>1, <1>5, <1>10 DEF Sound, Memory, NoMisuse

LEMMA ReturnSound ==
  ASSUME Sound, Return
  PROVE  Sound'
<1>1. /\ phase = "run" /\ todo # <<>> /\ Head(todo)[1] = "return"
      /\ phase' = "done" /\ todo' = <<>>
      /\ UNCHANGED <<heap, fresh, vals, program, st, room, causes>>
  BY DEF Return, At
<1>2. Memory /\ IsSeq(todo) /\ Later
  BY <1>1, Walking
<1>3. /\ vals = <<>> /\ Ending(todo) /\ todo = <<RET>>
  BY <1>1, <1>2, LastTasks
<1>4. program = NULL /\ st = NULL
  <2>1. <<FP, RET>> # <<RET>> /\ <<FP, SF, RET>> # <<RET>> /\ <<SF, RET>> # <<RET>>
    <3>1. Len(<<FP, RET>>) = 2 /\ Len(<<FP, SF, RET>>) = 3 /\ Len(<<SF, RET>>) = 2 /\ Len(<<RET>>) = 1
      BY TwoFirst
    <3> QED
      BY <3>1
  <2> QED
    BY <2>1, <1>3 DEF Ending
<1>5. DOMAIN todo = {1} /\ todo[1] = RET /\ DOMAIN todo' = {}
  BY <1>1, <1>3
<1>6. ~Releasing(todo[1]) /\ todo[1][1] # "free"
  BY <1>5 DEF RET, Releasing
<1>7. \A a \in Alive : ~Emptied(a)
  BY <1>5, <1>6 DEF Emptied
<1>8. TypeOK'
  BY <1>1, <1>2 DEF Memory, TypeOK, Alive, Address, References, KidsOf
<1>9. \A p : p \in Owners' <=> p \in Owners
  <2>1. \A p : p \in Owners' => p \in Owners
    <3> SUFFICES ASSUME NEW p \in Owners'
                 PROVE  p \in Owners
      OBVIOUS
    <3>1. p \in Places' /\ Held(p)' > 0
      BY PlaceFactsPrime
    <3>2. PICK a, i : a \in Alive /\ p = <<"field", a, i>> /\ i \in DOMAIN KidsOf(a)
      <4>1. DOMAIN vals' = {} /\ program' = 0 /\ st' = 0
        BY <1>1, <1>3, <1>4 DEF NULL
      <4>2. PICK a, i : a \in Alive' /\ p = <<"field", a, i>> /\ i \in DOMAIN heap'[a].kids
        BY <3>1, <4>1, <1>5, PlaceFactsPrime
      <4> QED
        BY <4>2, <1>1 DEF Alive, KidsOf
    <3>3. Held(p) = KidsOf(a)[i] /\ p \in Places
      BY <3>2, PlaceFacts DEF PlaceLaws
    <3>4. Held(p)' = heap'[a].kids[i]
      BY <3>2, PlaceFactsPrime
    <3> QED
      BY <3>1, <3>3, <3>4, <1>1, PlaceFacts DEF PlaceLaws, KidsOf
  <2>2. \A p : p \in Owners => p \in Owners'
    <3> SUFFICES ASSUME NEW p \in Owners
                 PROVE  p \in Owners'
      OBVIOUS
    <3>1. p \in Places /\ Held(p) > 0
      BY PlaceFacts DEF PlaceLaws
    <3>2. PICK a, i : a \in Alive /\ p = <<"field", a, i>> /\ i \in DOMAIN KidsOf(a)
      <4>1. DOMAIN vals = {} /\ program = 0 /\ st = 0
        BY <1>1, <1>3, <1>4 DEF NULL
      <4>2. \A j \in DOMAIN todo : ~Releasing(todo[j])
        BY <1>5, <1>6
      <4>3. p # <<"program", 0, 0>> /\ p # <<"st", 0, 0>>
        BY <3>1, <4>1, PlaceFacts DEF PlaceLaws
      <4> QED
        BY <3>1, <4>1, <4>2, <4>3, PlaceFacts DEF PlaceLaws
    <3>3. a \in Alive' /\ i \in DOMAIN heap'[a].kids
      BY <3>2, <1>1 DEF Alive, KidsOf
    <3>4. Held(p) = KidsOf(a)[i]
      BY <3>2, PlaceFacts DEF PlaceLaws
    <3>5. Held(p)' = heap'[a].kids[i] /\ p \in Places'
      BY <3>2, <3>3, PlaceFactsPrime
    <3> QED
      BY <3>1, <3>4, <3>5, <1>1, PlaceFactsPrime DEF KidsOf
  <2> QED
    BY <2>1, <2>2
<1>10. \A p \in Owners : Held(p)' = Held(p)
  <2> TAKE p \in Owners
  <2>1. PICK a, i : a \in Alive /\ p = <<"field", a, i>> /\ i \in DOMAIN KidsOf(a)
    <3>1. p \in Places /\ Held(p) > 0
      BY PlaceFacts DEF PlaceLaws
    <3>2. DOMAIN vals = {} /\ program = 0 /\ st = 0
      BY <1>1, <1>3, <1>4 DEF NULL
    <3>3. \A j \in DOMAIN todo : ~Releasing(todo[j])
      BY <1>5, <1>6
    <3>4. p # <<"program", 0, 0>> /\ p # <<"st", 0, 0>>
      BY <3>1, <3>2, PlaceFacts DEF PlaceLaws
    <3> QED
      BY <3>1, <3>2, <3>3, <3>4, PlaceFacts DEF PlaceLaws
  <2>2. Held(p) = KidsOf(a)[i]
    BY <2>1, PlaceFacts DEF PlaceLaws
  <2>3. Held(p)' = heap'[a].kids[i]
    BY <2>1, PlaceFactsPrime
  <2> QED
    BY <2>2, <2>3, <1>1 DEF KidsOf
<1>11. Memory'
  <2>1. PICK R, G : R = {} /\ G = {}
    OBVIOUS
  <2> QED
    BY <2>1, <1>1, <1>2, <1>7, <1>8, <1>9, <1>10, Passed
<1> QED
  BY <1>1, <1>3, <1>4, <1>11 DEF Sound, Memory, NoMisuse

-----------------------------------------------------------------------------
(* Freeing *)

(* A node without fields goes, and with it the call that freed it. *)
LEMMA FreeMemory ==
  ASSUME Memory, IsSeq(todo), todo # <<>>, Head(todo)[1] = "free",
         Arg \in Alive, KidsOf(Arg) = <<>>,
         heap' = [a \in Alive \ {Arg} |-> heap[a]], Then(<<>>),
         UNCHANGED <<fresh, vals, program, st, room, phase, causes>>
  PROVE  /\ Memory' /\ Arg # program /\ Arg # st
         /\ \A p \in Owners : Held(p) = Arg /\ p # <<"call", Len(todo) - 1, 0>> =>
              causes # {} /\ heap[Arg].tag = "string"
<1>1. /\ TypeOK /\ Records /\ Shape /\ Owned /\ Grounded /\ Rooted /\ Stabbed
      /\ causes \subseteq Shares
      /\ fresh \in Nat /\ Alive \subseteq Address /\ NULL = 0 /\ Arg > 0
  BY DEF Memory, TypeOK, Address, NULL
<1>2. /\ Alive' = Alive \ {Arg} /\ Alive' \subseteq Alive /\ Arg \notin Alive'
      /\ \A a \in Alive' : heap'[a] = heap[a] /\ KidsOf(a)' = KidsOf(a)
      /\ Address' = Address /\ References' = References
  BY DEF Alive, KidsOf, Address, References
<1>3. Len(todo) \in Nat /\ Len(todo) > 0 /\ 1 \in DOMAIN todo /\ Head(todo) = todo[1]
  BY SeqFacts
<1>4. Releasing(Head(todo)) /\ todo[1][2] = Arg
  BY <1>3 DEF Releasing, Arg
<1>5. Arg # program /\ Arg # st
  <2>1. Arg = program => heap[Arg].tag # "string"
    BY <1>1 DEF Rooted, Tagged
  <2>2. Arg = st => heap[Arg].tag # "string"
    BY <1>1 DEF Stabbed, Tagged
  <2> QED
    BY <2>1, <2>2, <1>3, <1>4, Freed1
<1>6. PICK c, n : n = Len(todo) - 1 /\ c = <<"call", n, 0>>
  OBVIOUS
<1>7. /\ IsSeq(todo') /\ Len(todo') = Len(todo) - 1
      /\ \A i \in 2..Len(todo) : todo'[i - 1] = todo[i]
      /\ \A d \in 0..(Len(todo) - 2) :
           /\ (<<"call", d, 0>> \in Places)' <=> <<"call", d, 0>> \in Places
           /\ Held(<<"call", d, 0>>)' = Held(<<"call", d, 0>>)
      /\ \A d : (<<"call", d, 0>> \in Places)' => d \in 0..(Len(todo) - 2)
      /\ \A d : <<"call", d, 0>> \in Places => d \in 0..(Len(todo) - 2) \/ d = n
      /\ c \in Places /\ Held(c) = Arg
  <2>1. PICK work : work = <<>> /\ IsSeq(work) /\ Len(work) = 0 /\ Then(work)
    BY SeqFacts
  <2>2. /\ IsSeq(todo') /\ Len(todo') = Len(todo) + Len(work) - 1
        /\ \A i \in 2..Len(todo) : todo'[i - 1 + Len(work)] = todo[i]
        /\ \A d \in 0..(Len(todo) - 2) :
             /\ (<<"call", d, 0>> \in Places)' <=> <<"call", d, 0>> \in Places
             /\ Held(<<"call", d, 0>>)' = Held(<<"call", d, 0>>)
        /\ \A d : (<<"call", d, 0>> \in Places)' =>
             \/ d \in 0..(Len(todo) - 2)
             \/ \E i \in 1..Len(work) : Releasing(work[i]) /\ d = Len(todo) + Len(work) - 1 - i
        /\ \A d : <<"call", d, 0>> \in Places =>
             d \in 0..(Len(todo) - 2) \/ (d = Len(todo) - 1 /\ Releasing(Head(todo)))
        /\ \A d : d = Len(todo) - 1 =>
             /\ <<"call", d, 0>> \in Places <=> Releasing(Head(todo))
             /\ Held(<<"call", d, 0>>) = Arg
    BY <2>1, CallPlaces
  <2>3. \A i \in 2..Len(todo) : i - 1 + Len(work) = i - 1
    BY <2>1, <1>3
  <2>4. 1..Len(work) = {} /\ Len(todo) + Len(work) - 1 = Len(todo) - 1
    BY <2>1, <1>3
  <2>5. \A i \in 2..Len(todo) : todo'[i - 1] = todo[i]
    BY <2>2, <2>3
  <2> QED
    BY <2>2, <2>4, <2>5, <1>4, <1>6
<1>8. c \in Owners
  BY <1>1, <1>7, PlaceFacts DEF PlaceLaws
<1>9. ASSUME NEW p \in Owners, Held(p) = Arg, p # c
      PROVE  causes # {} /\ heap[Arg].tag = "string"
  <2>1. causes # {} /\ IsString(Held(p))
    BY <1>1, <1>7, <1>8, <1>9 DEF Owned
  <2> QED
    BY <2>1, <1>9 DEF IsString
<1>10. ASSUME NEW p \in Places'
       PROVE  p \in Places /\ p # c /\ Held(p)' = Held(p)
  <2>1. CASE \E i \in DOMAIN vals' : p = <<"value", i, 0>>
    <3>1. PICK i \in DOMAIN vals : p = <<"value", i, 0>>
      BY <2>1
    <3> QED
      BY <3>1, <1>6, PlaceFacts, PlaceFactsPrime DEF PlaceLaws
  <2>2. CASE \E d : p = <<"call", d, 0>>
    <3>1. PICK d : p = <<"call", d, 0>>
      BY <2>2
    <3>2. d \in 0..(Len(todo) - 2) /\ d # n
      BY <3>1, <1>6, <1>7, <1>3
    <3> QED
      BY <3>1, <3>2, <1>6, <1>7
  <2>3. CASE \E a \in Alive' : \E i \in DOMAIN heap'[a].kids : p = <<"field", a, i>>
    <3>1. PICK a, i : a \in Alive' /\ p = <<"field", a, i>> /\ i \in DOMAIN heap'[a].kids
      BY <2>3
    <3>2. a \in Alive /\ i \in DOMAIN KidsOf(a) /\ heap'[a].kids[i] = KidsOf(a)[i]
      BY <3>1, <1>2 DEF KidsOf
    <3>3. p \in Places /\ Held(p) = KidsOf(a)[i]
      BY <3>1, <3>2, PlaceFacts DEF PlaceLaws
    <3>4. Held(p)' = heap'[a].kids[i]
      BY <3>1, PlaceFactsPrime
    <3>5. p # c
      BY <3>1, <1>6
    <3> QED
      BY <3>2, <3>3, <3>4, <3>5
  <2>4. CASE p \in {<<"program", 0, 0>>, <<"st", 0, 0>>}
    <3>1. /\ p \in Places
          /\ p = <<"program", 0, 0>> => Held(p)' = program' /\ Held(p) = program
          /\ p = <<"st", 0, 0>> => Held(p)' = st' /\ Held(p) = st
      BY <2>4, PlaceFacts, PlaceFactsPrime DEF PlaceLaws
    <3>2. p # c
      BY <2>4, <1>6
    <3> QED
      BY <2>4, <3>1, <3>2
  <2> QED
    BY <2>1, <2>2, <2>3, <2>4, PlaceFactsPrime
<1>11. ASSUME NEW p \in Places, p # c
       PROVE  p \in Places'
  <2>1. CASE \E i \in DOMAIN vals : p = <<"value", i, 0>>
    <3>1. PICK i \in DOMAIN vals : p = <<"value", i, 0>>
      BY <2>1
    <3> QED
      BY <3>1, PlaceFactsPrime
  <2>2. CASE \E d : p = <<"call", d, 0>>
    <3>1. PICK d : p = <<"call", d, 0>>
      BY <2>2
    <3>2. d \in 0..(Len(todo) - 2)
      BY <3>1, <1>6, <1>7, <1>11
    <3> QED
      BY <3>1, <3>2, <1>7
  <2>3. CASE \E a \in Alive : \E i \in DOMAIN KidsOf(a) : p = <<"field", a, i>>
    <3>1. PICK a, i : a \in Alive /\ p = <<"field", a, i>> /\ i \in DOMAIN KidsOf(a)
      BY <2>3
    <3>2. a # Arg
      <4>1. DOMAIN <<>> = {}
        OBVIOUS
      <4> QED
        BY <3>1, <4>1
    <3>3. a \in Alive' /\ i \in DOMAIN heap'[a].kids
      BY <3>1, <3>2, <1>2 DEF KidsOf
    <3> QED
      BY <3>1, <3>3, PlaceFactsPrime
  <2>4. CASE p \in {<<"program", 0, 0>>, <<"st", 0, 0>>}
    BY <2>4, PlaceFactsPrime
  <2> QED
    BY <2>1, <2>2, <2>3, <2>4, PlaceFacts DEF PlaceLaws
<1>12. /\ \A p : p \in Owners <=> p \in Places /\ Held(p) > 0
       /\ \A p : p \in Owners' <=> p \in Places' /\ Held(p)' > 0
  BY PlaceFacts, PlaceFactsPrime DEF PlaceLaws
<1>13. \A p \in Owners' : p \in Owners /\ p # c /\ Held(p)' = Held(p)
  BY <1>10, <1>12
<1>14. \A p \in Owners : p # c => p \in Owners' /\ Held(p)' = Held(p)
  BY <1>10, <1>11, <1>12
<1>15. Owned'
  <2>1. PICK R, G : R = {c} /\ G = {}
    OBVIOUS
  <2>2. /\ fresh' \in Nat /\ fresh <= fresh' /\ Alive' \subseteq Address' /\ causes \subseteq causes'
        /\ \A a \in Alive' : a <= fresh => a \in Alive /\ heap'[a].tag = heap[a].tag
    BY <1>1, <1>2
  <2>3. /\ \A p \in Owners' \ G : p \in Owners \ R /\ Held(p)' = Held(p)
        /\ \A p \in Owners \ R : p \in Owners' /\ Held(p)' = Held(p)
    BY <2>1, <1>13, <1>14
  <2>4. /\ \A p \in G \cap Owners' :
             \/ Held(p)' \in Alive' /\ Held(p)' > fresh
             \/ \E r \in R \cap Owners : Held(r) = Held(p)'
             \/ causes' # {} /\ IsString(Held(p))' /\ Held(p)' \in Address
        /\ \A p, q \in G \cap Owners' :
             Held(p)' = Held(q)' /\ p # q => causes' # {} /\ IsString(Held(p))'
    BY <2>1
  <2>5. \A a \in Alive' : \/ \E p \in G \cap Owners' : Held(p)' = a
                          \/ a \in Alive /\ \A r \in R \cap Owners : Held(r) # a
    BY <2>1, <1>2, <1>7
  <2>6. \A a \in Alive \ Alive' : /\ \E r \in R \cap Owners : Held(r) = a
                                 /\ \A p \in G \cap Owners' : Held(p)' # a
    BY <2>1, <1>2, <1>7, <1>8
  <2> QED
    BY ONLY <1>1, <2>2, <2>3, <2>4, <2>5, <2>6, Transfer
<1>16. ASSUME NEW a \in Alive', NEW i \in DOMAIN KidsOf(a), KidsOf(a)[i] \in Alive,
              heap[KidsOf(a)[i]].tag # "string"
       PROVE  KidsOf(a)[i] \in Alive'
  <2>1. PICK p : p = <<"field", a, i>>
    OBVIOUS
  <2>2. p \in Places /\ Held(p) = KidsOf(a)[i] /\ p # c
    BY <2>1, <1>2, <1>6, PlaceFacts DEF PlaceLaws
  <2>3. p \in Owners
    <3>1. Held(p) > 0
      <4>1. Held(p) \in 1..fresh
        BY <2>2, <1>1, <1>16 DEF Address
      <4> QED
        BY <4>1, <1>1
    <3> QED
      BY <2>2, <3>1, <1>12
  <2> QED
    BY <2>2, <2>3, <1>2, <1>9, <1>16
<1>17. ASSUME NEW a \in Alive', NEW i \in DOMAIN KidsOf(a), NEW kind, Is(KidsOf(a)[i], kind)
       PROVE  Is(KidsOf(a)[i], kind)'
  <2>1. PICK v : v = KidsOf(a)[i]
    OBVIOUS
  <2>2. v \in Alive /\ heap[v].tag # "string" => v \in Alive'
    BY <2>1, <1>16
  <2>3. Tagged(v, "free_*") =>
          \A j \in DOMAIN heap'[v].kids :
            \E k \in DOMAIN KidsOf(v) :
              /\ heap'[v].kids[j] = KidsOf(v)[k]
              /\ KidsOf(v)[k] \in Alive /\ heap[KidsOf(v)[k]].tag # "string"
                    => KidsOf(v)[k] \in Alive'
    <3> SUFFICES ASSUME Tagged(v, "free_*"), NEW j \in DOMAIN heap'[v].kids
                 PROVE  /\ j \in DOMAIN KidsOf(v) /\ heap'[v].kids[j] = KidsOf(v)[j]
                        /\ KidsOf(v)[j] \in Alive /\ heap[KidsOf(v)[j]].tag # "string"
                              => KidsOf(v)[j] \in Alive'
      OBVIOUS
    <3>1. v \in Alive'
      BY <2>2 DEF Tagged
    <3>2. heap'[v].kids = KidsOf(v)
      BY <3>1, <1>2 DEF KidsOf
    <3> QED
      BY <3>1, <3>2, <1>16
  <2>4. \A b \in Alive' : b <= fresh => b \in Alive /\ heap'[b].tag = heap[b].tag
    BY <1>2
  <2>5. Is(v, kind) /\ fresh' \in Nat /\ fresh <= fresh'
    BY <2>1, <1>17, <1>1
  <2>6. Is(v, kind)'
    BY <2>2, <2>3, <2>4, <2>5, <1>1, IsKept
  <2> QED
    BY <2>1, <2>6, <1>2
<1>18. Shape'
  <2> SUFFICES ASSUME NEW a \in Alive'
               PROVE  Emptied(a)' \/ Shaped(a)'
    BY DEF Shape
  <2>1. CASE Emptied(a)
    <3>1. PICK i \in DOMAIN todo : todo[i][1] = "free" /\ todo[i][2] = a
      BY <2>1 DEF Emptied
    <3>2. i \in 1..Len(todo) /\ DOMAIN todo' = 1..Len(todo')
      BY <1>7, SeqFacts
    <3>3. i # 1
      BY <3>1, <1>2, <1>4
    <3>4. i \in 2..Len(todo) /\ i - 1 \in 1..Len(todo')
      BY <3>2, <3>3, <1>3, <1>7
    <3>5. i - 1 \in DOMAIN todo' /\ todo'[i - 1] = todo[i]
      BY <3>2, <3>4, <1>7
    <3>6. KidsOf(a)' = <<>>
      BY <2>1, <1>2 DEF Emptied
    <3> QED
      BY <3>1, <3>5, <3>6 DEF Emptied
  <2>2. CASE Shaped(a)
    <3>1. /\ a \in Alive /\ heap'[a].tag = heap[a].tag /\ heap'[a].kids = KidsOf(a)
          /\ KidsOf(a) \in Seq(References)
      BY <1>1, <1>2 DEF TypeOK, KidsOf
    <3> QED
      BY <2>2, <3>1, <1>17, ShapedKept
  <2> QED
    BY <2>1, <2>2, <1>1, <1>2 DEF Shape
<1>19. Grounded'
  <2>1. \A a, S : S \subseteq Alive' => (Into(a, S)' <=> Into(a, S))
    BY <1>2 DEF Into
  <2>2. \A S \in SUBSET Alive' : S \in SUBSET Alive
    BY <1>2
  <2> QED
    BY <2>1, <2>2, <1>1 DEF Grounded, GroundedOn
<1>20. Rooted' /\ Stabbed'
  <2>1. Rooted'
    <3> SUFFICES ASSUME program # NULL
                 PROVE  /\ Tagged(program, "program")'
                        /\ \A a \in Alive' : a <= program => \A i \in DOMAIN heap'[a].kids : heap'[a].kids[i] <= program
                        /\ \A a \in Alive' : heap'[a].tag = "program" => a >= program
                        /\ st # NULL => st > program
      BY DEF Rooted, KidsOf
    <3>1. Tagged(program, "program")'
      BY <1>1, <1>2, <1>5 DEF Rooted, Tagged
    <3> QED
      BY <3>1, <1>1, <1>2 DEF Rooted, KidsOf
  <2>2. Stabbed'
    BY <1>1, <1>2, <1>5 DEF Stabbed, Tagged
  <2> QED
    BY <2>1, <2>2
<1>21. Records'
  <2>1. \A a \in Alive' : heap'[a] = Node(heap'[a].tag, heap'[a].kids)
    BY <1>1, <1>2 DEF Records
  <2>2. heap' = [a \in Alive' |-> heap'[a]]
    BY <1>2
  <2> QED
    BY <2>1, <2>2 DEF Records
<1>22. TypeOK'
  BY <1>1, <1>2 DEF TypeOK
<1> QED
  BY <1>1, <1>5, <1>6, <1>9, <1>15, <1>18, <1>19, <1>20, <1>21, <1>22 DEF Memory

LEMMA StepLater ==
  ASSUME NEW w, NEW tail, LaterIs(w, tail), w # <<>>,
         NEW work, IsSeq(work), Then(work), UNCHANGED <<vals, program, st>>,
         \A i \in 1..Len(work) : Good(work[i])' /\ ~Analyzing(work[i]),
         \A i \in 2..Len(w) : Good(w[i]) => Good(w[i])'
  PROVE  Later'
<1>1. /\ IsSeq(w) /\ IsSeq(tail) /\ IsSeq(Tail(w)) /\ Head(todo) = w[1]
      /\ Tail(todo) = Tail(w) \o tail /\ Ending(tail) /\ Ordered(w, tail)
      /\ Len(Tail(w)) = Len(w) - 1 /\ Len(w) \in Nat /\ Len(w) > 0 /\ Len(work) \in Nat
      /\ \A i \in 1..(Len(w) - 1) : Tail(w)[i] = w[i + 1]
  BY LaterHead, EndsFacts, SeqFacts DEF LaterIs
<1>2. PICK ahead : ahead = work \o Tail(w)
  OBVIOUS
<1>3. IsSeq(ahead) /\ todo' = ahead \o tail /\ Len(ahead) = Len(work) + (Len(w) - 1)
  <2>1. todo' = work \o (Tail(w) \o tail)
    BY <1>1 DEF Then
  <2>2. IsSeq(ahead) /\ Len(ahead) = Len(work) + (Len(w) - 1)
    BY <1>1, <1>2, SeqFacts
  <2>3. ahead \o tail = work \o (Tail(w) \o tail)
    BY <1>1, <1>2, ConcatAssociative
  <2> QED
    BY <2>1, <2>2, <2>3
<1>4. ASSUME NEW i \in 1..Len(ahead)
      PROVE  /\ Good(ahead[i])'
             /\ Analyzing(ahead[i]) =>
                  /\ tail = <<FP, SF, RET>>
                  /\ IF st' = NULL THEN i = Len(ahead) /\ ahead[i] = <<"analyze", program>>
                                   ELSE ahead[i][1] = "analyze" => ahead[i][2] # program
  <2>1. CASE i \in 1..Len(work)
    <3>1. ahead[i] = work[i]
      BY <2>1, <1>1, <1>2, SeqFacts
    <3> QED
      BY <3>1, <2>1
  <2>2. CASE i \notin 1..Len(work)
    <3>1. PICK j \in 1..(Len(w) - 1) : i = Len(work) + j
      <4>1. i - Len(work) \in 1..(Len(w) - 1) /\ i = Len(work) + (i - Len(work))
        BY <2>2, <1>1, <1>3
      <4> QED
        BY <4>1
    <3>2. ahead[i] = w[j + 1] /\ j + 1 \in 2..Len(w) /\ j + 1 \in 1..Len(w)
      <4>1. ahead[i] = Tail(w)[j] /\ Tail(w)[j] = w[j + 1]
        BY <3>1, <1>1, <1>2, SeqFacts, SMTT(40)
      <4>2. j \in Int /\ Len(w) \in Int /\ j >= 1 /\ j <= Len(w) - 1
        BY <1>1
      <4>3. j + 1 \in 2..Len(w) /\ j + 1 \in 1..Len(w)
        BY <4>2
      <4> QED
        BY <4>1, <4>3
    <3>3. Good(w[j + 1])
      BY <3>2, <1>1 DEF Ordered
    <3>4. Good(w[j + 1])'
      BY <3>2, <3>3, SMTT(40)
    <3>5. Analyzing(w[j + 1]) =>
            /\ tail = <<FP, SF, RET>>
            /\ IF st = NULL THEN j + 1 = Len(w) /\ w[j + 1] = <<"analyze", program>>
                            ELSE w[j + 1][1] = "analyze" => w[j + 1][2] # program
      BY <3>2, <1>1 DEF Ordered
    <3>6. j + 1 = Len(w) => i = Len(ahead)
      <4>1. Len(work) \in Int /\ Len(w) \in Int /\ j \in Int
        BY <1>1
      <4>2. Len(ahead) = Len(work) + (Len(w) - 1) /\ i = Len(work) + j
        BY <3>1, <1>3
      <4> QED
        BY ONLY <4>1, <4>2
    <3> QED
      BY <3>2, <3>4, <3>5, <3>6
  <2> QED
    BY <2>1, <2>2
<1>5. Ordered(ahead, tail)'
  BY <1>4 DEF Ordered, Analyzing
<1>6. Ending(tail)'
  BY <1>1 DEF Ending
<1>7. LaterIs(ahead, tail)'
  BY <1>3, <1>5, <1>6, <1>1 DEF LaterIs
<1> QED
  <2>1. LaterLaw'
    BY LaterHolds, PTL
  <2> QED
    BY <2>1, <1>7 DEF LaterLaw

(* What is true of the other work when a node goes, or loses its fields. *)
LEMMA GoodStays ==
  ASSUME TypeOK, TypeOK', UNCHANGED <<program, causes, fresh>>,
         NEW gone, Alive' \in {Alive, Alive \ {gone}}, gone \in Alive,
         \A a \in Alive' : heap'[a].tag = heap[a].tag /\ heap'[a].kids \in {KidsOf(a), <<>>},
         program # NULL => Apart(gone),
         NEW task, Good(task)
  PROVE  Good(task)'
<1>1. /\ fresh \in Nat /\ References = 0..fresh /\ Alive \subseteq 1..fresh /\ program \in 0..fresh
      /\ Alive' \subseteq Alive
  <2>1. fresh \in Nat /\ program \in References /\ Alive \subseteq Address
    BY DEF TypeOK
  <2>2. References = 0..fresh
    BY <2>1 DEF References, Address, NULL
  <2> QED
    BY <2>1, <2>2 DEF Address
<1>2. References' = References /\ Address' = Address
  BY DEF References, Address
<1>3. ASSUME NEW u, Apart(u)
      PROVE  Apart(u)'
  <2>1. IsString(u) => IsString(u)'
    BY <1>1 DEF IsString
  <2> QED
    BY <2>1, <1>3 DEF Apart
<1>4. ASSUME NEW u, Is(u, "string")
      PROVE  Is(u, "string")'
  BY <1>1, <1>2, <1>4 DEF Is, IsString
<1>5. CASE task[1] \in {"free", "free node"}
  <2>1. /\ task[2] \in References
        /\ task[1] = "free" /\ task[2] \in Alive => KidsOf(task[2]) = <<>>
        /\ program # NULL => Apart(task[2])
        /\ program # NULL /\ task[1] = "free node" /\ task[2] \in Alive =>
             \A i \in DOMAIN KidsOf(task[2]) :
               Is(KidsOf(task[2])[i], "string") /\ Apart(KidsOf(task[2])[i])
    BY <1>5 DEF Good, Borrowing, Borrows
  <2>2. task[2] \in References'
    BY <2>1, <1>2
  <2>3. task[2] \in Alive' =>
          task[2] \in Alive /\ KidsOf(task[2])' \in {KidsOf(task[2]), <<>>}
    BY <1>1 DEF KidsOf
  <2>4. program' # NULL => Apart(task[2])'
    BY <2>1, <1>3
  <2>5. ASSUME program' # NULL, task[1] = "free node", task[2] \in Alive'
        PROVE  \A i \in DOMAIN KidsOf(task[2])' :
                 Is(KidsOf(task[2])[i], "string")' /\ Apart(KidsOf(task[2])[i])'
    <3>1. PICK k : k = KidsOf(task[2])'
      OBVIOUS
    <3>2. k = KidsOf(task[2]) \/ k = <<>>
      BY <2>3, <2>5, <3>1
    <3>3. ASSUME NEW i \in DOMAIN k
          PROVE  Is(k[i], "string")' /\ Apart(k[i])'
      <4>1. DOMAIN <<>> = {}
        OBVIOUS
      <4>2. Is(k[i], "string") /\ Apart(k[i])
        BY <2>1, <2>3, <2>5, <3>2, <3>3, <4>1
      <4>3. PICK u : u = k[i]
        OBVIOUS
      <4> QED
        BY <4>2, <4>3, <1>3, <1>4
    <3> QED
      BY <3>1, <3>3 DEF KidsOf
  <2>6. task[1] = "free" /\ task[2] \in Alive' => KidsOf(task[2])' = <<>>
    BY <2>1, <2>3
  <2> QED
    BY <1>5, <2>2, <2>4, <2>5, <2>6 DEF Good
<1>6. CASE task[1] = "resolve"
  <2>1. /\ program # NULL /\ Is(task[2], "string") /\ Apart(task[2])
        /\ Is(task[3], "result") /\ task[3] <= program
    BY <1>6 DEF Good, Borrowing, Borrows
  <2>2. Apart(task[2])' /\ Is(task[2], "string")'
    BY <2>1, <1>3, <1>4
  <2>3. Is(task[3], "result")'
    <3>1. task[3] = NULL \/ IsType(task[3])
      BY <2>1 DEF Is
    <3>2. IsType(task[3]) => task[3] # gone
      <4> SUFFICES ASSUME IsType(gone), gone <= program
                   PROVE  FALSE
        BY <2>1
      <4>1. heap[gone].tag # "string"
        BY DEF IsType, Types
      <4>2. gone > program \/ gone = NULL
        BY <2>1, <4>1 DEF Apart, IsString
      <4> QED
        BY <4>2, <1>1 DEF NULL
    <3>3. IsType(task[3]) => IsType(task[3])'
      BY <3>2, <1>1 DEF IsType
    <3> QED
      BY <3>1, <3>3 DEF Is
  <2> QED
    BY <1>6, <2>1, <2>2, <2>3 DEF Good
<1>7. CASE Borrowing(task)
  <2>1. /\ program # NULL /\ task[2] \in 0..program
        /\ causes = {} /\ task[2] # NULL => task[2] \in Alive
        /\ task[1] = "formals" /\ task[2] \in Alive => heap[task[2]].tag = "decls"
    BY <1>7 DEF Good, Borrowing, Borrows
  <2>2. causes = {} => gone > program
    BY <2>1, <1>1 DEF Apart, NULL
  <2>3. causes' = {} /\ task[2] # NULL => task[2] \in Alive'
    <3>1. causes = {} => task[2] # gone
      BY <2>1, <2>2, <1>1
    <3> QED
      BY <2>1, <3>1
  <2> QED
    BY <1>7, <2>1, <2>3, <1>1 DEF Good, Borrowing, Borrows
<1> QED
  BY <1>5, <1>6, <1>7 DEF Good

LEMMA FreeSound ==
  ASSUME Sound, Free
  PROVE  Sound'
<1>1. /\ phase = "run" /\ todo # <<>> /\ Head(todo)[1] = "free" /\ Arg \in Alive
      /\ heap' = [a \in Alive \ {Arg} |-> heap[a]] /\ Then(<<>>)
      /\ UNCHANGED <<fresh, vals, program, st, room, phase, causes>>
  BY DEF Free, At
<1>2. Memory /\ IsSeq(todo) /\ (Dumping \/ Parsing \/ Later) /\ ~Parsing
  BY <1>1, Walking, ParsingHead DEF Sound, ParseTasks
<1>3. /\ Alive' = Alive \ {Arg}
      /\ \A a \in Alive' : heap'[a] = heap[a] /\ heap'[a].kids = KidsOf(a)
  BY <1>1 DEF Alive, KidsOf
<1>4. CASE Later
  <2>1. PICK w, tail : LaterIs(w, tail) /\ w # <<>>
    BY <1>1, <1>4, Walking DEF OnWalk
  <2>2. Good(Head(todo)) /\ IsSeq(w)
    BY <2>1, LaterHead DEF LaterIs
  <2>3. KidsOf(Arg) = <<>> /\ (program # NULL => Apart(Arg))
    BY <2>2, <1>1 DEF Good, Borrowing, Borrows, Arg
  <2>4. Memory'
    BY <1>1, <1>2, <2>3, FreeMemory
  <2>5. TypeOK /\ TypeOK'
    BY <1>2, <2>4 DEF Memory
  <2>6. ASSUME NEW i \in 2..Len(w), Good(w[i])
        PROVE  Good(w[i])'
    <3>1. PICK task : task = w[i]
      OBVIOUS
    <3>2. Good(task)'
      BY <3>1, <2>3, <2>5, <2>6, <1>1, <1>3, GoodStays
    <3> QED
      BY <3>1, <3>2
  <2>7. IsSeq(<<>>) /\ 1..Len(<<>>) = {}
    BY SeqFacts
  <2>8. Later'
    BY <2>1, <2>6, <2>7, <1>1, StepLater
  <2> QED
    BY <2>4, <2>8, <1>1 DEF Sound, Memory, NoMisuse
<1>5. CASE Dumping
  <2>1. PICK rest \in Rests : DumpingIs(rest)
    BY <1>5, DumpingTasks
  <2>2. PICK a \in Alive : Head(todo) = <<"free", a>> /\ Tail(todo) = <<<<"lex">>>> \o rest
    <3>1. /\ Head(todo) # <<"lex">>
          /\ \A a \in Alive : Head(todo) # <<"use", a>>
      BY <1>1, TwoFirst
    <3> QED
      BY <2>1, <3>1 DEF DumpingIs
  <2>3. todo' = <<<<"lex">>>> \o rest
    <3>1. IsSeq(Tail(todo))
      BY <1>1, <1>2, SeqFacts
    <3> QED
      BY <2>2, <3>1, <1>1, Concatenated DEF Then
  <2>4. KidsOf(Arg) = <<>>
    <3>1. Emptied(Arg) \/ Shaped(Arg)
      BY <1>1, <1>2 DEF Memory, Shape
    <3>2. heap[Arg].tag = "string"
      BY <1>1, <1>5 DEF Dumping
    <3> QED
      BY <3>1, <3>2 DEF Emptied, Shaped
  <2>5. Memory'
    BY <1>1, <1>2, <2>4, FreeMemory
  <2>6. Dumping'
    BY <2>3, <1>1, <1>3, <1>5 DEF Dumping
  <2> QED
    BY <2>5, <2>6, <1>1 DEF Sound, Memory, NoMisuse
<1> QED
  BY <1>2, <1>4, <1>5

(* What is released are the fields, each once. *)
Permuted(p, k, f, g) ==
  /\ IsSeq(p) /\ Len(p) = Len(k)
  /\ \A j \in 1..Len(p) : /\ f[j] \in 1..Len(k) /\ p[j] = k[f[j]] /\ g[f[j]] = j
                          /\ g[j] \in 1..Len(p) /\ f[g[j]] = j
LEMMA ReleasedKids ==
  ASSUME NEW a, Shaped(a), IsSeq(KidsOf(a)), NEW p, p = Released(heap[a].tag, KidsOf(a))
  PROVE  \E f, g : Permuted(p, KidsOf(a), f, g)
<1> DEFINE k == KidsOf(a)
<1>1. DOMAIN k = 1..Len(k) /\ Len(k) \in Nat
  BY SeqFacts
<1>2. CASE heap[a].tag = "program"
  <2>1. Len(k) = 6
    BY <1>2, LayoutOf, Tuples DEF Fields, ProgramKinds
  <2>2. p = <<k[1], k[2], k[4], k[3], k[5], k[6]>>
    BY <1>2 DEF Released
  <2>3. PICK f : f = <<1, 2, 4, 3, 5, 6>>
    OBVIOUS
  <2>4. f[1] = 1 /\ f[2] = 2 /\ f[3] = 4 /\ f[4] = 3 /\ f[5] = 5 /\ f[6] = 6
    BY <2>3
  <2>5. \A j \in 1..6 : j \in {1, 2, 3, 4, 5, 6}
    OBVIOUS
  <2>6. /\ IsSeq(p) /\ Len(p) = 6 /\ p[1] = k[1] /\ p[2] = k[2] /\ p[3] = k[4] /\ p[4] = k[3]
        /\ p[5] = k[5] /\ p[6] = k[6]
    BY <2>2, Tuples
  <2>7. Permuted(p, k, f, f)
    BY <2>1, <2>4, <2>5, <2>6 DEF Permuted
  <2> QED
    BY <2>7
<1>3. CASE heap[a].tag = "subdecl"
  <2>1. Len(k) = 6
    BY <1>3, LayoutOf, Tuples DEF Fields
  <2>2. p = <<k[2], k[3], k[5], k[4], k[6], k[1]>>
    BY <1>3 DEF Released
  <2>3. PICK f, g : f = <<2, 3, 5, 4, 6, 1>> /\ g = <<6, 1, 2, 4, 3, 5>>
    OBVIOUS
  <2>4. /\ f[1] = 2 /\ f[2] = 3 /\ f[3] = 5 /\ f[4] = 4 /\ f[5] = 6 /\ f[6] = 1
        /\ g[1] = 6 /\ g[2] = 1 /\ g[3] = 2 /\ g[4] = 4 /\ g[5] = 3 /\ g[6] = 5
    BY <2>3
  <2>5. \A j \in 1..6 : j \in {1, 2, 3, 4, 5, 6}
    OBVIOUS
  <2>6. /\ IsSeq(p) /\ Len(p) = 6 /\ p[1] = k[2] /\ p[2] = k[3] /\ p[3] = k[5] /\ p[4] = k[4]
        /\ p[5] = k[6] /\ p[6] = k[1]
    BY <2>2, Tuples
  <2>7. Permuted(p, k, f, g)
    BY <2>1, <2>4, <2>5, <2>6 DEF Permuted
  <2> QED
    BY <2>7
<1>4. CASE heap[a].tag \in {"decls", "TYPE_FUNCTION", "EXPR_APP"}
  <2>1. Len(k) = 2
    BY <1>4, LayoutOf, TwoFirst DEF Fields
  <2>2. p = <<k[2], k[1]>>
    BY <1>4 DEF Released
  <2>3. PICK f : f = <<2, 1>>
    OBVIOUS
  <2>4. f[1] = 2 /\ f[2] = 1
    BY <2>3
  <2>5. \A j \in 1..2 : j \in {1, 2}
    OBVIOUS
  <2>6. IsSeq(p) /\ Len(p) = 2 /\ p[1] = k[2] /\ p[2] = k[1]
    BY <2>2, TwoFirst, IsSeqShort
  <2>7. Permuted(p, k, f, f)
    BY <2>1, <2>4, <2>5, <2>6 DEF Permuted
  <2> QED
    BY <2>7
<1>5. CASE heap[a].tag \in {"free", "free_*", "path"} /\ k # <<>>
  <2>1. p = Append(Tail(k), Head(k))
    BY <1>5 DEF Released
  <2>2. PICK n : n = Len(k)
    OBVIOUS
  <2>3. /\ n \in Nat /\ n > 0 /\ Head(k) = k[1] /\ Len(Tail(k)) = n - 1
        /\ \A i \in 1..(n - 1) : Tail(k)[i] = k[i + 1]
    BY <1>5, <2>2, SeqFacts
  <2>4. /\ IsSeq(p) /\ Len(p) = n /\ p[n] = k[1] /\ \A i \in 1..(n - 1) : p[i] = k[i + 1]
    <3>1. PICK t, h : t = Tail(k) /\ h = Head(k)
      OBVIOUS
    <3>2. IsSeq(t) /\ Len(t) = n - 1
      BY <1>5, <2>3, <3>1, SeqFacts
    <3>3. PICK S : t \in Seq(S)
      BY <3>2 DEF IsSeq
    <3>4. t \in Seq(S \cup {h})
      BY <3>3
    <3>5. /\ Append(t, h) \in Seq(S \cup {h}) /\ Len(Append(t, h)) = Len(t) + 1
          /\ Append(t, h)[Len(t) + 1] = h /\ \A i \in 1..Len(t) : Append(t, h)[i] = t[i]
      BY <3>4
    <3> QED
      BY <2>1, <2>3, <3>1, <3>2, <3>5 DEF IsSeq
  <2>5. PICK f, g : /\ f = [j \in 1..n |-> IF j = n THEN 1 ELSE j + 1]
                    /\ g = [j \in 1..n |-> IF j = 1 THEN n ELSE j - 1]
    OBVIOUS
  <2>6. Permuted(p, k, f, g)
    <3>1. ASSUME NEW j \in 1..n
          PROVE  /\ f[j] \in 1..n /\ p[j] = k[f[j]] /\ g[f[j]] = j
                 /\ g[j] \in 1..n /\ f[g[j]] = j
      <4>1. f[j] \in 1..n /\ g[j] \in 1..n
        BY <2>3, <2>5
      <4>2. g[f[j]] = j
        BY <2>3, <2>5, <4>1
      <4>3. f[g[j]] = j
        BY <2>3, <2>5, <4>1
      <4>4. p[j] = k[f[j]]
        <5>1. CASE j = n
          BY <5>1, <2>4, <2>5
        <5>2. CASE j # n
          <6>1. j \in 1..(n - 1) /\ f[j] = j + 1
            BY <5>2, <2>3, <2>5
          <6> QED
            BY <6>1, <2>4
        <5> QED
          BY <5>1, <5>2
      <4> QED
        BY <4>1, <4>2, <4>3, <4>4
    <3> QED
      BY <2>2, <2>4, <3>1 DEF Permuted
  <2> QED
    BY <2>6
<1>6. CASE /\ heap[a].tag \notin {"program", "subdecl", "decls", "TYPE_FUNCTION", "EXPR_APP"}
           /\ ~(heap[a].tag \in {"free", "free_*", "path"} /\ k # <<>>)
  <2>1. p = k
    BY <1>6 DEF Released
  <2>2. PICK f : f = [j \in 1..Len(k) |-> j]
    OBVIOUS
  <2>3. Permuted(p, k, f, f)
    BY <2>1, <2>2, <1>1 DEF Permuted
  <2> QED
    BY <2>3
<1> QED
  BY <1>2, <1>3, <1>4, <1>5, <1>6

(* The fields of a node go to calls of their destructors. *)
LEMMA FreeNodeMemory ==
  ASSUME Memory, IsSeq(todo), todo # <<>>, Releasing(Head(todo)), Head(todo)[1] # "free",
         Arg \in Alive, NEW k, k = KidsOf(Arg), IsSeq(k),
         NEW p, NEW f, NEW g, Permuted(p, k, f, g),
         NEW work, IsSeq(work), Len(work) = Len(k) + 1, Then(work),
         \A j \in 1..Len(k) : Releasing(work[j]) /\ work[j][2] = p[j],
         work[Len(k) + 1][1] = "free", work[Len(k) + 1][2] = Arg,
         heap' = [heap EXCEPT ![Arg].kids = <<>>],
         UNCHANGED <<fresh, vals, program, st, room, phase, causes>>
  PROVE  Memory'
<1>1. /\ TypeOK /\ Records /\ Shape /\ Owned /\ Grounded /\ Rooted /\ Stabbed
      /\ causes \subseteq Shares
      /\ fresh \in Nat /\ Alive \subseteq Address /\ NULL = 0 /\ Arg > 0
  BY DEF Memory, TypeOK, Address, NULL
<1>2. /\ Alive' = Alive /\ Address' = Address /\ References' = References
      /\ \A a \in Alive : a # Arg => heap'[a] = heap[a] /\ heap'[a].kids = KidsOf(a)
      /\ heap'[Arg] = Node(heap[Arg].tag, <<>>)
      /\ \A a \in Alive : heap'[a].tag = heap[a].tag
      /\ heap'[Arg].kids = <<>>
  <2>1. Alive' = Alive /\ Address' = Address /\ References' = References
    BY DEF Alive, Address, References
  <2>2. \A a \in Alive : a # Arg => heap'[a] = heap[a]
    BY DEF Alive
  <2>3. heap'[Arg] = [heap[Arg] EXCEPT !.kids = <<>>]
    BY DEF Alive
  <2>4. heap[Arg] = Node(heap[Arg].tag, heap[Arg].kids)
    BY <1>1 DEF Records
  <2>5. heap'[Arg] = Node(heap[Arg].tag, <<>>)
    BY <2>3, <2>4 DEF Node
  <2>6. heap'[Arg].tag = heap[Arg].tag /\ heap'[Arg].kids = <<>>
    BY <2>5 DEF Node
  <2> QED
    BY <2>1, <2>2, <2>5, <2>6 DEF KidsOf
<1>3. PICK L, n : L = Len(todo) /\ n = Len(k)
  OBVIOUS
<1>4. /\ L \in Nat /\ L > 0 /\ n \in Nat /\ Len(work) = n + 1 /\ DOMAIN k = 1..n
      /\ Head(todo) = todo[1]
  BY <1>3, SeqFacts
<1>5. PICK c : c = <<"call", L - 1, 0>>
  OBVIOUS
<1>6. /\ IsSeq(todo') /\ Len(todo') = L + n
      /\ \A i \in 1..(n + 1) : todo'[i] = work[i]
      /\ \A i \in 2..L : todo'[i - 1 + (n + 1)] = todo[i]
      /\ \A d \in 0..(L - 2) :
           /\ (<<"call", d, 0>> \in Places)' <=> <<"call", d, 0>> \in Places
           /\ Held(<<"call", d, 0>>)' = Held(<<"call", d, 0>>)
      /\ \A i \in 1..(n + 1) : \A d : d = L + n - i =>
           /\ (<<"call", d, 0>> \in Places)' <=> Releasing(work[i])
           /\ Held(<<"call", d, 0>>)' = work[i][2]
      /\ \A d : (<<"call", d, 0>> \in Places)' =>
           \/ d \in 0..(L - 2)
           \/ \E i \in 1..(n + 1) : Releasing(work[i]) /\ d = L + n - i
      /\ \A d : <<"call", d, 0>> \in Places => d \in 0..(L - 2) \/ d = L - 1
      /\ c \in Places /\ Held(c) = Arg
  <2>0. /\ IsSeq(todo') /\ Len(todo') = Len(todo) + Len(work) - 1
        /\ \A i \in 1..Len(work) : todo'[i] = work[i]
        /\ \A i \in 2..Len(todo) : todo'[i - 1 + Len(work)] = todo[i]
        /\ \A d \in 0..(Len(todo) - 2) :
             /\ (<<"call", d, 0>> \in Places)' <=> <<"call", d, 0>> \in Places
             /\ Held(<<"call", d, 0>>)' = Held(<<"call", d, 0>>)
        /\ \A i \in 1..Len(work) : \A d : d = Len(todo) + Len(work) - 1 - i =>
             /\ (<<"call", d, 0>> \in Places)' <=> Releasing(work[i])
             /\ Held(<<"call", d, 0>>)' = work[i][2]
        /\ \A d : (<<"call", d, 0>> \in Places)' =>
             \/ d \in 0..(Len(todo) - 2)
             \/ \E i \in 1..Len(work) : Releasing(work[i]) /\ d = Len(todo) + Len(work) - 1 - i
        /\ \A d : <<"call", d, 0>> \in Places =>
             d \in 0..(Len(todo) - 2) \/ (d = Len(todo) - 1 /\ Releasing(Head(todo)))
        /\ \A d : d = Len(todo) - 1 =>
             /\ <<"call", d, 0>> \in Places <=> Releasing(Head(todo))
             /\ Held(<<"call", d, 0>>) = Arg
    BY CallPlaces
  <2>1. /\ IsSeq(todo') /\ Len(todo') = L + Len(work) - 1
        /\ \A i \in 1..Len(work) : todo'[i] = work[i]
        /\ \A i \in 2..L : todo'[i - 1 + Len(work)] = todo[i]
        /\ \A d \in 0..(L - 2) :
             /\ (<<"call", d, 0>> \in Places)' <=> <<"call", d, 0>> \in Places
             /\ Held(<<"call", d, 0>>)' = Held(<<"call", d, 0>>)
        /\ \A i \in 1..Len(work) : \A d : d = L + Len(work) - 1 - i =>
             /\ (<<"call", d, 0>> \in Places)' <=> Releasing(work[i])
             /\ Held(<<"call", d, 0>>)' = work[i][2]
        /\ \A d : (<<"call", d, 0>> \in Places)' =>
             \/ d \in 0..(L - 2)
             \/ \E i \in 1..Len(work) : Releasing(work[i]) /\ d = L + Len(work) - 1 - i
        /\ \A d : <<"call", d, 0>> \in Places =>
             d \in 0..(L - 2) \/ (d = L - 1 /\ Releasing(Head(todo)))
        /\ \A d : d = L - 1 =>
             /\ <<"call", d, 0>> \in Places <=> Releasing(Head(todo))
             /\ Held(<<"call", d, 0>>) = Arg
    BY ONLY <1>3, <2>0
  <2>2. L + Len(work) - 1 = L + n /\ \A i \in 1..(n + 1) : L + Len(work) - 1 - i = L + n - i
    BY <1>4
  <2>3. c \in Places /\ Held(c) = Arg
    BY <2>1, <1>5
  <2>4. \A i \in 1..(n + 1) : \A d : d = L + n - i =>
           /\ (<<"call", d, 0>> \in Places)' <=> Releasing(work[i])
           /\ Held(<<"call", d, 0>>)' = work[i][2]
    <3> TAKE i \in 1..(n + 1)
    <3> TAKE d
    <3>1. i \in 1..Len(work)
      BY <1>4
    <3> QED
      BY <3>1, <2>1, <2>2
  <2>5. \A d : (<<"call", d, 0>> \in Places)' =>
           \/ d \in 0..(L - 2)
           \/ \E i \in 1..(n + 1) : Releasing(work[i]) /\ d = L + n - i
    <3> SUFFICES ASSUME NEW d, (<<"call", d, 0>> \in Places)', d \notin 0..(L - 2)
                 PROVE  \E i \in 1..(n + 1) : Releasing(work[i]) /\ d = L + n - i
      OBVIOUS
    <3>1. PICK i \in 1..Len(work) : Releasing(work[i]) /\ d = L + Len(work) - 1 - i
      BY <2>1
    <3>2. i \in 1..(n + 1)
      BY <1>4
    <3> QED
      BY <3>1, <3>2, <2>2
  <2> QED
    BY <2>1, <2>2, <2>3, <2>4, <2>5, <1>4
<1>7. /\ \A j \in 1..n : Releasing(work[j]) /\ work[j][2] = p[j]
      /\ Releasing(work[n + 1]) /\ work[n + 1][2] = Arg
      /\ \A j \in 1..n : /\ f[j] \in 1..n /\ p[j] = k[f[j]] /\ g[f[j]] = j
                         /\ g[j] \in 1..n /\ f[g[j]] = j
  BY <1>3 DEF Releasing, Permuted
<1>8. c \in Places' /\ Held(c)' = Arg
  <2>1. n + 1 \in 1..(n + 1) /\ L - 1 = L + n - (n + 1)
    BY <1>4
  <2> QED
    BY <2>1, <1>5, <1>6, <1>7
<1>9. PICK R, G : /\ R = {<<"field", Arg, i>> : i \in 1..n}
                  /\ G = {<<"call", L + n - i, 0>> : i \in 1..n}
  OBVIOUS
<1>10. ASSUME NEW q \in G
       PROVE  \E i \in 1..n, r \in R : /\ q = <<"call", L + n - i, 0>> /\ r = <<"field", Arg, f[i]>>
                                       /\ q \in Places' /\ r \in Places /\ Held(q)' = Held(r)
  <2>1. PICK i \in 1..n : q = <<"call", L + n - i, 0>>
    BY <1>9
  <2>2. i \in 1..(n + 1)
    BY <1>4
  <2>3. PICK d : d = L + n - i
    OBVIOUS
  <2>4. q \in Places' /\ Held(q)' = p[i]
    BY <2>1, <2>2, <2>3, <1>6, <1>7
  <2>5. PICK r : r = <<"field", Arg, f[i]>>
    OBVIOUS
  <2>6. r \in R
    BY <2>5, <1>7, <1>9
  <2>7. r \in Places /\ Held(r) = k[f[i]]
    BY <2>5, <1>4, <1>7, PlaceFacts DEF PlaceLaws
  <2> QED
    BY <2>1, <2>4, <2>5, <2>6, <2>7, <1>7
<1>11. ASSUME NEW r \in R
       PROVE  r \in Places /\ \E q \in G : Held(q)' = Held(r)
  <2>1. PICK i \in 1..n : r = <<"field", Arg, i>>
    BY <1>9
  <2>2. r \in Places /\ Held(r) = k[i]
    BY <2>1, <1>4, PlaceFacts DEF PlaceLaws
  <2>3. PICK j \in 1..n : f[j] = i /\ p[j] = k[i]
    BY <1>7
  <2>4. PICK q, d : q = <<"call", d, 0>> /\ d = L + n - j
    OBVIOUS
  <2>5. q \in G
    BY <2>4, <1>9
  <2>6. j \in 1..(n + 1)
    BY <1>4
  <2>7. Held(q)' = p[j]
    BY <2>4, <2>6, <1>6, <1>7
  <2> QED
    BY <2>2, <2>3, <2>5, <2>7
<1>12. ASSUME NEW q \in Places', q \notin G
       PROVE  q \in Places /\ q \notin R /\ Held(q)' = Held(q)
  <2>1. CASE \E i \in DOMAIN vals' : q = <<"value", i, 0>>
    <3>1. PICK i \in DOMAIN vals : q = <<"value", i, 0>>
      BY <2>1
    <3>2. q \notin R
      BY <3>1, <1>9
    <3> QED
      BY <3>1, <3>2, PlaceFacts, PlaceFactsPrime DEF PlaceLaws
  <2>2. CASE \E d : q = <<"call", d, 0>>
    <3>1. PICK d : q = <<"call", d, 0>>
      BY <2>2
    <3>2. q \notin R
      BY <3>1, <1>9
    <3>3. CASE d \in 0..(L - 2)
      BY <3>1, <3>2, <3>3, <1>6
    <3>4. CASE d \notin 0..(L - 2)
      <4>1. PICK i \in 1..(n + 1) : d = L + n - i
        BY <3>1, <3>4, <1>6, <1>12
      <4>2. i = n + 1
        <5>1. i \notin 1..n
          BY <3>1, <4>1, <1>9, <1>12
        <5> QED
          BY <5>1, <1>4
      <4>3. d = L - 1
        BY <4>1, <4>2, <1>4
      <4> QED
        BY <3>1, <3>2, <4>3, <1>5, <1>6, <1>8
    <3> QED
      BY <3>3, <3>4
  <2>3. CASE \E a \in Alive' : \E i \in DOMAIN heap'[a].kids : q = <<"field", a, i>>
    <3>1. PICK a, i : a \in Alive /\ q = <<"field", a, i>> /\ i \in DOMAIN heap'[a].kids
      BY <2>3, <1>2
    <3>2. a # Arg
      <4>1. DOMAIN <<>> = {}
        OBVIOUS
      <4> QED
        BY <3>1, <4>1, <1>2
    <3>3. i \in DOMAIN KidsOf(a) /\ heap'[a].kids[i] = KidsOf(a)[i]
      BY <3>1, <3>2, <1>2
    <3>4. q \in Places /\ Held(q) = KidsOf(a)[i]
      BY <3>1, <3>3, PlaceFacts DEF PlaceLaws
    <3>5. Held(q)' = heap'[a].kids[i]
      BY <3>1, PlaceFactsPrime
    <3>6. q \notin R
      BY <3>1, <3>2, <1>9
    <3> QED
      BY <3>3, <3>4, <3>5, <3>6
  <2>4. CASE q \in {<<"program", 0, 0>>, <<"st", 0, 0>>}
    <3>1. /\ q \in Places
          /\ q = <<"program", 0, 0>> => Held(q)' = program' /\ Held(q) = program
          /\ q = <<"st", 0, 0>> => Held(q)' = st' /\ Held(q) = st
      BY <2>4, PlaceFacts, PlaceFactsPrime DEF PlaceLaws
    <3>2. q \notin R
      BY <2>4, <1>9
    <3> QED
      BY <2>4, <3>1, <3>2
  <2> QED
    BY <2>1, <2>2, <2>3, <2>4, PlaceFactsPrime
<1>13. ASSUME NEW q \in Places, q \notin R
       PROVE  q \in Places' /\ Held(q)' = Held(q)
  <2>1. CASE \E i \in DOMAIN vals : q = <<"value", i, 0>>
    <3>1. PICK i \in DOMAIN vals : q = <<"value", i, 0>>
      BY <2>1
    <3> QED
      BY <3>1, PlaceFacts, PlaceFactsPrime DEF PlaceLaws
  <2>2. CASE \E d : q = <<"call", d, 0>>
    <3>1. PICK d : q = <<"call", d, 0>>
      BY <2>2
    <3>2. CASE d \in 0..(L - 2)
      BY <3>1, <3>2, <1>6
    <3>3. CASE d = L - 1
      BY <3>1, <3>3, <1>5, <1>6, <1>8
    <3> QED
      BY <3>1, <3>2, <3>3, <1>6
  <2>3. CASE \E a \in Alive : \E i \in DOMAIN KidsOf(a) : q = <<"field", a, i>>
    <3>1. PICK a, i : a \in Alive /\ q = <<"field", a, i>> /\ i \in DOMAIN KidsOf(a)
      BY <2>3
    <3>2. a # Arg
      BY <3>1, <1>4, <1>9, <1>13
    <3>3. a \in Alive' /\ i \in DOMAIN heap'[a].kids /\ heap'[a].kids[i] = KidsOf(a)[i]
      BY <3>1, <3>2, <1>2
    <3>4. Held(q) = KidsOf(a)[i]
      BY <3>1, PlaceFacts DEF PlaceLaws
    <3>5. q \in Places' /\ Held(q)' = heap'[a].kids[i]
      BY <3>1, <3>3, PlaceFactsPrime
    <3> QED
      BY <3>3, <3>4, <3>5
  <2>4. CASE q \in {<<"program", 0, 0>>, <<"st", 0, 0>>}
    <3>1. /\ q \in Places'
          /\ q = <<"program", 0, 0>> => Held(q)' = program' /\ Held(q) = program
          /\ q = <<"st", 0, 0>> => Held(q)' = st' /\ Held(q) = st
      BY <2>4, PlaceFacts, PlaceFactsPrime DEF PlaceLaws
    <3> QED
      BY <2>4, <3>1
  <2> QED
    BY <2>1, <2>2, <2>3, <2>4, PlaceFacts DEF PlaceLaws
<1>14. /\ \A q : q \in Owners <=> q \in Places /\ Held(q) > 0
       /\ \A q : q \in Owners' <=> q \in Places' /\ Held(q)' > 0
  BY PlaceFacts, PlaceFactsPrime DEF PlaceLaws
<1>15. Owned'
  <2>1. /\ fresh' \in Nat /\ fresh <= fresh' /\ Alive' \subseteq Address' /\ causes \subseteq causes'
        /\ \A a \in Alive' : a <= fresh => a \in Alive /\ heap'[a].tag = heap[a].tag
    BY <1>1, <1>2
  <2>2. \A q \in Owners' \ G : q \in Owners \ R /\ Held(q)' = Held(q)
    BY <1>12, <1>14
  <2>3. \A q \in Owners \ R : q \in Owners' /\ Held(q)' = Held(q)
    BY <1>13, <1>14
  <2>4. \A q \in G \cap Owners' : \E r \in R \cap Owners : Held(r) = Held(q)'
    BY <1>10, <1>14
  <2>5. ASSUME NEW q1 \in G \cap Owners', NEW q2 \in G \cap Owners', Held(q1)' = Held(q2)', q1 # q2
        PROVE  causes' # {} /\ IsString(Held(q1))'
    <3>1. PICK i1 \in 1..n, r1 \in R :
            /\ q1 = <<"call", L + n - i1, 0>> /\ r1 = <<"field", Arg, f[i1]>>
            /\ r1 \in Places /\ Held(q1)' = Held(r1)
      BY <1>10
    <3>2. PICK i2 \in 1..n, r2 \in R :
            /\ q2 = <<"call", L + n - i2, 0>> /\ r2 = <<"field", Arg, f[i2]>>
            /\ r2 \in Places /\ Held(q2)' = Held(r2)
      BY <1>10
    <3>3. r1 \in Owners /\ r2 \in Owners /\ Held(r1) = Held(r2)
      BY <3>1, <3>2, <2>5, <1>14
    <3>4. f[i1] # f[i2]
      BY <3>1, <3>2, <2>5, <1>7
    <3>5. r1 # r2
      BY <3>1, <3>2, <3>4
    <3>6. causes # {} /\ IsString(Held(r1))
      BY <3>3, <3>5, <1>1 DEF Owned
    <3>7. PICK v : v = Held(r1)
      OBVIOUS
    <3>8. IsString(v)'
      BY <3>6, <3>7, <1>2 DEF IsString
    <3> QED
      BY <3>1, <3>6, <3>7, <3>8 DEF IsString
  <2>6. \A a \in Alive' : \/ \E q \in G \cap Owners' : Held(q)' = a
                          \/ a \in Alive /\ \A r \in R \cap Owners : Held(r) # a
    <3> SUFFICES ASSUME NEW a \in Alive, NEW r \in R \cap Owners, Held(r) = a
                 PROVE  \E q \in G \cap Owners' : Held(q)' = a
      BY <1>2
    <3>1. PICK q \in G : Held(q)' = Held(r)
      BY <1>11
    <3>2. q \in Places'
      BY <1>10
    <3> QED
      BY <3>1, <3>2, <1>14
  <2>7. \A a \in Alive \ Alive' : /\ \E r \in R \cap Owners : Held(r) = a
                                 /\ \A q \in G \cap Owners' : Held(q)' # a
    BY <1>2
  <2>8. \A q \in G \cap Owners' :
          \/ Held(q)' \in Alive' /\ Held(q)' > fresh
          \/ \E r \in R \cap Owners : Held(r) = Held(q)'
          \/ causes' # {} /\ IsString(Held(q))' /\ Held(q)' \in Address
    BY <2>4
  <2>9. \A q1, q2 \in G \cap Owners' :
          Held(q1)' = Held(q2)' /\ q1 # q2 => causes' # {} /\ IsString(Held(q1))'
    BY <2>5
  <2> QED
    BY ONLY <1>1, <2>1, <2>2, <2>3, <2>6, <2>7, <2>8, <2>9, Transfer
<1>16. ASSUME NEW v, NEW kind, Is(v, kind)
       PROVE  Is(v, kind)'
  <2>1. Tagged(v, "free_*") =>
          \A j \in DOMAIN heap'[v].kids :
            \E i \in DOMAIN KidsOf(v) :
              /\ heap'[v].kids[j] = KidsOf(v)[i]
              /\ KidsOf(v)[i] \in Alive /\ heap[KidsOf(v)[i]].tag # "string"
                    => KidsOf(v)[i] \in Alive'
    <3>1. DOMAIN <<>> = {}
      OBVIOUS
    <3> QED
      BY <3>1, <1>2 DEF Tagged
  <2>2. \A a \in Alive' : a <= fresh => a \in Alive /\ heap'[a].tag = heap[a].tag
    BY <1>2
  <2>3. fresh' \in Nat /\ fresh <= fresh' /\ (v \in Alive /\ heap[v].tag # "string" => v \in Alive')
    BY <1>1, <1>2
  <2> QED
    BY <2>1, <2>2, <2>3, <1>1, <1>16, IsKept
<1>17. Shape'
  <2> SUFFICES ASSUME NEW a \in Alive
               PROVE  Emptied(a)' \/ Shaped(a)'
    BY <1>2 DEF Shape
  <2>1. CASE a = Arg
    <3>1. n + 1 \in DOMAIN todo' /\ todo'[n + 1] = work[n + 1]
      <4>1. n + 1 \in 1..Len(todo') /\ n + 1 \in 1..(n + 1) /\ DOMAIN todo' = 1..Len(todo')
        BY <1>4, <1>6, SeqFacts, SMTT(40)
      <4> QED
        BY <4>1, <1>6
    <3>2. work[n + 1][1] = "free" /\ work[n + 1][2] = Arg
      BY <1>3
    <3>3. PICK b : b = Arg
      OBVIOUS
    <3>4. Emptied(b)'
      BY <3>1, <3>2, <3>3, <1>2 DEF Emptied, KidsOf
    <3> QED
      BY <3>3, <3>4, <2>1
  <2>2. CASE a # Arg /\ Emptied(a)
    <3>1. PICK i \in DOMAIN todo : todo[i][1] = "free" /\ todo[i][2] = a
      BY <2>2 DEF Emptied
    <3>2. i \in 1..L /\ DOMAIN todo' = 1..Len(todo')
      BY <1>3, <1>6, SeqFacts
    <3>3. i # 1
      BY <3>1, <1>4
    <3>4. i \in 2..L /\ i - 1 + (n + 1) \in 1..Len(todo')
      BY <3>2, <3>3, <1>4, <1>6
    <3>5. i - 1 + (n + 1) \in DOMAIN todo' /\ todo'[i - 1 + (n + 1)] = todo[i]
      BY <3>2, <3>4, <1>6
    <3>6. heap'[a].kids = <<>>
      BY <2>2, <1>2 DEF Emptied
    <3> QED
      BY <3>1, <3>5, <3>6 DEF Emptied, KidsOf
  <2>3. CASE a # Arg /\ Shaped(a)
    <3>1. /\ a \in Alive' /\ heap'[a].tag = heap[a].tag /\ heap'[a].kids = KidsOf(a)
          /\ KidsOf(a) \in Seq(References)
      BY <2>3, <1>1, <1>2 DEF TypeOK
    <3>2. \A v, kind : Is(v, kind) => Is(v, kind)'
      BY <1>16
    <3>3. ASSUME NEW i \in DOMAIN KidsOf(a), NEW kind, Is(KidsOf(a)[i], kind)
          PROVE  Is(KidsOf(a)[i], kind)'
      <4>1. PICK v : v = KidsOf(a)[i]
        OBVIOUS
      <4>2. v = KidsOf(a)[i]'
        BY <4>1, <3>1 DEF KidsOf
      <4>3. Is(v, kind)'
        BY <4>1, <3>2, <3>3
      <4> QED
        BY <4>2, <4>3
    <3> QED
      BY <2>3, <3>1, <3>3, ShapedKept
  <2> QED
    BY <2>1, <2>2, <2>3, <1>1 DEF Shape
<1>18. Grounded'
  <2>1. ASSUME NEW a, NEW S, S \subseteq Alive, Into(a, S)'
        PROVE  Into(a, S)
    <3>1. PICK b, i : b \in S /\ i \in DOMAIN heap'[b].kids /\ heap'[b].kids[i] = a
      BY <2>1 DEF Into, KidsOf
    <3>2. b # Arg
      <4>1. DOMAIN <<>> = {}
        OBVIOUS
      <4> QED
        BY <3>1, <4>1, <1>2
    <3> QED
      BY <3>1, <3>2, <2>1, <1>2 DEF Into
  <2>2. \A S \in SUBSET Alive' : S \in SUBSET Alive
    BY <1>2
  <2> QED
    BY <2>1, <2>2, <1>1 DEF Grounded, GroundedOn
<1>19. Rooted' /\ Stabbed'
  <2>1. Rooted'
    <3> SUFFICES ASSUME program # NULL
                 PROVE  /\ Tagged(program, "program")'
                        /\ \A a \in Alive' : a <= program => \A i \in DOMAIN heap'[a].kids : heap'[a].kids[i] <= program
                        /\ \A a \in Alive' : heap'[a].tag = "program" => a >= program
                        /\ st # NULL => st > program
      BY DEF Rooted, KidsOf
    <3>1. Tagged(program, "program")'
      BY <1>1, <1>2 DEF Rooted, Tagged
    <3>2. DOMAIN <<>> = {}
      OBVIOUS
    <3> QED
      BY <3>1, <3>2, <1>1, <1>2 DEF Rooted, KidsOf
  <2>2. Stabbed'
    BY <1>1, <1>2 DEF Stabbed, Tagged
  <2> QED
    BY <2>1, <2>2
<1>20. Records'
  <2>1. \A a \in Alive' : heap'[a] = Node(heap'[a].tag, heap'[a].kids)
    BY <1>1, <1>2 DEF Records, Node
  <2>2. heap' = [a \in Alive' |-> heap'[a]]
    BY DEF Alive
  <2> QED
    BY <2>1, <2>2 DEF Records
<1>21. TypeOK'
  <2>1. \A a \in Alive' : heap'[a].kids \in Seq(References')
    <3>1. \A a \in Alive : KidsOf(a) \in Seq(References)
      BY <1>1 DEF TypeOK
    <3>2. <<>> \in Seq(References')
      OBVIOUS
    <3> QED
      BY <3>1, <3>2, <1>2
  <2> QED
    BY <2>1, <1>1, <1>2 DEF TypeOK, KidsOf
<1> QED
  BY <1>1, <1>15, <1>17, <1>18, <1>19, <1>20, <1>21 DEF Memory

LEMMA StringKids ==
  ASSUME Shape, NEW v \in Alive, heap[v].tag = "string"
  PROVE  KidsOf(v) = <<>>
BY DEF Shape, Emptied, Shaped

(* How a destructor's field is released. *)
Frees(task) == task[1] \in {"free", "free node"}
LEMMA FreeTasks ==
  /\ \A task : Frees(task) => Releasing(task) /\ ~Analyzing(task)
  /\ \A task : Destroys(task) => Frees(task) /\ task[1] # "free"
  /\ \A task : task[1] = "free" => Frees(task)
  /\ \A v : /\ <<"free", v>>[1] = "free" /\ <<"free", v>>[2] = v
            /\ Frees(<<"free", v>>)
  /\ \A v : Destroys(<<"free node", v>>) /\ <<"free node", v>>[2] = v
BY DEF Frees, Destroys, Releasing, Analyzing

(* Freeing is good if it leaves alone what is still in use. *)
FreeGoodLaw ==
  \A task :
    /\ Frees(task) /\ task[2] \in References
    /\ task[1] = "free" /\ task[2] \in Alive => KidsOf(task[2]) = <<>>
    /\ program # NULL => Apart(task[2])
    /\ program # NULL /\ task[2] \in Alive =>
         \A i \in DOMAIN KidsOf(task[2]) :
           Is(KidsOf(task[2])[i], "string") /\ Apart(KidsOf(task[2])[i])
    => Good(task)
LEMMA FreeGood == FreeGoodLaw
BY DEF FreeGoodLaw, Frees, Good

LEMMA GoodFree ==
  ASSUME NEW task, Destroys(task), Good(task)
  PROVE  /\ task[2] \in References /\ (program # NULL => Apart(task[2]))
         /\ program # NULL /\ task[2] \in Alive =>
              \A i \in DOMAIN KidsOf(task[2]) :
                Is(KidsOf(task[2])[i], "string") /\ Apart(KidsOf(task[2])[i])
BY DEF Destroys, Good, Borrowing, Borrows

LEMMA FreeNodeSound ==
  ASSUME Sound, FreeNode
  PROVE  Sound'
<1> PICK tag : tag = heap[Arg].tag
  OBVIOUS
<1>0. PICK what : what = (IF tag = "free" THEN "free" ELSE "free node")
  OBVIOUS
<1>1. PICK k, p, x :
        /\ k = KidsOf(Arg) /\ tag = heap[Arg].tag /\ p = Released(tag, k) /\ x = <<"free", Arg>>
        /\ phase = "run" /\ todo # <<>> /\ Destroys(Head(todo)) /\ Head(todo)[1] \in WalkTasks
        /\ Arg \in Alive
        /\ Then(Each(what, p) \o <<x>>) /\ heap' = [heap EXCEPT ![Arg].kids = <<>>]
        /\ UNCHANGED <<fresh, vals, program, st, room, phase, causes>>
  BY <1>0 DEF FreeNode, At, KidsOf, Destroys, WalkTasks
<1>2. Memory /\ IsSeq(todo)
  BY <1>1, Walking
<1>3. PICK w, tail : LaterIs(w, tail) /\ w # <<>>
  BY <1>1, Walking DEF OnWalk
<1>4. Good(Head(todo)) /\ IsSeq(w)
  BY <1>3, LaterHead DEF LaterIs
<1>5. /\ Releasing(Head(todo)) /\ Head(todo)[1] # "free"
      /\ \A v : /\ Frees(<<what, v>>) /\ Releasing(<<what, v>>) /\ ~Analyzing(<<what, v>>)
                /\ <<what, v>>[2] = v /\ (<<what, v>>[1] = "free" => tag = "free")
      /\ x[1] = "free" /\ x[2] = Arg /\ ~Analyzing(x) /\ Frees(x)
  <2>1. Releasing(Head(todo)) /\ Head(todo)[1] # "free"
    BY <1>1, FreeTasks
  <2>2. ASSUME NEW v
        PROVE  /\ Frees(<<what, v>>) /\ Releasing(<<what, v>>) /\ ~Analyzing(<<what, v>>)
               /\ <<what, v>>[2] = v /\ (<<what, v>>[1] = "free" => tag = "free")
    <3>1. CASE tag = "free"
      BY <3>1, <1>0, FreeTasks
    <3>2. CASE tag # "free"
      <4>1. <<what, v>> = <<"free node", v>>
        BY <3>2, <1>0
      <4>2. Destroys(<<what, v>>) /\ <<what, v>>[2] = v
        BY <4>1, FreeTasks
      <4> QED
        BY <4>2, FreeTasks
    <3> QED
      BY <3>1, <3>2
  <2>3. x[1] = "free" /\ x[2] = Arg /\ ~Analyzing(x) /\ Frees(x)
    BY <1>1, FreeTasks
  <2> QED
    BY <2>1, <2>2, <2>3
<1>6. /\ Arg \in References /\ (program # NULL => Apart(Arg))
      /\ program # NULL => \A i \in DOMAIN k : Is(k[i], "string") /\ Apart(k[i])
  BY <1>1, <1>4, GoodFree DEF Arg
<1>7. /\ TypeOK /\ Records /\ Shape /\ fresh \in Nat /\ Alive \subseteq Address
      /\ k \in Seq(References) /\ IsSeq(k)
  <2>1. TypeOK /\ Records /\ Shape
    BY <1>2 DEF Memory
  <2>2. fresh \in Nat /\ Alive \subseteq Address /\ k \in Seq(References)
    BY <2>1, <1>1 DEF TypeOK
  <2> QED
    BY <2>1, <2>2 DEF IsSeq
<1>8. Shaped(Arg)
  <2> SUFFICES ASSUME Emptied(Arg)
               PROVE  Shaped(Arg)
    BY <1>1, <1>7 DEF Shape
  <2>1. PICK i \in DOMAIN todo : todo[i][1] = "free" /\ todo[i][2] = Arg
    BY DEF Emptied
  <2>2. /\ 1 \in DOMAIN todo /\ todo[1] = Head(todo) /\ DOMAIN todo = 1..Len(todo)
        /\ Len(todo) \in Nat /\ i # 1
    BY <1>1, <1>2, <1>5, <2>1, SeqFacts
  <2>3. PICK q, r, d, e : /\ d = Len(todo) - i /\ e = Len(todo) - 1
                          /\ q = <<"call", d, 0>> /\ r = <<"call", e, 0>>
    OBVIOUS
  <2>4. i \in 1..Len(todo) /\ Len(todo) - d = i /\ Len(todo) - e = 1 /\ d # e
    BY <2>1, <2>2, <2>3
  <2>5. q \in Places /\ Held(q) = Arg
    <3>1. Releasing(todo[i])
      BY <2>1, FreeTasks
    <3> QED
      BY <2>1, <2>3, <2>4, <3>1, PlaceFacts DEF PlaceLaws
  <2>6. r \in Places /\ Held(r) = Arg
    <3>1. Releasing(todo[1]) /\ todo[1][2] = Arg
      BY <2>2, <1>5 DEF Arg
    <3>2. r \in Places
      BY <2>2, <2>3, <3>1, PlaceFacts DEF PlaceLaws
    <3>3. Held(r) = todo[Len(todo) - e][2]
      BY <2>3, PlaceFacts DEF PlaceLaws
    <3> QED
      BY <2>4, <3>1, <3>2, <3>3
  <2>7. Arg > 0 /\ q # r
    BY <2>3, <2>4, <1>1, <1>7 DEF Address
  <2>8. q \in Owners /\ r \in Owners
    BY <2>5, <2>6, <2>7, PlaceFacts DEF PlaceLaws
  <2>9. IsString(Arg)
    BY <2>5, <2>6, <2>7, <2>8, <1>2 DEF Memory, Owned
  <2>10. heap[Arg].tag = "string" /\ KidsOf(Arg) = <<>>
    BY <2>9, <1>1 DEF IsString, Emptied
  <2>11. \A layout \in Layouts : layout[1] # "string"
    BY TwoFirst DEF Layouts
  <2> QED
    BY <2>10, <2>11 DEF Shaped
<1>9. PICK f, g : Permuted(p, k, f, g)
  BY <1>1, <1>7, <1>8, ReleasedKids
<1>10. PICK work, n : work = Each(what, p) \o <<x>> /\ n = Len(k)
  OBVIOUS
<1>11. /\ IsSeq(work) /\ Len(work) = n + 1 /\ work[n + 1] = x /\ n \in Nat /\ DOMAIN k = 1..n
       /\ \A j \in 1..n : work[j] = <<what, p[j]>> /\ f[j] \in 1..n /\ p[j] = k[f[j]]
  <2>1. IsSeq(p) /\ Len(p) = n /\ n \in Nat /\ DOMAIN k = 1..n
    BY <1>7, <1>9, <1>10, SeqFacts DEF Permuted
  <2>2. PICK e : e = Each(what, p)
    OBVIOUS
  <2>3. IsSeq(e) /\ Len(e) = n /\ \A j \in 1..n : e[j] = <<what, p[j]>>
    BY <2>1, <2>2, EachFacts
  <2>4. IsSeq(<<x>>) /\ Len(<<x>>) = 1 /\ <<x>>[1] = x /\ 1 \in 1..1
    BY IsSeqShort, TwoFirst
  <2>5. /\ IsSeq(work) /\ Len(work) = n + 1 /\ work[n + 1] = x
        /\ \A j \in 1..n : work[j] = e[j]
    <3>1. PICK t : t = <<x>>
      OBVIOUS
    <3>2. IsSeq(t) /\ Len(t) = 1 /\ t[1] = x /\ work = e \o t
      BY <2>2, <2>4, <3>1, <1>10
    <3>3. /\ IsSeq(e \o t) /\ Len(e \o t) = Len(e) + Len(t)
          /\ \A i \in 1..Len(e) : (e \o t)[i] = e[i]
          /\ \A i \in 1..Len(t) : (e \o t)[Len(e) + i] = t[i]
      <4>1. IsSeq(e) /\ IsSeq(t)
        BY <2>3, <3>2
      <4> QED
        BY ONLY <4>1, SeqFacts
    <3> QED
      BY ONLY <2>3, <3>2, <3>3
  <2> QED
    BY <2>1, <2>3, <2>5, <1>9, <1>10 DEF Permuted
<1>12. Memory'
  <2>1. \A j \in 1..Len(k) : Releasing(work[j]) /\ work[j][2] = p[j]
    <3> TAKE j \in 1..Len(k)
    <3>1. work[j] = <<what, p[j]>>
      BY <1>10, <1>11
    <3>2. Releasing(<<what, p[j]>>) /\ <<what, p[j]>>[2] = p[j]
      BY <1>5
    <3> QED
      BY <3>1, <3>2
  <2>2. work[Len(k) + 1][1] = "free" /\ work[Len(k) + 1][2] = Arg /\ Len(work) = Len(k) + 1
    BY <1>5, <1>10, <1>11
  <2>3. /\ todo # <<>> /\ Arg \in Alive /\ k = KidsOf(Arg) /\ Then(work) /\ IsSeq(work)
        /\ heap' = [heap EXCEPT ![Arg].kids = <<>>]
        /\ UNCHANGED <<fresh, vals, program, st, room, phase, causes>>
    BY <1>1, <1>10, <1>11
  <2> QED
    BY ONLY <1>2, <1>5, <1>7, <1>9, <2>1, <2>2, <2>3, FreeNodeMemory
<1>13. /\ Alive' = Alive /\ heap'[Arg].kids = <<>>
       /\ \A a \in Alive : heap'[a].tag = heap[a].tag /\ heap'[a].kids \in {KidsOf(a), <<>>}
       /\ References' = References
  <2>1. Alive' = Alive /\ \A a \in Alive : a # Arg => heap'[a] = heap[a]
    BY <1>1 DEF Alive
  <2>2. heap'[Arg] = [heap[Arg] EXCEPT !.kids = <<>>]
    BY <1>1 DEF Alive
  <2>3. heap[Arg] = Node(heap[Arg].tag, heap[Arg].kids)
    BY <1>1, <1>7 DEF Records
  <2>4. heap'[Arg].tag = heap[Arg].tag /\ heap'[Arg].kids = <<>>
    BY <2>2, <2>3 DEF Node
  <2>5. References' = References
    BY <1>1 DEF References, Address
  <2> QED
    BY <2>1, <2>4, <2>5 DEF KidsOf
<1>14. \A v : (Apart(v) => Apart(v)') /\ (IsString(v) => IsString(v)')
  BY <1>1, <1>13 DEF Apart, IsString
<1>15. ASSUME NEW j \in 1..n
       PROVE  Good(work[j])' /\ ~Analyzing(work[j])
  <2>1. PICK v, task : v = p[j] /\ task = <<what, v>>
    OBVIOUS
  <2>2. v \in References /\ \E i \in DOMAIN k : v = k[i]
    BY <2>1, <1>7, <1>11
  <2>3. v \in Alive /\ IsString(v) => heap'[v].kids = <<>>
    <3>1. v \in Alive /\ IsString(v) => KidsOf(v) = <<>>
      BY <1>7, StringKids DEF IsString
    <3> QED
      BY <3>1, <1>13
  <2>4. tag = "free" => IsString(v)
    <3>1. tag = "free" => Is(v, "string")
      BY <2>2, <1>1, <1>8 DEF Shaped
    <3> QED
      BY <3>1 DEF Is
  <2>5. program # NULL => IsString(v) /\ Apart(v)
    BY <2>2, <1>6 DEF Is
  <2>6. Frees(task) /\ task[2] = v /\ (task[1] = "free" => tag = "free") /\ ~Analyzing(task)
    BY <2>1, <1>5
  <2>7. Good(task)'
    <3>1. v \in References' /\ (v \in Alive' => v \in Alive)
      BY <2>2, <1>13
    <3>2. task[1] = "free" /\ v \in Alive' => heap'[v].kids = <<>>
      BY <2>3, <2>4, <2>6, <3>1
    <3>3. program' # NULL => Apart(v)'
      BY <2>5, <1>1, <1>14
    <3>4. program' # NULL /\ v \in Alive' => heap'[v].kids = <<>>
      BY <2>3, <2>5, <3>1, <1>1
    <3>5. DOMAIN <<>> = {}
      OBVIOUS
    <3>6. program' # NULL /\ v \in Alive' => DOMAIN KidsOf(v)' = {}
      BY <3>4, <3>5 DEF KidsOf
    <3>7. FreeGoodLaw'
      BY FreeGood, PTL
    <3>8. task[1] = "free" /\ task[2] \in Alive' => KidsOf(task[2])' = <<>>
      BY <3>2, <2>6 DEF KidsOf
    <3> QED
      BY <2>6, <3>1, <3>3, <3>6, <3>7, <3>8 DEF FreeGoodLaw, Frees
  <2> QED
    BY <2>1, <2>6, <2>7, <1>11
<1>16. Good(x)' /\ ~Analyzing(x)
  <2>1. PICK b : b = Arg
    OBVIOUS
  <2>2. b \in References' /\ (program' # NULL => Apart(b)') /\ x[2] = b
    BY <2>1, <1>1, <1>5, <1>6, <1>13, <1>14
  <2>3. KidsOf(b)' = <<>> /\ DOMAIN <<>> = {}
    BY <2>1, <1>13 DEF KidsOf
  <2>4. FreeGoodLaw'
    BY FreeGood, PTL
  <2> QED
    BY <2>2, <2>3, <2>4, <1>5 DEF FreeGoodLaw, Frees
<1>17. \A i \in 1..Len(work) : Good(work[i])' /\ ~Analyzing(work[i])
  <2> TAKE i \in 1..Len(work)
  <2>1. i \in 1..n \/ i = n + 1
    BY <1>11
  <2> QED
    BY <2>1, <1>11, <1>15, <1>16
<1>18. ASSUME NEW i \in 2..Len(w), Good(w[i])
       PROVE  Good(w[i])'
  <2>1. PICK task : task = w[i]
    OBVIOUS
  <2>2. TypeOK' /\ Good(task)
    BY <1>12, <1>18, <2>1 DEF Memory
  <2>3. Alive' \in {Alive, Alive \ {Arg}}
    BY <1>13
  <2>4. UNCHANGED <<program, causes, fresh>> /\ Arg \in Alive
    BY <1>1
  <2>5. Good(task)'
    BY ONLY <2>2, <2>3, <2>4, <1>6, <1>7, <1>13, GoodStays
  <2> QED
    BY <2>1, <2>5
<1>19. Later'
  <2>1. Then(work) /\ UNCHANGED <<vals, program, st>>
    BY <1>1, <1>10
  <2>2. \A i \in 2..Len(w) : Good(w[i]) => Good(w[i])'
    BY <1>18
  <2> QED
    BY ONLY <1>3, <1>11, <1>17, <2>1, <2>2, StepLater
<1> QED
  BY <1>1, <1>12, <1>19 DEF Sound, Memory, NoMisuse

-----------------------------------------------------------------------------
(* The ways a compilation ends early *)

LEMMA SemanticErrorSound ==
  ASSUME Sound, SemanticError
  PROVE  Sound'
<1>1. /\ phase' = "error" /\ heap' = <<>> /\ vals' = <<>> /\ program' = NULL /\ st' = NULL
      /\ fresh' = 0 /\ room' = 0
  BY DEF SemanticError
<1>2. Alive' = {}
  BY <1>1 DEF Alive
<1>3. TypeOK'
  BY <1>1, <1>2, OwnershipAssumption DEF TypeOK, References, Address
<1> QED
  BY <1>1, <1>3 DEF Sound, NoMisuse

(* The memory stays as it is. *)
LEMMA TypeKept ==
  ASSUME TypeOK, UNCHANGED <<heap, fresh, program, st, room>>,
         vals' \in {vals, <<>>}, phase' \in {"run", "done", "abort", "undefined"}
  PROVE  TypeOK'
<1>1. Alive' = Alive /\ Address' = Address /\ References' = References
  BY DEF Alive, Address, References
<1>2. vals \in Seq(References \cup {OPERATOR})
  BY DEF TypeOK
<1>3. \A S : <<>> \in Seq(S)
  OBVIOUS
<1>4. vals' \in Seq(References \cup {OPERATOR})
  BY <1>2, <1>3
<1> QED
  BY <1>1, <1>4 DEF TypeOK, KidsOf

LEMMA AnalyzeAddrofSound ==
  ASSUME Sound, AnalyzeAddrof
  PROVE  Sound'
<1>1. phase' = "abort" /\ UNCHANGED <<heap, fresh, vals, program, st, room>>
  BY DEF AnalyzeAddrof
<1>2. TypeOK'
  BY <1>1, TypeKept DEF Sound
<1> QED
  BY <1>1, <1>2 DEF Sound, NoMisuse

LEMMA ReadUnknownTypeSound ==
  ASSUME Sound, ReadUnknownType
  PROVE  Sound'
<1>1. /\ phase' = "undefined" /\ UNCHANGED <<heap, fresh, vals, program, st, room>>
      /\ causes' = causes \cup {"unknown type"}
  BY DEF ReadUnknownType
<1>2. TypeOK'
  BY <1>1, TypeKept DEF Sound
<1>3. NoMisuse'
  BY <1>1 DEF NoMisuse
<1> QED
  BY <1>1, <1>2, <1>3 DEF Sound

LEMMA CompareVoidSound ==
  ASSUME Sound, CompareVoid
  PROVE  Sound'
<1>1. /\ phase' = "undefined" /\ UNCHANGED <<heap, fresh, vals, program, st, room>>
      /\ causes' = causes \cup {"void compared"}
  BY DEF CompareVoid
<1>2. TypeOK'
  BY <1>1, TypeKept DEF Sound
<1>3. NoMisuse'
  BY <1>1 DEF NoMisuse
<1> QED
  BY <1>1, <1>2, <1>3 DEF Sound

LEMMA MisuseSound ==
  ASSUME Sound, Misuse
  PROVE  Sound'
<1>1. /\ phase = "run" /\ todo # <<>> /\ (Frees(Head(todo)) \/ Borrowing(Head(todo)))
      /\ Arg \notin Alive /\ Arg # NULL
      /\ phase' = "undefined" /\ UNCHANGED <<heap, fresh, vals, program, st, room, causes>>
  BY DEF Misuse, At, Frees, Borrowing, Borrows
<1>a. phase = "run" /\ phase' = "undefined" /\ UNCHANGED <<heap, fresh, vals, program, st, room, causes>>
  BY DEF Misuse, At
<1>2. Memory /\ IsSeq(todo) /\ todo # <<>> /\ (Dumping \/ Parsing \/ Later)
  BY <1>a, Walking DEF Sound
<1>3. causes # {}
  <2>1. CASE Dumping
    <3>1. PICK rest : DumpingIs(rest)
      BY <2>1, DumpingTasks
    <3>2. CASE Head(todo) = <<"lex">>
      <4>1. Head(todo)[1] = "lex"
        BY <3>2
      <4> QED
        BY <4>1, <1>1 DEF Frees, Borrowing, Borrows
    <3>3. CASE Head(todo) # <<"lex">>
      <4>1. PICK a \in Alive : Head(todo) = <<"use", a>> \/ Head(todo) = <<"free", a>>
        BY <3>1, <3>3 DEF DumpingIs
      <4>2. Arg = a
        BY <4>1, TwoFirst DEF Arg
      <4> QED
        BY <4>2, <1>1
    <3> QED
      BY <3>2, <3>3
  <2>2. CASE Parsing
    BY <2>2, <1>1, ParsingHead DEF ParseTasks, Frees, Borrowing, Borrows
  <2>3. CASE Later
    <3>1. PICK w, tail : LaterIs(w, tail)
      BY <2>3 DEF Later, LaterIs
    <3>2. Head(todo)[1] \notin {"free_program", "stab_free", "return"}
      BY <1>1 DEF Frees, Borrowing, Borrows
    <3>3. Good(Head(todo))
      BY <3>1, <3>2, LaterWork, LaterHead
    <3>4. CASE Borrowing(Head(todo))
      <4>1. causes = {} /\ Arg # NULL => Arg \in Alive
        BY <3>3, <3>4 DEF Good, Borrowing, Borrows, Arg
      <4> QED
        BY <4>1, <1>1
    <3>5. CASE Frees(Head(todo))
      <4>1. Arg \in References /\ Releasing(Head(todo))
        BY <3>3, <3>5 DEF Good, Borrowing, Borrows, Arg, Frees, Releasing
      <4>2. PICK p, d : p = <<"call", d, 0>> /\ d = Len(todo) - 1
        OBVIOUS
      <4>3. /\ 1 \in DOMAIN todo /\ todo[1] = Head(todo) /\ Len(todo) \in Nat
        BY <1>2, SeqFacts
      <4>4. Len(todo) - d = 1 /\ Releasing(todo[1]) /\ todo[1][2] = Arg
        BY <4>1, <4>2, <4>3 DEF Arg
      <4>5. p \in Places
        BY <4>2, <4>3, <4>4, PlaceFacts DEF PlaceLaws
      <4>6. Held(p) = Arg
        <5>1. Held(p) = todo[Len(todo) - d][2]
          BY <4>2, PlaceFacts DEF PlaceLaws
        <5> QED
          BY <5>1, <4>4
      <4>7. Arg > 0
        <5>1. fresh \in Nat
          BY <1>2 DEF Memory, TypeOK
        <5>2. Arg \in 1..fresh
          BY <4>1, <1>1 DEF References, Address
        <5> QED
          BY <5>1, <5>2
      <4>8. p \in Owners
        BY <4>5, <4>6, <4>7, PlaceFacts DEF PlaceLaws
      <4> QED
        BY <4>6, <4>8, <1>1, <1>2 DEF Memory, Owned
    <3> QED
      BY <3>4, <3>5, <1>1
  <2> QED
    BY <2>1, <2>2, <2>3, <1>2
<1>4. TypeOK'
  BY <1>a, TypeKept DEF Sound
<1>5. NoMisuse'
  <2>1. causes' # {} /\ causes' \subseteq Shares
    BY <1>a, <1>2, <1>3 DEF Memory
  <2> QED
    BY <2>1 DEF NoMisuse, Shares
<1> QED
  BY <1>a, <1>4, <1>5 DEF Sound

-----------------------------------------------------------------------------
(* Analysis: entries are made and enrolled in the symbol table. *)

LEMMA EnrolGrows ==
  ASSUME TypeOK, Records, st \in Alive, NEW nodes, IsSeq(nodes), NEW entries, IsSeq(entries),
         Enrol(nodes, entries),
         \A i \in 1..Len(nodes) : IsSeq(nodes[i].kids) /\ nodes[i] = Node(nodes[i].tag, nodes[i].kids)
  PROVE  Grows(nodes, entries)
<1> DEFINE n == Len(nodes)
           b == With(nodes)
<1>1. /\ fresh \in Nat /\ n \in Nat /\ Alive \subseteq 1..fresh
      /\ \A a \in Alive : IsSeq(KidsOf(a))
  BY SeqFacts DEF TypeOK, Address, IsSeq
<1>2. /\ b = [a \in Alive \cup (fresh + 1)..(fresh + n) |->
                IF a \in Alive THEN heap[a] ELSE nodes[a - fresh]]
      /\ heap' = [b EXCEPT ![st].kids = @ \o entries]
      /\ fresh' = fresh + n
  BY DEF Enrol, With
<1> HIDE DEF b
<1>3. DOMAIN b = Alive \cup (fresh + 1)..(fresh + n) /\ \A a \in Alive : b[a] = heap[a]
  BY <1>2
<1>4. Alive' = Alive \cup (fresh + 1)..(fresh + n) /\ \A a \in DOMAIN b : a # st => heap'[a] = b[a]
  BY <1>2, <1>3 DEF Alive
<1>5. heap'[st] = Node(heap[st].tag, KidsOf(st) \o entries)
  <2>1. b[st] = [tag |-> heap[st].tag, kids |-> KidsOf(st)] /\ st \in DOMAIN b
    BY <1>3 DEF Records, Node, KidsOf
  <2>2. heap'[st] = [b[st] EXCEPT !.kids = @ \o entries]
    BY <1>2, <2>1
  <2>3. b[st].kids = KidsOf(st) /\ b[st].tag = heap[st].tag
    BY <2>1
  <2> QED
    BY <2>1, <2>2, <2>3 DEF Node
<1>6. ASSUME NEW i \in 1..n
      PROVE  heap'[fresh + i] = nodes[i]
  <2>1. fresh + i \in (fresh + 1)..(fresh + n) /\ fresh + i \notin Alive /\ (fresh + i) - fresh = i
    BY <1>1
  <2>2. b[fresh + i] = nodes[i] /\ fresh + i # st /\ fresh + i \in DOMAIN b
    BY <2>1, <1>2, <1>3
  <2> QED
    BY <2>2, <1>4
<1>7. \A a \in Alive : heap'[a] = IF a = st THEN Node(heap[a].tag, KidsOf(a) \o entries) ELSE heap[a]
  BY <1>3, <1>4, <1>5
<1>8. Records'
  <2>1. \A a \in Alive' : heap'[a] = Node(heap'[a].tag, heap'[a].kids)
    <3> TAKE a \in Alive'
    <3>1. CASE a \in Alive
      <4>1. CASE a = st
        BY <4>1, <1>5 DEF Node
      <4>2. CASE a # st
        BY <4>2, <3>1, <1>7 DEF Records
      <4> QED
        BY <4>1, <4>2
    <3>2. CASE a \notin Alive
      <4>1. PICK i \in 1..n : a = fresh + i
        <5>1. a - fresh \in 1..n /\ a = fresh + (a - fresh)
          BY <3>2, <1>1, <1>4
        <5> QED
          BY <5>1
      <4> QED
        BY <4>1, <1>6
    <3> QED
      BY <3>1, <3>2
  <2>2. heap' = [a \in Alive' |-> heap'[a]]
    BY <1>2, <1>3, <1>4
  <2> QED
    BY <2>1, <2>2 DEF Records
<1> QED
  BY <1>1, <1>2, <1>4, <1>6, <1>7, <1>8, SeqFacts DEF Grows

(* A type is resolved under a new name. *)
LEMMA ResolveFresh ==
  ASSUME Memory, NEW nodes, NEW entries, Grows(nodes, entries), program' = program, program # NULL,
         NEW k \in 1..Len(nodes), nodes[k].tag = "string", NEW v, v = fresh + k,
         NEW t, Is(t, "result"), t <= program
  PROVE  Good(<<"resolve", v, t>>)'
<1>1. /\ fresh' = fresh + Len(nodes) /\ fresh \in Nat /\ Len(nodes) \in Nat
      /\ Is(t, "result")'
  BY GrowKeeps DEF Memory, TypeOK
<1>2. program \in 1..fresh
  BY DEF Memory, TypeOK, References, Address
<1>4. v \in 1..fresh' /\ v > program /\ heap'[v].tag = "string"
  BY <1>1, <1>2 DEF Grows
<1>5. Is(v, "string")' /\ Apart(v)'
  BY <1>4 DEF Is, Apart, IsString, Address
<1>6. PICK task : task = <<"resolve", v, t>>
  OBVIOUS
<1>7. task[1] = "resolve" /\ task[2] = v /\ task[3] = t
  BY <1>6, TwoFirst
<1>8. Good(task)'
  BY <1>1, <1>5, <1>7 DEF Good
<1> QED
  BY <1>6, <1>8

(* Where analysis stands before a step. *)
Analysis ==
  /\ Memory /\ IsSeq(todo) /\ todo # <<>> /\ OnWalk /\ Analyzing(Head(todo))
  /\ Head(todo)[1] # "free"
  /\ program # NULL /\ program \in 1..fresh /\ fresh \in Nat
  /\ \A a \in Alive : a <= program => NodeOf(a)
  /\ IF st = NULL THEN Head(todo) = <<"analyze", program>>
                  ELSE st \in Alive /\ st > program /\ (Head(todo)[1] = "analyze" => Arg # program)
LEMMA AnalysisHead ==
  ASSUME Sound, phase = "run", Head(todo)[1] \in WalkTasks, Analyzing(Head(todo))
  PROVE  /\ Analysis
         /\ Borrowing(Head(todo)) => InTree(Arg) \/ Arg = program
         /\ Borrowing(Head(todo)) => Arg <= program
         /\ Head(todo)[1] = "formals" /\ Arg \in Alive => heap[Arg].tag = "decls"
         /\ Head(todo)[1] = "resolve" =>
              /\ Is(Arg, "string") /\ Apart(Arg)
              /\ Is(Head(todo)[3], "result") /\ Head(todo)[3] <= program
<1>1. Memory /\ IsSeq(todo) /\ todo # <<>> /\ OnWalk
  BY Walking
<1>2. PICK w, tail : LaterIs(w, tail) /\ w # <<>>
  BY <1>1 DEF OnWalk
<1>3. Head(todo) = w[1] /\ Good(Head(todo)) /\ 1 \in 1..Len(w) /\ Ordered(w, tail)
  BY <1>2, LaterHead DEF LaterIs
<1>4. program # NULL
  <2>1. ~Frees(Head(todo))
    BY FreeTasks
  <2> QED
    BY <2>1, <1>3 DEF Good, Frees
<1>5. fresh \in Nat /\ program \in 1..fresh
  BY <1>1, <1>4 DEF Memory, TypeOK, References, Address
<1>6. \A a \in Alive : a <= program => NodeOf(a)
  BY <1>1, <1>2, <1>4, TreeNode DEF NodeOf
<1>7. IF st = NULL THEN Head(todo) = <<"analyze", program>>
                   ELSE Head(todo)[1] = "analyze" => Arg # program
  BY <1>3 DEF Ordered, Arg
<1>8. st # NULL => st \in Alive /\ st > program
  BY <1>1, <1>4 DEF Memory, Stabbed, Rooted, Tagged
<1>9. Head(todo)[1] # "free"
  BY FreeTasks
<1>10. Analysis
  BY <1>1, <1>4, <1>5, <1>6, <1>7, <1>8, <1>9 DEF Analysis
<1>11. Borrowing(Head(todo)) => InTree(Arg) \/ Arg = program
  BY <1>1, Visit
<1>12. /\ Borrowing(Head(todo)) => Arg <= program
       /\ Borrowing(Head(todo)) /\ Head(todo)[1] = "formals" /\ Arg \in Alive => heap[Arg].tag = "decls"
  BY <1>1, Visit
<1>13. Head(todo)[1] = "formals" => Borrowing(Head(todo))
  BY TaskNames DEF Borrowing
<1>14. Head(todo)[1] = "resolve" =>
              /\ Is(Arg, "string") /\ Apart(Arg)
              /\ Is(Head(todo)[3], "result") /\ Head(todo)[3] <= program
  BY <1>3 DEF Good, Borrowing, Borrows, Arg
<1> QED
  BY <1>10, <1>11, <1>12, <1>13, <1>14

(* One step of analysis. *)
LEMMA AnalysisSound ==
  ASSUME Sound, phase = "run", Analysis,
         NEW work, NEW nodes, NEW entries, NEW o,
         IsSeq(work), Then(work), Grows(nodes, entries), Enters(nodes, entries),
         UNCHANGED <<vals, program, room, phase>>,
         causes \subseteq causes', causes' \subseteq Shares,
         st' = st \/ (st = NULL /\ st' > fresh /\ Stabbed'), st' # NULL,
         Accounts(work, nodes, entries, o),
         \A i \in 1..Len(work) : Good(work[i])' /\ (work[i][1] = "analyze" => work[i][2] # program)
  PROVE  Sound'
<1>1. Does(work, nodes, entries)
  BY DEF Does, Analysis
<1> QED
  BY <1>1, GrowSound DEF Analysis

LEMMA Nodes ==
  /\ String.tag = "string" /\ String.kids = <<>> /\ String = Node("string", <<>>)
  /\ \A tag, kids : /\ Node(tag, kids).tag = tag /\ Node(tag, kids).kids = kids
  /\ "string" # "type" /\ "string" # "var" /\ "string" # "scope" /\ "string" # "stab" /\ "string" # "path"
BY DEF String, Node

LEMMA AnalysisTasks ==
  \A task :
    /\ task[1] \in {"import", "analyze", "formals"} =>
         task[1] \in WalkTasks /\ Analyzing(task) /\ Borrowing(task) /\ ~Releasing(task)
    /\ task[1] = "resolve" => task[1] \in WalkTasks /\ Analyzing(task) /\ Releasing(task)
BY DEF WalkTasks, Analyzing, Borrowing, Borrows, Releasing

(* The task of adding a variable *)
Adding(task) == task[1] = "add var"
LEMMA AddingTask ==
  \A task : Adding(task) =>
    /\ task[1] \in WalkTasks /\ Analyzing(task) /\ Borrowing(task) /\ ~Releasing(task)
    /\ task[1] # "analyze" /\ task[1] # "resolve" /\ task[1] # "formals"
BY DEF Adding, WalkTasks, Analyzing, Borrowing, Borrows, Releasing

LEMMA ImportSound ==
  ASSUME Sound, Import
  PROVE  Sound'
<1>1. /\ phase = "run" /\ todo # <<>> /\ Head(todo)[1] = "import" /\ Then(<<>>)
      /\ UNCHANGED <<vals, program, st, room, phase, causes>>
  BY DEF Import, At
<1>2. /\ Analysis /\ st # NULL /\ st \in Alive /\ ~Releasing(Head(todo))
  BY <1>1, AnalysisHead, AnalysisTasks, TwoFirst DEF Analysis
<1>3. TypeOK /\ Records /\ Memory /\ causes \subseteq Shares /\ fresh \in Nat
  BY <1>2 DEF Analysis, Memory, TypeOK
<1>4. PICK f : f = fresh
  OBVIOUS
<1>5. PICK K : K = Len(KidsOf(st))
  OBVIOUS
<1>6. PICK nodes, entries :
        /\ nodes = <<String, Node("type", <<f + 1>>), String, Node("type", <<f + 3>>)>>
        /\ entries = <<f + 2, f + 4>>
  OBVIOUS
<1>7. Enrol(nodes, entries)
  BY <1>4, <1>6 DEF Import
<1>8. /\ IsSeq(nodes) /\ IsSeq(entries) /\ Len(nodes) = 4 /\ Len(entries) = 2
      /\ nodes[1] = String /\ nodes[2] = Node("type", <<f + 1>>)
      /\ nodes[3] = String /\ nodes[4] = Node("type", <<f + 3>>)
      /\ entries[1] = f + 2 /\ entries[2] = f + 4
  BY ONLY <1>6, Tuples, IsSeqShort, TwoFirst
<1>9. \A i \in 1..4 : i = 1 \/ i = 2 \/ i = 3 \/ i = 4
  OBVIOUS
<1>10. \A i \in 1..2 : i = 1 \/ i = 2
  OBVIOUS
<1>11. \A i \in 1..Len(nodes) :
         /\ IsSeq(nodes[i].kids) /\ nodes[i] = Node(nodes[i].tag, nodes[i].kids)
         /\ nodes[i].tag \in {"string", "type"} /\ (nodes[i].tag = "string" => nodes[i].kids = <<>>)
  BY ONLY <1>8, <1>9, Nodes, IsSeqShort, SeqFacts
<1>12. Grows(nodes, entries)
  BY <1>2, <1>3, <1>7, <1>8, <1>11, EnrolGrows
<1>13. \A i \in 1..4 : \A j \in 1..Len(nodes[i].kids) :
         j = 1 /\ ((i = 2 /\ nodes[i].kids[j] = f + 1) \/ (i = 4 /\ nodes[i].kids[j] = f + 3))
  <2>1. Len(<<>>) = 0 /\ Len(<<f + 1>>) = 1 /\ Len(<<f + 3>>) = 1
    OBVIOUS
  <2> QED
    <3> SUFFICES ASSUME NEW i \in 1..4, NEW j \in 1..Len(nodes[i].kids)
                 PROVE  j = 1 /\ ((i = 2 /\ nodes[i].kids[j] = f + 1) \/ (i = 4 /\ nodes[i].kids[j] = f + 3))
      OBVIOUS
    <3>1. CASE i \in {1, 3}
      <4>1. Len(nodes[i].kids) = 0
        BY ONLY <3>1, <2>1, <1>8, Nodes
      <4> QED
        BY <4>1
    <3>2. CASE i = 2
      <4>1. nodes[i].kids = <<f + 1>>
        BY <3>2, <1>8, Nodes
      <4>2. Len(nodes[i].kids) = 1 /\ nodes[i].kids[1] = f + 1
        BY ONLY <4>1
      <4>3. j = 1
        BY <4>2
      <4> QED
        BY <3>2, <4>2, <4>3
    <3>3. CASE i = 4
      <4>1. nodes[i].kids = <<f + 3>>
        BY <3>3, <1>8, Nodes
      <4>2. Len(nodes[i].kids) = 1 /\ nodes[i].kids[1] = f + 3
        BY ONLY <4>1
      <4>3. j = 1
        BY <4>2
      <4> QED
        BY <3>3, <4>2, <4>3
    <3> QED
      BY <3>1, <3>2, <3>3, <1>9
<1>14. Enters(nodes, entries)
  <2>1. f + 2 \in (f + 1)..(f + 4) /\ f + 4 \in (f + 1)..(f + 4)
    BY <1>3, <1>4
  <2>2. \A j \in 1..Len(entries) : entries[j] \in (f + 1)..(f + 4)
    BY ONLY <2>1, <1>8, <1>10
  <2> QED
    BY <2>2, <1>4, <1>8, <1>11, <1>13, Nodes DEF Enters
<1>15. PICK o : o = [v \in Nat |-> IF v = f + 1 THEN <<"field", f + 2, 1>>
                              ELSE IF v = f + 2 THEN <<"field", st, K + 1>>
                              ELSE IF v = f + 3 THEN <<"field", f + 4, 1>>
                              ELSE <<"field", st, K + 2>>]
  OBVIOUS
<1>16. /\ o[f + 1] = <<"field", f + 2, 1>> /\ o[f + 2] = <<"field", st, K + 1>>
       /\ o[f + 3] = <<"field", f + 4, 1>> /\ o[f + 4] = <<"field", st, K + 2>>
  BY <1>3, <1>4, <1>15
<1>17. Moved(4) = {f + 1, f + 2, f + 3, f + 4}
  <2>1. (f + 1)..(f + 4) = {f + 1, f + 2, f + 3, f + 4}
    BY <1>3, <1>4
  <2> QED
    BY <2>1, <1>2, <1>4 DEF Moved
<1>18. Accounts(<<>>, nodes, entries, o)
  <2>1. \A i \in 1..Len(nodes) : \A j \in 1..Len(nodes[i].kids) :
          Accounted(nodes[i].kids[j], <<"field", f + i, j>>, o, 4)
    BY ONLY <1>8, <1>13, <1>16, <1>17 DEF Accounted
  <2>2. \A j \in 1..Len(entries) : Accounted(entries[j], <<"field", st, K + j>>, o, 4)
    BY ONLY <1>8, <1>10, <1>16, <1>17 DEF Accounted
  <2>3. Len(<<>>) = 0 /\ \A i : i \notin 1..0
    OBVIOUS
  <2>4. \A v \in Moved(4) : \/ \E i \in 1..4 : \E j \in 1..Len(nodes[i].kids) : nodes[i].kids[j] = v
                            \/ \E j \in 1..2 : entries[j] = v
    <3>1. nodes[2].kids[1] = f + 1 /\ nodes[4].kids[1] = f + 3
      BY <1>8, Nodes, TwoFirst
    <3>2. Len(nodes[2].kids) = 1 /\ Len(nodes[4].kids) = 1
      BY <1>8, Nodes, TwoFirst
    <3> QED
      BY <3>1, <3>2, <1>8, <1>17
  <2> QED
    BY ONLY <2>1, <2>2, <2>3, <2>4, <1>2, <1>4, <1>5, <1>8 DEF Accounts
<1>19. IsSeq(<<>>) /\ \A i : i \notin 1..Len(<<>>)
  BY SeqFacts
<1> QED
  BY <1>1, <1>2, <1>3, <1>12, <1>14, <1>18, <1>19, AnalysisSound

LEMMA AddVarSound ==
  ASSUME Sound, AddVar
  PROVE  Sound'
<1>1. /\ phase = "run" /\ todo # <<>> /\ Then(<<>>) /\ Adding(Head(todo))
      /\ UNCHANGED <<vals, program, st, room, phase, causes>>
  BY DEF AddVar, At, Adding
<1>2. /\ Analysis /\ st # NULL /\ st \in Alive /\ ~Releasing(Head(todo))
  BY <1>1, AnalysisHead, AddingTask, TwoFirst DEF Analysis
<1>3. TypeOK /\ Records /\ Memory /\ causes \subseteq Shares /\ fresh \in Nat
  BY <1>2 DEF Analysis, Memory, TypeOK
<1>4. PICK f : f = fresh
  OBVIOUS
<1>5. PICK K : K = Len(KidsOf(st))
  OBVIOUS
<1>6. PICK nodes, entries :
        nodes = <<String, Node("var", <<f + 1>>)>> /\ entries = <<f + 2>>
  OBVIOUS
<1>7. Enrol(nodes, entries)
  BY <1>4, <1>6 DEF AddVar
<1>8. /\ IsSeq(nodes) /\ IsSeq(entries) /\ Len(nodes) = 2 /\ Len(entries) = 1
      /\ nodes[1] = String /\ nodes[2] = Node("var", <<f + 1>>) /\ entries[1] = f + 2
  BY ONLY <1>6, IsSeqShort, TwoFirst
<1>9. \A i \in 1..2 : i = 1 \/ i = 2
  OBVIOUS
<1>10. \A i \in 1..1 : i = 1
  OBVIOUS
<1>11. \A i \in 1..Len(nodes) :
         /\ IsSeq(nodes[i].kids) /\ nodes[i] = Node(nodes[i].tag, nodes[i].kids)
         /\ nodes[i].tag \in {"string", "var"} /\ (nodes[i].tag = "string" => nodes[i].kids = <<>>)
  BY ONLY <1>8, <1>9, Nodes, IsSeqShort, SeqFacts
<1>12. Grows(nodes, entries)
  BY <1>2, <1>3, <1>7, <1>8, <1>11, EnrolGrows
<1>13. nodes[2].kids = <<f + 1>> /\ Len(nodes[1].kids) = 0 /\ nodes[1].kids = <<>>
  <2>1. nodes[2].kids = <<f + 1>> /\ nodes[1].kids = <<>>
    BY <1>8, Nodes
  <2> QED
    BY <2>1
<1>14. Len(nodes[2].kids) = 1 /\ nodes[2].kids[1] = f + 1
  BY ONLY <1>13
<1>15. Enters(nodes, entries)
  <2>1. \A j \in 1..Len(entries) : entries[j] \in (f + 1)..(f + 2)
    BY <1>3, <1>4, <1>8, <1>10
  <2> QED
    BY <2>1, <1>4, <1>8, <1>9, <1>10, <1>11, <1>13, <1>14 DEF Enters
<1>16. PICK o : o = [v \in Nat |-> IF v = f + 1 THEN <<"field", f + 2, 1>>
                                                ELSE <<"field", st, K + 1>>]
  OBVIOUS
<1>17. o[f + 1] = <<"field", f + 2, 1>> /\ o[f + 2] = <<"field", st, K + 1>>
  BY <1>3, <1>4, <1>16
<1>18. Moved(2) = {f + 1, f + 2}
  <2>1. (f + 1)..(f + 2) = {f + 1, f + 2}
    BY <1>3, <1>4
  <2> QED
    BY <2>1, <1>2, <1>4 DEF Moved
<1>19. Accounts(<<>>, nodes, entries, o)
  <2>1. \A i \in 1..Len(nodes) : \A j \in 1..Len(nodes[i].kids) :
          Accounted(nodes[i].kids[j], <<"field", f + i, j>>, o, 2)
    BY ONLY <1>8, <1>9, <1>10, <1>13, <1>14, <1>17, <1>18 DEF Accounted
  <2>2. \A j \in 1..Len(entries) : Accounted(entries[j], <<"field", st, K + j>>, o, 2)
    BY ONLY <1>8, <1>10, <1>17, <1>18 DEF Accounted
  <2>3. Len(<<>>) = 0 /\ \A i : i \notin 1..0
    OBVIOUS
  <2>4. \A v \in Moved(2) : \/ \E i \in 1..2 : \E j \in 1..Len(nodes[i].kids) : nodes[i].kids[j] = v
                            \/ \E j \in 1..1 : entries[j] = v
    BY <1>8, <1>14, <1>18
  <2> QED
    BY ONLY <2>1, <2>2, <2>3, <2>4, <1>2, <1>4, <1>5, <1>8 DEF Accounts
<1>20. IsSeq(<<>>) /\ \A i : i \notin 1..Len(<<>>)
  BY SeqFacts
<1> QED
  BY <1>1, <1>2, <1>3, <1>12, <1>15, <1>19, <1>20, AnalysisSound

(* A node of the tree that analysis visits. *)
LEMMA VisitsTree ==
  ASSUME Sound, NEW tag, tag # "program", Visits(tag)
  PROVE  /\ phase = "run" /\ todo # <<>> /\ Analysis /\ st # NULL /\ st \in Alive
         /\ ~Releasing(Head(todo)) /\ Arg \in Alive /\ Arg <= program /\ heap[Arg].tag = tag
         /\ NodeOf(Arg) /\ causes \subseteq Shares
<1>1. phase = "run" /\ todo # <<>> /\ Head(todo)[1] = "analyze" /\ Arg \in Alive /\ heap[Arg].tag = tag
  BY DEF Visits, At
<1>2. /\ Head(todo)[1] \in WalkTasks /\ Analyzing(Head(todo)) /\ Borrowing(Head(todo))
      /\ ~Releasing(Head(todo))
  BY <1>1, AnalysisTasks
<1>3. Analysis /\ Arg <= program
  BY <1>1, <1>2, AnalysisHead
<1>4. st # NULL
  <2>1. Tagged(program, "program")
    BY <1>3 DEF Analysis, Memory, Rooted
  <2>2. Arg # program
    BY <2>1, <1>1 DEF Tagged
  <2>3. Head(todo) = <<"analyze", program>> => Arg = program
    BY TwoFirst DEF Arg
  <2> QED
    BY <2>2, <2>3, <1>3 DEF Analysis
<1>5. NodeOf(Arg) /\ st \in Alive /\ causes \subseteq Shares
  BY <1>1, <1>3, <1>4 DEF Analysis, Memory
<1> QED
  BY <1>1, <1>2, <1>3, <1>4, <1>5

(* A part of the tree is visited, or its name used, next. *)
LEMMA BorrowNext ==
  ASSUME Analysis, NEW nodes, NEW entries, Grows(nodes, entries),
         program' = program, causes \subseteq causes', NEW v, InTree(v), NEW what \in Borrows,
         what # "formals"
  PROVE  LET task == <<what, v>> IN
         Good(task)' /\ ~Releasing(task) /\ (task[1] = "analyze" => task[2] # program)
<1>1. Good(<<what, v>>)'
  BY BorrowKept DEF Analysis
<1>2. <<what, v>>[1] = what /\ <<what, v>>[2] = v
  OBVIOUS
<1> QED
  BY <1>1, <1>2, Borrowed DEF InTree

LEMMA AnalyzeTypeDeclSound ==
  ASSUME Sound, AnalyzeTypeDecl
  PROVE  Sound'
<1>1. /\ Visits("type_decl") /\ Then(<<<<"resolve", Kid(1), Kid(2)>>, <<"use", Kid(1)>>>>)
      /\ UNCHANGED <<heap, fresh, vals, program, st, room, phase>>
      /\ causes \subseteq causes' /\ causes' # {} /\ (causes \subseteq Shares => causes' \subseteq Shares)
  BY Zenon DEF AnalyzeTypeDecl, Shares
<1>2. /\ phase = "run" /\ todo # <<>> /\ Analysis /\ st # NULL /\ st \in Alive
      /\ ~Releasing(Head(todo)) /\ heap[Arg].tag = "type_decl" /\ NodeOf(Arg) /\ causes \subseteq Shares
  BY <1>1, VisitsTree
<1>3. /\ Memory /\ OnWalk /\ Head(todo)[1] # "free" /\ program # NULL /\ Analyzing(Head(todo))
      /\ fresh \in Nat /\ program \in 1..fresh /\ TypeOK /\ Records
  BY <1>2 DEF Analysis, Memory
<1>4. PICK a, b : a = Kid(1) /\ b = Kid(2)
  OBVIOUS
<1>5. Is(a, "string") /\ Is(b, "result") /\ InTree(a) /\ InTree(b)
  <2>1. Fields(KidsOf(Arg), <<"string", "type">>) /\ IsSeq(KidsOf(Arg))
    BY <1>2, LayoutOf DEF NodeOf
  <2>2. /\ Len(KidsOf(Arg)) = 2 /\ Is(KidsOf(Arg)[1], "string") /\ Is(KidsOf(Arg)[2], "type")
        /\ 1 \in DOMAIN KidsOf(Arg) /\ 2 \in DOMAIN KidsOf(Arg)
    BY <2>1, SeqFacts DEF Fields
  <2>3. KidsOf(Arg)[1] = a /\ KidsOf(Arg)[2] = b
    BY <1>4 DEF Kid, KidsOf
  <2> QED
    BY <2>2, <2>3, <1>2 DEF NodeOf, Is
<1>6. PICK work : work = <<<<"resolve", a, b>>, <<"use", a>>>>
  OBVIOUS
<1>7. /\ IsSeq(work) /\ Len(work) = 2 /\ work[1] = <<"resolve", a, b>> /\ work[2] = <<"use", a>>
  BY ONLY <1>6, IsSeqShort, TwoFirst
<1>8. /\ work[1][1] = "resolve" /\ work[1][2] = a /\ work[1][3] = b
  BY <1>7, TwoFirst
<1>9. Grows(<<>>, <<>>)
  BY <1>1, <1>3, GrowNothing
<1>10. Good(work[2])' /\ ~Releasing(work[2]) /\ (work[2][1] = "analyze" => work[2][2] # program)
  <2>1. "use" \in Borrows /\ "use" # "formals"
    BY TaskNames
  <2> QED
    BY <2>1, <1>1, <1>2, <1>5, <1>7, <1>9, BorrowNext
<1>11. a \in Address /\ IsString(a) /\ a \in Address' /\ IsString(a)'
  BY <1>1, <1>5 DEF Is, Address, IsString, Alive
<1>12. Good(work[1])'
  <2>1. Is(a, "string")' /\ Apart(a)'
    BY <1>11, <1>1 DEF Is, Apart
  <2>2. Is(b, "result")'
    BY <1>5, <1>9, <1>3, GrowKeeps DEF Memory
  <2>3. b <= program
    BY <1>5, <1>3 DEF InTree
  <2>4. program' # NULL /\ b <= program'
    BY <2>3, <1>1, <1>3
  <2> QED
    BY ONLY <2>1, <2>2, <2>4, <1>8 DEF Good
<1>13. \A i \in 1..2 : i = 1 \/ i = 2
  OBVIOUS
<1>14. \A i \in 1..Len(work) : Good(work[i])'
  BY <1>7, <1>10, <1>12, <1>13
<1>15. \A i \in 1..Len(work) : Analyzing(work[i]) =>
         Analyzing(Head(todo)) /\ st # NULL /\ (work[i][1] = "analyze" => work[i][2] # program)
  BY <1>2, <1>3, <1>7, <1>8, <1>10, <1>13
<1>16. \A place : Accounted(a, place, <<>>, 0)
  BY <1>1, <1>11 DEF Accounted, Shared
<1>17. \A i \in 1..Len(work) : Releasing(work[i]) => work[i][2] = a
  BY <1>7, <1>8, <1>10, <1>13
<1>18. Moved(0) = {}
  BY <1>2, <1>3, NothingMoved
<1>19. Then(work)
  BY <1>1, <1>4, <1>6
<1> QED
  <2>1. \A i \in 1..Len(work) : Releasing(work[i]) =>
           Accounted(work[i][2], <<"call", Len(todo) + Len(work) - 1 - i, 0>>, <<>>, 0)
    BY <1>16, <1>17
  <2>2. causes \subseteq causes' /\ causes' \subseteq Shares
    BY <1>1, <1>2
  <2>3. Head(todo)[1] # "free" \/ Arg = NULL
    BY <1>3
  <2>4. \A v \in Moved(0) : \E i \in 1..Len(work) : Releasing(work[i]) /\ work[i][2] = v
    BY <1>18
  <2>5. UNCHANGED <<heap, fresh, vals, program, st, room, phase>>
    BY <1>1
  <2>6. Sound /\ phase = "run" /\ OnWalk /\ IsSeq(work)
    BY <1>2, <1>3, <1>7
  <2> QED
    BY ONLY <2>1, <2>2, <2>3, <2>4, <2>5, <2>6, <1>14, <1>15, <1>19, WalkSound

(* A list in a node of the tree, and its elements *)
LEMMA ListInTree ==
  ASSUME Analysis, NEW v, InTree(v), v \in Alive
  PROVE  NodeOf(v) /\ \A i \in 1..Len(KidsOf(v)) : InTree(KidsOf(v)[i])
<1>1. fresh \in Nat /\ program \in 1..fresh /\ v \in 0..program
  BY DEF Analysis, InTree
<1>2. v <= program
  BY <1>1
<1>3. NodeOf(v)
  BY <1>2 DEF Analysis
<1> QED
  BY <1>3, SeqFacts DEF NodeOf

LEMMA AnalyzeDeclsSound ==
  ASSUME Sound, AnalyzeDecls
  PROVE  Sound'
<1>1. /\ Visits("decls") /\ UNCHANGED <<vals, program, st, room, phase, causes>>
      /\ Allocate(<<String>>)
  BY DEF AnalyzeDecls
<1>2. /\ phase = "run" /\ todo # <<>> /\ Analysis /\ st # NULL /\ st \in Alive
      /\ ~Releasing(Head(todo)) /\ heap[Arg].tag = "decls" /\ NodeOf(Arg) /\ causes \subseteq Shares
  BY <1>1, VisitsTree
<1>3. /\ Memory /\ program # NULL /\ fresh \in Nat /\ program \in 1..fresh /\ TypeOK /\ Records
      /\ IsSeq(todo) /\ Len(todo) \in Nat
  BY <1>2, SeqFacts DEF Analysis, Memory
<1>4. PICK f, a, b : f = fresh /\ a = Kid(1) /\ b = Kid(2)
  OBVIOUS
<1>5. Is(a, "names") /\ Is(b, "result") /\ InTree(a) /\ InTree(b)
  <2>1. Fields(KidsOf(Arg), <<"names", "type">>) /\ IsSeq(KidsOf(Arg))
    BY <1>2, LayoutOf DEF NodeOf
  <2>2. /\ Len(KidsOf(Arg)) = 2 /\ Is(KidsOf(Arg)[1], "names") /\ Is(KidsOf(Arg)[2], "type")
        /\ 1 \in DOMAIN KidsOf(Arg) /\ 2 \in DOMAIN KidsOf(Arg)
    BY <2>1, SeqFacts DEF Fields
  <2>3. KidsOf(Arg)[1] = a /\ KidsOf(Arg)[2] = b
    BY <1>4 DEF Kid, KidsOf
  <2> QED
    BY <2>2, <2>3, <1>2 DEF NodeOf, Is
<1>6. PICK names : names = KidsOf(a)
  OBVIOUS
<1>7. IsSeq(names) /\ Len(names) \in Nat /\ \A i \in 1..Len(names) : InTree(names[i])
  <2>1. a \in Alive
    BY <1>5 DEF Is, Tagged
  <2> QED
    BY <2>1, <1>2, <1>5, <1>6, ListInTree, SeqFacts DEF NodeOf
<1>8. PICK what : what = "add var"
  OBVIOUS
<1>9. what \in Borrows /\ what # "formals"
  BY <1>8, TaskNames
<1>10. PICK x, rest, work, nodes : /\ x = <<"resolve", f + 1, b>> /\ rest = Each(what, names)
                                   /\ work = <<x>> \o rest /\ nodes = <<String>>
  OBVIOUS
<1>11. Then(work)
  <2>1. Then(<<<<"resolve", f + 1, b>>>> \o Each("add var", names))
    BY <1>4, <1>6 DEF AnalyzeDecls
  <2> QED
    BY ONLY <2>1, <1>8, <1>10
<1>12. /\ IsSeq(rest) /\ Len(rest) = Len(names)
       /\ \A i \in 1..Len(rest) : rest[i] = <<what, names[i]>>
  BY <1>7, <1>10, EachFacts
<1>13. IsSeq(work) /\ IsSeq(<<x>>) /\ Len(<<x>>) = 1 /\ Len(work) = 1 + Len(names) /\ work[1] = x
  <2>1. IsSeq(<<x>>) /\ Len(<<x>>) = 1 /\ <<x>>[1] = x
    BY IsSeqShort, TwoFirst
  <2> QED
    BY ONLY <2>1, <1>10, <1>12, SeqFacts
<1>14. x[1] = "resolve" /\ x[2] = f + 1 /\ x[3] = b
  BY <1>10, TwoFirst
<1>15. \A i \in 1..Len(work) : i = 1 \/ \E j \in 1..Len(rest) : work[i] = rest[j]
  BY <1>10, <1>12, <1>13, InEither
<1>16. /\ IsSeq(nodes) /\ Len(nodes) = 1 /\ nodes[1] = String /\ \A i \in 1..1 : i = 1
  BY <1>10, IsSeqShort, TwoFirst
<1>17. Grows(nodes, <<>>)
  <2>1. \A i \in 1..Len(nodes) : IsSeq(nodes[i].kids) /\ nodes[i] = Node(nodes[i].tag, nodes[i].kids)
    BY ONLY <1>16, Nodes, SeqFacts
  <2> QED
    BY <2>1, <1>1, <1>3, <1>10, <1>16, AllocateGrows
<1>18. Len(<<>>) = 0 /\ \A i : i \notin 1..0
  OBVIOUS
<1>19. Enters(nodes, <<>>)
  BY ONLY <1>16, <1>18, Nodes DEF Enters
<1>20. \A i \in 1..Len(work) : Good(work[i])' /\ (work[i][1] = "analyze" => work[i][2] # program)
  <2>1. Good(x)'
    <3>1. nodes[1].tag = "string" /\ 1 \in 1..Len(nodes)
      BY <1>16, Nodes
    <3>2. b <= program
      BY <1>3, <1>5 DEF InTree
    <3> QED
      BY <3>1, <3>2, <1>1, <1>3, <1>4, <1>5, <1>10, <1>17, ResolveFresh
  <2>2. \A j \in 1..Len(rest) : Good(rest[j])' /\ (rest[j][1] = "analyze" => rest[j][2] # program)
    BY <1>1, <1>2, <1>7, <1>9, <1>12, <1>17, BorrowNext
  <2> QED
    BY <2>1, <2>2, <1>13, <1>14, <1>15
<1>21. \A i \in 1..Len(work) : Releasing(work[i]) => i = 1
  <2>1. \A j \in 1..Len(rest) : ~Releasing(rest[j])
    BY <1>1, <1>2, <1>7, <1>9, <1>12, <1>17, BorrowNext
  <2> QED
    BY <2>1, <1>15
<1>22. PICK o : o = [v \in {f + 1} |-> <<"call", Len(todo) + Len(work) - 1 - 1, 0>>]
  OBVIOUS
<1>23. Moved(1) = {f + 1}
  <2>1. (f + 1)..(f + 1) = {f + 1}
    BY <1>3, <1>4
  <2> QED
    BY <2>1, <1>2, <1>4 DEF Moved
<1>24. Accounts(work, nodes, <<>>, o)
  <2>1. Accounted(f + 1, <<"call", Len(todo) + Len(work) - 1 - 1, 0>>, o, 1)
    BY <1>22, <1>23 DEF Accounted
  <2>2. Releasing(x)
    BY <1>14, AnalysisTasks
  <2>3. nodes[1].kids = <<>> /\ 1 \in 1..Len(work)
    BY <1>7, <1>13, <1>16, Nodes
  <2> QED
    BY ONLY <2>1, <2>2, <2>3, <1>2, <1>13, <1>14, <1>16, <1>18, <1>21, <1>23 DEF Accounts
<1> QED
  BY <1>1, <1>2, <1>11, <1>13, <1>17, <1>19, <1>20, <1>24, AnalysisSound

LEMMA ResolveHead ==
  ASSUME Sound, At("resolve"), NEW t, t = Head(todo)[3]
  PROVE  /\ phase = "run" /\ todo # <<>> /\ Analysis /\ st # NULL /\ st \in Alive
         /\ Memory /\ program # NULL /\ fresh \in Nat /\ program \in 1..fresh
         /\ Releasing(Head(todo)) /\ Head(todo)[1] # "free" /\ causes \subseteq Shares
         /\ Is(Arg, "string") /\ Apart(Arg) /\ Arg \in 1..fresh /\ IsString(Arg)
         /\ t # NULL => t \in Alive /\ NodeOf(t)
<1>1. phase = "run" /\ todo # <<>> /\ Head(todo)[1] = "resolve"
  BY DEF At
<1>2. /\ Head(todo)[1] \in WalkTasks /\ Analyzing(Head(todo)) /\ Releasing(Head(todo))
  BY <1>1, AnalysisTasks
<1>3. /\ Analysis /\ Is(Arg, "string") /\ Apart(Arg) /\ Is(t, "result") /\ t <= program
  BY <1>1, <1>2, AnalysisHead
<1>4. /\ Memory /\ program # NULL /\ fresh \in Nat /\ program \in 1..fresh
      /\ Head(todo)[1] # "free" /\ \A a \in Alive : a <= program => NodeOf(a)
  BY <1>3 DEF Analysis
<1>5. st # NULL
  <2>1. <<"analyze", program>>[1] # "resolve"
    OBVIOUS
  <2> QED
    BY <2>1, <1>1, <1>3 DEF Analysis
<1>6. st \in Alive /\ causes \subseteq Shares
  BY <1>3, <1>4, <1>5 DEF Analysis, Memory
<1>7. Arg \in 1..fresh /\ IsString(Arg)
  BY <1>3 DEF Is, Address
<1>8. t # NULL => t \in Alive /\ NodeOf(t)
  BY <1>3, <1>4 DEF Is, IsType
<1> QED
  BY <1>1, <1>2, <1>3, <1>4, <1>5, <1>6, <1>7, <1>8

LEMMA ResolveSimpleSound ==
  ASSUME Sound, ResolveSimple
  PROVE  Sound'
<1>1. /\ At("resolve") /\ Then(<<<<"free", Arg>>>>)
      /\ UNCHANGED <<heap, fresh, vals, program, st, room, phase>>
      /\ causes \subseteq causes' /\ causes' \subseteq causes \cup {"unknown type"}
  BY DEF ResolveSimple
<1>2. /\ phase = "run" /\ todo # <<>> /\ Analysis /\ Memory /\ program # NULL /\ fresh \in Nat
      /\ Releasing(Head(todo)) /\ Head(todo)[1] # "free" /\ causes \subseteq Shares
      /\ Is(Arg, "string") /\ Apart(Arg) /\ Arg \in 1..fresh /\ IsString(Arg)
  BY <1>1, ResolveHead
<1>3. PICK v, x, work : v = Arg /\ x = <<"free", v>> /\ work = <<x>>
  OBVIOUS
<1>4. /\ IsSeq(work) /\ Len(work) = 1 /\ work[1] = x /\ \A i \in 1..1 : i = 1
  BY ONLY <1>3, IsSeqShort, TwoFirst
<1>5. /\ x[1] = "free" /\ x[2] = v /\ Frees(x) /\ Releasing(x) /\ ~Analyzing(x)
  BY <1>3, FreeTasks
<1>6. v \in Alive => heap[v].tag = "string" /\ KidsOf(v) = <<>>
  BY <1>2, <1>3, StringKids DEF IsString, Memory
<1>7. Good(x)
  <2>1. v \in References /\ Apart(v)
    BY <1>2, <1>3 DEF References, Address
  <2>2. v \in Alive => \A i : i \notin DOMAIN KidsOf(v)
    BY <1>6
  <2> QED
    BY <2>1, <2>2, <1>5, <1>6, FreeGood DEF FreeGoodLaw
<1>8. Good(x)'
  <2>1. Grows(<<>>, <<>>)
    BY <1>1, <1>2, GrowNothing DEF Memory
  <2>2. v \in Alive => v # st
    <3>1. st # NULL => heap[st].tag = "stab"
      BY <1>2 DEF Memory, Stabbed, Tagged
    <3>2. v # NULL
      BY <1>2, <1>3 DEF NULL
    <3> QED
      BY <3>1, <3>2, <1>6
  <2> QED
    BY <2>1, <2>2, <1>1, <1>2, <1>5, <1>7, GoodKept DEF Memory
<1>9. PICK o : o = [u \in {v} |-> <<"call", Len(todo) + Len(work) - 1 - 1, 0>>]
  OBVIOUS
<1>10. Moved(0) = {v}
  <2>1. (fresh + 1)..(fresh + 0) = {} /\ Arg > 0
    BY <1>2
  <2> QED
    BY <2>1, <1>2, <1>3 DEF Moved
<1>11. \A i \in 1..Len(work) : Releasing(work[i]) =>
           Accounted(work[i][2], <<"call", Len(todo) + Len(work) - 1 - i, 0>>, o, 0)
  BY ONLY <1>4, <1>5, <1>9, <1>10 DEF Accounted
<1>12. \A u \in Moved(0) : \E i \in 1..Len(work) : Releasing(work[i]) /\ work[i][2] = u
  BY <1>4, <1>5, <1>10
<1>13. \A i \in 1..Len(work) : Good(work[i])'
  BY <1>4, <1>8
<1>14. \A i \in 1..Len(work) : Analyzing(work[i]) =>
         Analyzing(Head(todo)) /\ st # NULL /\ (work[i][1] = "analyze" => work[i][2] # program)
  BY <1>4, <1>5
<1>15. Then(work)
  BY <1>1, <1>3
<1>16. causes \subseteq causes' /\ causes' \subseteq Shares /\ OnWalk
  BY <1>1, <1>2 DEF Analysis, Shares
<1> QED
  <2>1. /\ UNCHANGED <<heap, fresh, vals, program, st, room, phase>>
        /\ Sound /\ phase = "run" /\ IsSeq(work)
    BY <1>1, <1>2, <1>4
  <2>2. Head(todo)[1] # "free" \/ Arg = NULL
    BY <1>2
  <2> QED
    BY ONLY <2>1, <2>2, <1>11, <1>12, <1>13, <1>14, <1>15, <1>16, WalkSound

(* A type of the tree is looked into: what it is made of. *)
LEMMA TypeParts ==
  ASSUME Analysis, NEW t \in Alive, NodeOf(t)
  PROVE  /\ heap[t].tag \in {"TYPE_POINTER", "TYPE_ARRAY"} =>
              LET last == heap[t].kids[Len(heap[t].kids)] IN Is(last, "result") /\ last <= program
         /\ heap[t].tag = "TYPE_RECORD" =>
              LET fields == heap[t].kids[1] IN
              /\ IsSeq(KidsOf(fields))
              /\ \A i \in 1..Len(KidsOf(fields)) :
                   LET part == KidsOf(KidsOf(fields)[i])[2] IN Is(part, "result") /\ part <= program
<1>1. fresh \in Nat /\ program \in 1..fresh /\ IsSeq(KidsOf(t)) /\ heap[t].kids = KidsOf(t)
  BY DEF Analysis, NodeOf, KidsOf
<1>2. ASSUME NEW a \in Alive, NodeOf(a), NEW i \in 1..Len(KidsOf(a))
      PROVE  KidsOf(a)[i] <= program /\ InTree(KidsOf(a)[i])
  <2>1. InTree(KidsOf(a)[i])
    BY <1>2, SeqFacts DEF NodeOf
  <2>2. KidsOf(a)[i] \in 0..program
    BY <2>1 DEF InTree
  <2> QED
    BY <2>1, <2>2, <1>1
<1>3. ASSUME heap[t].tag \in {"TYPE_POINTER", "TYPE_ARRAY"}
      PROVE  LET last == heap[t].kids[Len(heap[t].kids)] IN Is(last, "result") /\ last <= program
  <2>1. Fields(KidsOf(t), <<"type">>) \/ Fields(KidsOf(t), <<"string", "string", "type">>)
    BY <1>3, LayoutOf DEF NodeOf
  <2>2. Len(KidsOf(t)) \in {1, 3} /\ Is(KidsOf(t)[Len(KidsOf(t))], "type")
    BY <2>1 DEF Fields
  <2>3. Len(KidsOf(t)) \in 1..Len(KidsOf(t))
    BY <2>2
  <2> QED
    BY <2>2, <2>3, <1>1, <1>2 DEF Is
<1>4. ASSUME heap[t].tag = "TYPE_RECORD"
      PROVE  LET fields == heap[t].kids[1] IN
             /\ IsSeq(KidsOf(fields))
             /\ \A i \in 1..Len(KidsOf(fields)) :
                  LET part == KidsOf(KidsOf(fields)[i])[2] IN Is(part, "result") /\ part <= program
  <2>1. PICK l : l = KidsOf(t)[1]
    OBVIOUS
  <2>2. Fields(KidsOf(t), <<"fields">>)
    BY <1>4, LayoutOf DEF NodeOf
  <2>3. 1 \in 1..Len(KidsOf(t)) /\ Is(l, "fields")
    BY <2>1, <2>2 DEF Fields
  <2>4. ListOf(l, "record_field") /\ l \in Alive
    BY <2>3 DEF Is, ListOf, Tagged
  <2>5. NodeOf(l) /\ IsSeq(KidsOf(l)) /\ \A i \in 1..Len(KidsOf(l)) : InTree(KidsOf(l)[i])
    BY <2>1, <2>3, <2>4, <1>2, ListInTree DEF NodeOf
  <2>6. ASSUME NEW i \in 1..Len(KidsOf(l))
        PROVE  Is(KidsOf(KidsOf(l)[i])[2], "result") /\ KidsOf(KidsOf(l)[i])[2] <= program
    <3>1. PICK a : a = KidsOf(l)[i]
      OBVIOUS
    <3>2. a \in Alive /\ heap[a].tag = "record_field" /\ InTree(a)
      BY <3>1, <2>4, <2>5, SeqFacts DEF ListOf, Tagged
    <3>3. NodeOf(a)
      BY <3>2, ListInTree
    <3>4. Fields(KidsOf(a), <<"string", "type">>)
      BY <3>2, <3>3, LayoutOf DEF NodeOf
    <3>5. 2 \in 1..Len(KidsOf(a)) /\ Is(KidsOf(a)[2], "type")
      BY <3>4 DEF Fields
    <3> QED
      BY <3>1, <3>2, <3>3, <3>5, <1>2 DEF Is
  <2> QED
    BY <2>1, <2>5, <2>6, <1>1
<1> QED
  BY <1>3, <1>4

LEMMA ResolveNestedSound ==
  ASSUME Sound, ResolveNested
  PROVE  Sound'
<1>1. PICK t, b : t = Head(todo)[3] /\ b = heap[t].kids[Len(heap[t].kids)]
  OBVIOUS
<1>2. /\ At("resolve") /\ t # NULL /\ heap[t].tag \in {"TYPE_POINTER", "TYPE_ARRAY"}
      /\ Enrol(<<Node("type", <<Arg>>), String>>, <<fresh + 1>>)
      /\ Then(<<<<"resolve", fresh + 2, b>>>>)
      /\ UNCHANGED <<vals, program, st, room, phase, causes>>
  BY <1>1 DEF ResolveNested
<1>3. /\ phase = "run" /\ todo # <<>> /\ Analysis /\ st # NULL /\ st \in Alive
      /\ Memory /\ program # NULL /\ fresh \in Nat /\ program \in 1..fresh
      /\ Releasing(Head(todo)) /\ causes \subseteq Shares
      /\ Arg \in 1..fresh /\ IsString(Arg) /\ t \in Alive /\ NodeOf(t)
  BY <1>1, <1>2, ResolveHead
<1>4. TypeOK /\ Records /\ IsSeq(todo) /\ Len(todo) \in Nat
  BY <1>3, SeqFacts DEF Analysis, Memory
<1>5. Is(b, "result") /\ b <= program
  BY <1>1, <1>2, <1>3, TypeParts
<1>6. PICK f, v, K, L : f = fresh /\ v = Arg /\ K = Len(KidsOf(st)) /\ L = Len(todo)
  OBVIOUS
<1>7. PICK nodes, entries, x, work :
        /\ nodes = <<Node("type", <<v>>), String>> /\ entries = <<f + 1>>
        /\ x = <<"resolve", f + 2, b>> /\ work = <<x>>
  OBVIOUS
<1>8. Enrol(nodes, entries) /\ Then(work)
  BY <1>2, <1>6, <1>7
<1>9. /\ IsSeq(nodes) /\ IsSeq(entries) /\ Len(nodes) = 2 /\ Len(entries) = 1
      /\ nodes[1] = Node("type", <<v>>) /\ nodes[2] = String /\ entries[1] = f + 1
      /\ IsSeq(work) /\ Len(work) = 1 /\ work[1] = x
  BY ONLY <1>7, IsSeqShort, TwoFirst
<1>10. (\A i \in 1..2 : i = 1 \/ i = 2) /\ (\A i \in 1..1 : i = 1) /\ (\A i : i \notin 1..0)
  OBVIOUS
<1>11. /\ nodes[1].tag = "type" /\ nodes[1].kids = <<v>> /\ nodes[2].tag = "string"
       /\ nodes[2].kids = <<>>
  BY ONLY <1>9, Nodes
<1>12. Len(nodes[1].kids) = 1 /\ nodes[1].kids[1] = v /\ Len(nodes[2].kids) = 0
  BY ONLY <1>11
<1>13. Grows(nodes, entries)
  <2>1. \A i \in 1..Len(nodes) : IsSeq(nodes[i].kids) /\ nodes[i] = Node(nodes[i].tag, nodes[i].kids)
    BY ONLY <1>9, <1>10, <1>11, Nodes, IsSeqShort, SeqFacts
  <2> QED
    BY <2>1, <1>3, <1>4, <1>8, <1>9, EnrolGrows
<1>14. Enters(nodes, entries)
  <2>1. \A j \in 1..Len(entries) : entries[j] \in (f + 1)..(f + 2)
    BY <1>3, <1>6, <1>9, <1>10
  <2>2. v \in Address /\ IsString(v)
    BY <1>3, <1>6 DEF Address
  <2>3. nodes[1].tag # "string"
    BY <1>11
  <2> QED
    BY ONLY <2>1, <2>2, <2>3, <1>6, <1>9, <1>10, <1>11, <1>12 DEF Enters
<1>15. /\ x[1] = "resolve" /\ x[2] = f + 2 /\ Releasing(x)
  <2>1. x[1] = "resolve" /\ x[2] = f + 2
    BY <1>7, TwoFirst
  <2> QED
    BY <2>1, AnalysisTasks
<1>16. Good(x)'
  <2>1. 2 \in 1..Len(nodes) /\ nodes[2].tag = "string" /\ f + 2 = fresh + 2
    BY <1>6, <1>9, <1>11
  <2> QED
    BY <2>1, <1>2, <1>3, <1>5, <1>7, <1>13, ResolveFresh
<1>17. PICK o : o = [u \in Nat |-> IF u = v THEN <<"field", f + 1, 1>>
                              ELSE IF u = f + 1 THEN <<"field", st, K + 1>>
                              ELSE <<"call", L + 1 - 1 - 1, 0>>]
  OBVIOUS
<1>18. /\ o[v] = <<"field", f + 1, 1>> /\ o[f + 1] = <<"field", st, K + 1>>
       /\ o[f + 2] = <<"call", L + 1 - 1 - 1, 0>>
  BY <1>3, <1>6, <1>17
<1>19. Moved(2) = {v, f + 1, f + 2}
  <2>1. (f + 1)..(f + 2) = {f + 1, f + 2} /\ v > 0
    BY <1>3, <1>6
  <2> QED
    BY <2>1, <1>3, <1>6 DEF Moved
<1>20. Accounts(work, nodes, entries, o)
  <2>1. \A i \in 1..Len(nodes) : \A j \in 1..Len(nodes[i].kids) :
          Accounted(nodes[i].kids[j], <<"field", f + i, j>>, o, 2)
    BY ONLY <1>9, <1>10, <1>12, <1>18, <1>19 DEF Accounted
  <2>2. \A j \in 1..Len(entries) : Accounted(entries[j], <<"field", st, K + j>>, o, 2)
    BY ONLY <1>9, <1>10, <1>18, <1>19 DEF Accounted
  <2>3. \A i \in 1..Len(work) : Releasing(work[i]) =>
          Accounted(work[i][2], <<"call", L + Len(work) - 1 - i, 0>>, o, 2)
    BY ONLY <1>9, <1>10, <1>15, <1>18, <1>19 DEF Accounted
  <2>4. \A u \in Moved(2) : \/ \E i \in 1..2 : \E j \in 1..Len(nodes[i].kids) : nodes[i].kids[j] = u
                            \/ \E j \in 1..1 : entries[j] = u
                            \/ \E i \in 1..1 : Releasing(work[i]) /\ work[i][2] = u
    BY <1>9, <1>12, <1>15, <1>19
  <2> QED
    BY ONLY <2>1, <2>2, <2>3, <2>4, <1>3, <1>6, <1>9 DEF Accounts
<1>21. \A i \in 1..Len(work) : Good(work[i])' /\ (work[i][1] = "analyze" => work[i][2] # program)
  BY <1>9, <1>10, <1>15, <1>16
<1> QED
  BY <1>2, <1>3, <1>8, <1>9, <1>13, <1>14, <1>20, <1>21, AnalysisSound

LEMMA ResolveRecordSound ==
  ASSUME Sound, ResolveRecord
  PROVE  Sound'
<1>1. PICK t, fields, n : /\ t = Head(todo)[3] /\ fields = KidsOf(heap[t].kids[1])
                          /\ n = Len(fields)
  BY Zenon
<1>2. /\ At("resolve") /\ t # NULL /\ heap[t].tag = "TYPE_RECORD"
      /\ Enrol(<<Node("type", <<Arg>> \o [i \in 1..n |-> fresh + 1 + i])>>
                 \o [i \in 1..(2 * n) |-> String], <<fresh + 1>>)
      /\ Then([i \in 1..n |-> <<"resolve", fresh + 1 + n + i, KidsOf(fields[i])[2]>>])
      /\ UNCHANGED <<vals, program, st, room, phase, causes>>
  BY <1>1, ZenonT(60) DEF ResolveRecord
<1>3. /\ phase = "run" /\ todo # <<>> /\ Analysis /\ st # NULL /\ st \in Alive
      /\ Memory /\ program # NULL /\ fresh \in Nat /\ program \in 1..fresh
      /\ Releasing(Head(todo)) /\ causes \subseteq Shares
      /\ Arg \in 1..fresh /\ IsString(Arg) /\ t \in Alive /\ NodeOf(t)
  BY <1>1, <1>2, ResolveHead, ZenonT(60)
<1>4. TypeOK /\ Records /\ IsSeq(todo) /\ Len(todo) \in Nat
  BY <1>3, SeqFacts DEF Analysis, Memory
<1>5. PICK part : part = [i \in 1..n |-> KidsOf(fields[i])[2]]
  BY Zenon
<1>6. n \in Nat /\ \A i \in 1..n : Is(part[i], "result") /\ part[i] <= program
  BY <1>1, <1>2, <1>3, <1>5, TypeParts, SeqFacts, ZenonT(60)
<1>7. PICK f, v, K, L : f = fresh /\ v = Arg /\ K = Len(KidsOf(st)) /\ L = Len(todo)
  OBVIOUS
<1>8. PICK names, strings, kids : /\ names = [i \in 1..n |-> f + 1 + i]
                                  /\ strings = [i \in 1..(2 * n) |-> String]
                                  /\ kids = <<v>> \o names
  OBVIOUS
<1>9. PICK nodes, entries, work :
        /\ nodes = <<Node("type", kids)>> \o strings /\ entries = <<f + 1>>
        /\ work = [i \in 1..n |-> <<"resolve", f + 1 + n + i, part[i]>>]
  OBVIOUS
<1>10. Enrol(nodes, entries)
  BY <1>2, <1>7, <1>8, <1>9
<1>11. Then(work)
  <2>1. work = [i \in 1..n |-> <<"resolve", f + 1 + n + i, KidsOf(fields[i])[2]>>]
    BY <1>5, <1>9
  <2> QED
    BY <2>1, <1>2, <1>7
<1>12. /\ IsSeq(names) /\ Len(names) = n /\ IsSeq(strings) /\ Len(strings) = 2 * n
       /\ 2 * n \in Nat /\ IsSeq(work) /\ Len(work) = n
       /\ \A i \in 1..n : names[i] = f + 1 + i
       /\ \A i \in 1..(2 * n) : strings[i] = String
       /\ \A i \in 1..n : work[i] = <<"resolve", f + 1 + n + i, part[i]>>
  BY <1>6, <1>8, <1>9, MadeSeq
<1>13. /\ IsSeq(kids) /\ Len(kids) = n + 1 /\ kids[1] = v
       /\ \A i \in 1..n : kids[1 + i] = f + 1 + i
  <2>1. IsSeq(<<v>>) /\ Len(<<v>>) = 1 /\ <<v>>[1] = v
    BY IsSeqShort, TwoFirst
  <2>2. /\ IsSeq(kids) /\ Len(kids) = 1 + n /\ kids[1] = v
        /\ \A i \in 1..n : kids[1 + i] = names[i]
    <3>1. PICK s : s = <<v>>
      OBVIOUS
    <3>2. IsSeq(s) /\ Len(s) = 1 /\ s[1] = v /\ kids = s \o names
      BY ONLY <2>1, <3>1, <1>8
    <3>3. IsSeq(names) /\ Len(names) = n
      BY <1>12
    <3>2a. IsSeq(s)
      BY <3>2
    <3>3a. IsSeq(names)
      BY <3>3
    <3>4. /\ IsSeq(s \o names) /\ Len(s \o names) = Len(s) + Len(names)
          /\ \A i \in 1..Len(s) : (s \o names)[i] = s[i]
          /\ \A i \in 1..Len(names) : (s \o names)[Len(s) + i] = names[i]
      BY ONLY <3>2a, <3>3a, Joined
    <3>5. 1 \in 1..1
      OBVIOUS
    <3> QED
      BY ONLY <3>2, <3>3, <3>4, <3>5
  <2> QED
    BY <2>2, <1>6, <1>12
<1>14. /\ IsSeq(nodes) /\ Len(nodes) = 1 + 2 * n /\ nodes[1] = Node("type", kids)
       /\ \A i \in 1..(2 * n) : nodes[1 + i] = String
  <2>1. PICK head : head = <<Node("type", kids)>>
    OBVIOUS
  <2>2. IsSeq(head) /\ Len(head) = 1 /\ head[1] = Node("type", kids)
    BY ONLY <2>1, IsSeqShort, TwoFirst
  <2>3. nodes = head \o strings
    BY <2>1, <1>9
  <2>4. /\ IsSeq(nodes) /\ Len(nodes) = Len(head) + Len(strings)
        /\ \A i \in 1..Len(head) : nodes[i] = head[i]
        /\ \A i \in 1..Len(strings) : nodes[Len(head) + i] = strings[i]
    <3>0. IsSeq(head)
      BY <2>2
    <3>1. IsSeq(strings)
      BY <1>12
    <3>2. /\ IsSeq(head \o strings) /\ Len(head \o strings) = Len(head) + Len(strings)
          /\ \A i \in 1..Len(head) : (head \o strings)[i] = head[i]
          /\ \A i \in 1..Len(strings) : (head \o strings)[Len(head) + i] = strings[i]
      BY ONLY <3>0, <3>1, Joined
    <3> QED
      BY ONLY <2>3, <3>2
  <2>5. 1 \in 1..1
    OBVIOUS
  <2> QED
    BY ONLY <2>2, <2>4, <2>5, <1>12
<1>15. \A i \in 1..Len(nodes) : i = 1 \/ (i - 1 \in 1..(2 * n) /\ i # 1 /\ nodes[i] = String)
  <2> TAKE i \in 1..Len(nodes)
  <2>1. i = 1 \/ (i - 1 \in 1..(2 * n) /\ i # 1 /\ i = 1 + (i - 1))
    BY <1>6, <1>14
  <2> QED
    BY <2>1, <1>14
<1>16. nodes[1].tag = "type" /\ nodes[1].kids = kids
  BY ONLY <1>14, Nodes
<1>17. /\ IsSeq(entries) /\ Len(entries) = 1 /\ entries[1] = f + 1 /\ \A i \in 1..1 : i = 1
  BY ONLY <1>9, IsSeqShort, TwoFirst
<1>18. \A i \in 1..Len(nodes) : IsSeq(nodes[i].kids) /\ nodes[i] = Node(nodes[i].tag, nodes[i].kids)
  BY ONLY <1>13, <1>14, <1>15, <1>16, Nodes, SeqFacts, SMTT(40)
<1>19. Grows(nodes, entries)
  BY <1>3, <1>4, <1>10, <1>14, <1>17, <1>18, EnrolGrows
<1>20. \A j \in 1..Len(kids) : j = 1 \/ (j - 1 \in 1..n /\ j # 1 /\ kids[j] = f + j /\ j \in 1..(2 * n + 1))
  <2> TAKE j \in 1..Len(kids)
  <2>1. j = 1 \/ (j - 1 \in 1..n /\ j # 1 /\ j = 1 + (j - 1) /\ f + 1 + (j - 1) = f + j /\ j \in 1..(2 * n + 1))
    BY <1>3, <1>6, <1>7, <1>13
  <2> QED
    BY <2>1, <1>13
<1>21. Enters(nodes, entries)
  <2>1. \A j \in 1..Len(entries) : entries[j] \in (f + 1)..(f + Len(nodes))
    BY <1>3, <1>6, <1>7, <1>14, <1>17
  <2>2. v \in Address /\ IsString(v)
    BY <1>3, <1>7 DEF Address
  <2>3. \A j \in 1..Len(kids) :
          \/ kids[j] \in Address /\ IsString(kids[j])
          \/ \E k \in 1..Len(nodes) : kids[j] = f + k /\ nodes[k].kids = <<>>
    <3> TAKE j \in 1..Len(kids)
    <3>1. CASE j = 1
      BY <3>1, <2>2, <1>13
    <3>2. CASE j # 1
      <4>1. kids[j] = f + j /\ j \in 1..Len(nodes)
        BY <3>2, <1>6, <1>14, <1>20
      <4>2. nodes[j].kids = <<>>
        BY <3>2, <4>1, <1>15, Nodes
      <4> QED
        BY <4>1, <4>2
    <3> QED
      BY <3>1, <3>2
  <2>4. ASSUME NEW i \in 1..Len(nodes)
        PROVE  /\ nodes[i].tag \in {"string", "type", "var", "scope", "stab", "path"}
               /\ nodes[i].tag = "string" => nodes[i].kids = <<>>
               /\ \A j \in 1..Len(nodes[i].kids) :
                    \/ nodes[i].kids[j] \in Address /\ IsString(nodes[i].kids[j])
                    \/ \E k \in 1..Len(nodes) : nodes[i].kids[j] = f + k /\ nodes[k].kids = <<>>
    <3>1. CASE i = 1
      BY <3>1, <2>3, <1>16
    <3>2. CASE i # 1
      <4>1. nodes[i].tag = "string" /\ nodes[i].kids = <<>>
        BY <3>2, <1>15, Nodes
      <4>2. \A j : j \notin 1..Len(nodes[i].kids)
        BY <4>1
      <4> QED
        BY <4>1, <4>2
    <3> QED
      BY <3>1, <3>2
  <2> QED
    BY <2>1, <2>4, <1>7 DEF Enters

<1>22. PICK o : o = [u \in Nat |-> IF u <= f THEN <<"field", f + 1, 1>>
                              ELSE IF u = f + 1 THEN <<"field", st, K + 1>>
                              ELSE IF u <= f + 1 + n THEN <<"field", f + 1, u - f>>
                              ELSE <<"call", L + n - 1 - (u - f - 1 - n), 0>>]
  OBVIOUS
<1>23. /\ o[v] = <<"field", f + 1, 1>> /\ o[f + 1] = <<"field", st, K + 1>>
       /\ \A i \in 1..n : o[f + 1 + i] = <<"field", f + 1, 1 + i>>
       /\ \A i \in 1..n : o[f + 1 + n + i] = <<"call", L + n - 1 - i, 0>>
  <2>1. o[v] = <<"field", f + 1, 1>> /\ o[f + 1] = <<"field", st, K + 1>>
    BY <1>3, <1>7, <1>22
  <2>2. ASSUME NEW i \in 1..n
        PROVE  /\ o[f + 1 + i] = <<"field", f + 1, 1 + i>>
               /\ o[f + 1 + n + i] = <<"call", L + n - 1 - i, 0>>
    <3>1. /\ f + 1 + i \in Nat /\ ~(f + 1 + i <= f) /\ f + 1 + i # f + 1 /\ f + 1 + i <= f + 1 + n
          /\ (f + 1 + i) - f = 1 + i
          /\ f + 1 + n + i \in Nat /\ ~(f + 1 + n + i <= f) /\ f + 1 + n + i # f + 1
          /\ ~(f + 1 + n + i <= f + 1 + n) /\ (f + 1 + n + i) - f - 1 - n = i
      BY <1>3, <1>6, <1>7
    <3> QED
      BY ONLY <3>1, <1>22
  <2> QED
    BY <2>1, <2>2
<1>24. /\ v \in Moved(1 + 2 * n) /\ f + 1 \in Moved(1 + 2 * n)
       /\ \A i \in 1..n : f + 1 + i \in Moved(1 + 2 * n) /\ f + 1 + n + i \in Moved(1 + 2 * n)
       /\ \A u \in Moved(1 + 2 * n) : \/ u = v \/ u = f + 1
                                      \/ u - f - 1 \in 1..n /\ u = f + 1 + (u - f - 1)
                                      \/ u - f - 1 - n \in 1..n /\ u = f + 1 + n + (u - f - 1 - n)
  <2>1. Moved(1 + 2 * n) = (f + 1)..(f + (1 + 2 * n)) \cup {v}
    BY <1>3, <1>7 DEF Moved
  <2>2. f + 1 \in Moved(1 + 2 * n) /\ v \in Moved(1 + 2 * n)
    BY <2>1, <1>3, <1>6, <1>7
  <2>3. ASSUME NEW i \in 1..n
        PROVE  f + 1 + i \in Moved(1 + 2 * n) /\ f + 1 + n + i \in Moved(1 + 2 * n)
    BY <2>1, <1>3, <1>6, <1>7
  <2>4. ASSUME NEW u \in Moved(1 + 2 * n)
        PROVE  \/ u = v \/ u = f + 1
               \/ u - f - 1 \in 1..n /\ u = f + 1 + (u - f - 1)
               \/ u - f - 1 - n \in 1..n /\ u = f + 1 + n + (u - f - 1 - n)
    <3>1. f \in Nat /\ (u = v \/ u \in (f + 1)..(f + (1 + 2 * n)))
      BY <2>1, <1>3, <1>7
    <3>2. u = v \/ u = f + 1 \/ u \in (f + 2)..(f + 1 + n) \/ u \in (f + 2 + n)..(f + 1 + n + n)
      BY ONLY <3>1, <1>6
    <3> QED
      BY ONLY <3>1, <3>2, <1>6
  <2> QED
    BY <2>2, <2>3, <2>4
<1>25. \A i \in 1..n : /\ work[i][1] = "resolve" /\ work[i][2] = f + 1 + n + i /\ Releasing(work[i])
  <2> TAKE i \in 1..n
  <2>1. work[i][1] = "resolve" /\ work[i][2] = f + 1 + n + i
    BY <1>12, TwoFirst
  <2> QED
    BY <2>1, AnalysisTasks
<1>26. Accounts(work, nodes, entries, o)
  <2>1. ASSUME NEW i \in 1..Len(nodes), NEW j \in 1..Len(nodes[i].kids)
        PROVE  Accounted(nodes[i].kids[j], <<"field", f + i, j>>, o, 1 + 2 * n)
    <3>1. i = 1 /\ j \in 1..Len(kids)
      <4>1. CASE i = 1
        BY <4>1, <1>16
      <4>2. CASE i # 1
        <5>1. nodes[i].kids = <<>>
          BY <4>2, <1>15, Nodes
        <5> QED
          BY <5>1
      <4> QED
        BY <4>1, <4>2
    <3>2. CASE j = 1
      <4>1. nodes[i].kids[j] = v
        BY <3>1, <3>2, <1>13, <1>16
      <4> QED
        BY ONLY <4>1, <3>1, <3>2, <1>23, <1>24 DEF Accounted
    <3>3. CASE j # 1
      <4>1. PICK k \in 1..n : j = 1 + k
        <5>1. j - 1 \in 1..n /\ j = 1 + (j - 1)
          BY <3>1, <3>3, <1>6, <1>13
        <5> QED
          BY <5>1
      <4>2. nodes[i].kids[j] = f + 1 + k
        BY <3>1, <4>1, <1>13, <1>16
      <4> QED
        BY ONLY <4>1, <4>2, <3>1, <1>23, <1>24 DEF Accounted
    <3> QED
      BY <3>2, <3>3
  <2>2. \A j \in 1..Len(entries) : Accounted(entries[j], <<"field", st, K + j>>, o, 1 + 2 * n)
    BY ONLY <1>17, <1>23, <1>24 DEF Accounted
  <2>3. \A i \in 1..Len(work) : Accounted(work[i][2], <<"call", L + Len(work) - 1 - i, 0>>, o, 1 + 2 * n)
    BY ONLY <1>12, <1>23, <1>24, <1>25 DEF Accounted
  <2>4. ASSUME NEW u \in Moved(1 + 2 * n)
        PROVE  \/ \E i \in 1..Len(nodes) : \E j \in 1..Len(nodes[i].kids) : nodes[i].kids[j] = u
               \/ \E j \in 1..Len(entries) : entries[j] = u
               \/ \E i \in 1..Len(work) : Releasing(work[i]) /\ work[i][2] = u
    <3>0. 1 \in 1..Len(nodes) /\ 1 \in 1..Len(kids) /\ \A k \in 1..n : 1 + k \in 1..Len(kids)
      BY <1>6, <1>13, <1>14
    <3>1. CASE u = v
      BY <3>0, <3>1, <1>13, <1>16
    <3>2. CASE u = f + 1
      BY <3>2, <1>17
    <3>3. CASE \E k \in 1..n : u = f + 1 + k
      BY <3>0, <3>3, <1>13, <1>16
    <3>4. CASE \E k \in 1..n : u = f + 1 + n + k
      BY <3>4, <1>12, <1>25
    <3> QED
      BY <3>1, <3>2, <3>3, <3>4, <1>24
  <2> QED
    BY ONLY <2>1, <2>2, <2>3, <2>4, <1>3, <1>7, <1>14 DEF Accounts
<1>27. \A i \in 1..Len(work) : Good(work[i])' /\ (work[i][1] = "analyze" => work[i][2] # program)
  <2>1. ASSUME NEW i \in 1..n
        PROVE  Good(work[i])'
    <3>1. PICK k, w : k = 1 + n + i /\ w = f + 1 + n + i
      OBVIOUS
    <3>2. k \in 1..Len(nodes) /\ w = fresh + k /\ k - 1 \in 1..(2 * n) /\ k = 1 + (k - 1)
      BY <3>1, <1>3, <1>6, <1>7, <1>14
    <3>3. nodes[k].tag = "string"
      BY <3>2, <1>14, Nodes
    <3>4. work[i] = <<"resolve", w, part[i]>>
      BY <3>1, <1>12
    <3> QED
      BY <3>2, <3>3, <3>4, <1>2, <1>3, <1>6, <1>19, ResolveFresh
  <2> QED
    BY <2>1, <1>12, <1>25
<1> QED
  BY <1>2, <1>3, <1>11, <1>12, <1>19, <1>21, <1>26, <1>27, AnalysisSound

(* Several parts of the tree are visited in turn. *)
LEMMA BorrowEach ==
  ASSUME Analysis, NEW nodes, NEW entries, Grows(nodes, entries),
         program' = program, causes \subseteq causes', NEW what \in Borrows, what # "formals",
         NEW kids, IsSeq(kids), \A i \in 1..Len(kids) : InTree(kids[i]),
         NEW work, work = Each(what, kids)
  PROVE  /\ IsSeq(work) /\ Len(work) = Len(kids)
         /\ \A i \in 1..Len(work) : /\ Good(work[i])' /\ ~Releasing(work[i])
                                    /\ work[i][1] = "analyze" => work[i][2] # program
<1>1. /\ IsSeq(work) /\ Len(work) = Len(kids)
      /\ \A i \in 1..Len(kids) : work[i] = <<what, kids[i]>>
  BY EachFacts
<1> SUFFICES ASSUME NEW i \in 1..Len(kids)
             PROVE  /\ Good(work[i])' /\ ~Releasing(work[i])
                    /\ work[i][1] = "analyze" => work[i][2] # program
  BY <1>1
<1>2. PICK v : v = kids[i]
  OBVIOUS
<1>3. InTree(v) /\ work[i] = <<what, v>>
  BY <1>1, <1>2
<1>4. LET task == <<what, v>> IN
      Good(task)' /\ ~Releasing(task) /\ (task[1] = "analyze" => task[2] # program)
  BY <1>3, BorrowNext
<1> QED
  BY <1>3, <1>4

LEMMA AnalyzeProgramSound ==
  ASSUME Sound, AnalyzeProgram
  PROVE  Sound'
<1>1. /\ phase = "run" /\ todo # <<>> /\ Head(todo)[1] = "analyze" /\ Arg \in Alive
      /\ heap[Arg].tag = "program"
      /\ Allocate(<<Node("stab", <<fresh + 2>>), Node("scope", <<>>)>>) /\ st' = fresh + 1
      /\ UNCHANGED <<vals, program, room, phase, causes>>
  BY DEF AnalyzeProgram, Visits, At
<1>2. /\ Head(todo)[1] \in WalkTasks /\ Analyzing(Head(todo)) /\ Borrowing(Head(todo))
      /\ ~Releasing(Head(todo))
  BY <1>1, AnalysisTasks
<1>3. Analysis /\ Arg <= program
  BY <1>1, <1>2, AnalysisHead
<1>4. /\ Memory /\ program # NULL /\ fresh \in Nat /\ program \in 1..fresh /\ TypeOK /\ Records
      /\ causes \subseteq Shares
  BY <1>3 DEF Analysis, Memory
<1>5. Arg = program /\ NodeOf(Arg)
  <2>1. Arg >= program /\ Alive \subseteq 1..fresh
    BY <1>1, <1>4 DEF Memory, Rooted, TypeOK, Address
  <2>2. Arg \in 1..fresh
    BY <2>1, <1>1
  <2>3. Arg = program
    BY <2>1, <2>2, <1>3, <1>4
  <2> QED
    BY <2>3, <1>1, <1>3 DEF Analysis
<1>6. st = NULL
  BY <1>1, <1>3, <1>5 DEF Analysis
<1>7. PICK f, kids : f = fresh /\ kids = KidsOf(Arg)
  OBVIOUS
<1>8. PICK names, parts : names = KidsOf(kids[2]) /\ parts = SubSeq(kids, 3, 6)
  OBVIOUS
<1>9. Fields(kids, ProgramKinds) /\ IsSeq(kids) /\ kids \in Seq(References) /\ \A i \in DOMAIN kids : InTree(kids[i])
  BY <1>1, <1>5, <1>7, LayoutOf DEF NodeOf
<1>10. Len(kids) = 6 /\ Is(kids[2], "names") /\ DOMAIN kids = 1..6
  BY <1>9, SeqFacts, SMTT(40) DEF Fields, ProgramKinds
<1>11. IsSeq(names) /\ \A i \in 1..Len(names) : InTree(names[i])
  <2>1. kids[2] \in Alive /\ InTree(kids[2])
    BY <1>9, <1>10 DEF Is, Tagged
  <2> QED
    BY <2>1, <1>3, <1>8, ListInTree DEF NodeOf
<1>12. IsSeq(parts) /\ \A i \in 1..Len(parts) : InTree(parts[i])
  <2>1. parts \in Seq(References) /\ Len(parts) = 4 /\ \A i \in 1..4 : parts[i] = kids[2 + i]
    <3>1. \A i \in 3..6 : kids[i] \in References
      <4>1. kids \in Seq(References)
        BY <1>9
      <4>2. \A i \in 1..Len(kids) : kids[i] \in References
        BY ONLY <4>1
      <4>3. Len(kids) = 6
        BY <1>10
      <4> QED
        BY ONLY <4>2, <4>3
    <3>2. /\ SubSeq(kids, 3, 6) \in Seq(References) /\ Len(SubSeq(kids, 3, 6)) = 4
          /\ \A i \in 1..4 : SubSeq(kids, 3, 6)[i] = kids[3 + i - 1]
      BY ONLY <3>1, PartOf
    <3>3. \A i \in 1..4 : 3 + i - 1 = 2 + i
      OBVIOUS
    <3> QED
      BY <3>2, <3>3, <1>8
  <2>2. \A i \in 1..4 : 2 + i \in 1..6
    OBVIOUS
  <2> QED
    BY <2>1, <2>2, <1>9, <1>10 DEF IsSeq
<1>13. PICK nodes, first, second, work :
         /\ nodes = <<Node("stab", <<f + 2>>), Node("scope", <<>>)>>
         /\ first = Each("import", names) /\ second = Each("analyze", parts)
         /\ work = first \o second
  OBVIOUS
<1>14. Then(work) /\ Allocate(nodes)
  <2>1. Then(Each("import", KidsOf(Kid(2))) \o Each("analyze", SubSeq(KidsOf(Arg), 3, 6)))
    BY DEF AnalyzeProgram
  <2>2. Kid(2) = kids[2]
    BY <1>7 DEF Kid, KidsOf
  <2> QED
    BY <2>1, <2>2, <1>1, <1>7, <1>8, <1>13
<1>15. /\ IsSeq(nodes) /\ Len(nodes) = 2 /\ nodes[1] = Node("stab", <<f + 2>>)
       /\ nodes[2] = Node("scope", <<>>)
  BY ONLY <1>13, IsSeqShort, TwoFirst
<1>16. /\ nodes[1].tag = "stab" /\ nodes[1].kids = <<f + 2>> /\ nodes[2].tag = "scope"
       /\ nodes[2].kids = <<>>
  BY ONLY <1>15, Nodes
<1>17. Len(nodes[1].kids) = 1 /\ nodes[1].kids[1] = f + 2 /\ Len(nodes[2].kids) = 0
  BY ONLY <1>16
<1>18. /\ (\A i \in 1..2 : i = 1 \/ i = 2) /\ (\A i \in 1..1 : i = 1) /\ (\A i : i \notin 1..0)
       /\ Len(<<>>) = 0 /\ IsSeq(<<>>)
  BY SeqFacts
<1>19. Grows(nodes, <<>>)
  <2>1. \A i \in 1..Len(nodes) : IsSeq(nodes[i].kids) /\ nodes[i] = Node(nodes[i].tag, nodes[i].kids)
    BY ONLY <1>15, <1>16, <1>18, Nodes, IsSeqShort, SeqFacts
  <2> QED
    BY <2>1, <1>4, <1>14, <1>15, AllocateGrows
<1>20. Enters(nodes, <<>>)
  BY ONLY <1>7, <1>15, <1>16, <1>17, <1>18 DEF Enters
<1>21. st' > fresh /\ st' # NULL /\ Stabbed'
  <2>1. st' > fresh /\ st' # NULL
    BY <1>1, <1>4 DEF NULL
  <2>2. fresh + 1 \in Alive' /\ heap'[fresh + 1] = nodes[1]
    BY <1>4, <1>15, <1>19 DEF Grows
  <2> QED
    BY <2>1, <2>2, <1>1, <1>16 DEF Stabbed, Tagged
<1>22. /\ IsSeq(work)
       /\ \A i \in 1..Len(work) : Good(work[i])' /\ ~Releasing(work[i])
            /\ (work[i][1] = "analyze" => work[i][2] # program)
  <2>1. "import" \in Borrows /\ "analyze" \in Borrows /\ "import" # "formals" /\ "analyze" # "formals"
    BY TaskNames
  <2>2. /\ IsSeq(first)
        /\ \A i \in 1..Len(first) : /\ Good(first[i])' /\ ~Releasing(first[i])
                                    /\ first[i][1] = "analyze" => first[i][2] # program
    BY <2>1, <1>1, <1>3, <1>11, <1>13, <1>19, BorrowEach
  <2>3. /\ IsSeq(second)
        /\ \A i \in 1..Len(second) : /\ Good(second[i])' /\ ~Releasing(second[i])
                                     /\ second[i][1] = "analyze" => second[i][2] # program
    BY <2>1, <1>1, <1>3, <1>12, <1>13, <1>19, BorrowEach
  <2>4. IsSeq(work)
    BY <2>2, <2>3, <1>13, SeqFacts
  <2>5. \A i \in 1..Len(work) : \/ \E j \in 1..Len(first) : work[i] = first[j]
                                \/ \E j \in 1..Len(second) : work[i] = second[j]
    BY <2>2, <2>3, <1>13, InEither
  <2> QED
    BY <2>2, <2>3, <2>4, <2>5
<1>23. PICK o : o = [v \in Nat |-> IF v = f + 1 THEN <<"st", 0, 0>> ELSE <<"field", f + 1, 1>>]
  OBVIOUS
<1>24. o[f + 1] = <<"st", 0, 0>> /\ o[f + 2] = <<"field", f + 1, 1>>
  BY <1>4, <1>7, <1>23
<1>25. Moved(2) = {f + 1, f + 2}
  <2>1. (f + 1)..(f + 2) = {f + 1, f + 2}
    BY <1>4, <1>7
  <2> QED
    BY <2>1, <1>2, <1>7 DEF Moved
<1>26. Accounts(work, nodes, <<>>, o)
  <2>1. \A i \in 1..Len(nodes) : \A j \in 1..Len(nodes[i].kids) :
          Accounted(nodes[i].kids[j], <<"field", f + i, j>>, o, 2)
    BY ONLY <1>15, <1>17, <1>18, <1>24, <1>25 DEF Accounted
  <2>2. Accounted(st', <<"st", 0, 0>>, o, 2)
    BY <1>1, <1>7, <1>24, <1>25 DEF Accounted
  <2>3. \A v \in Moved(2) : \/ \E i \in 1..2 : \E j \in 1..Len(nodes[i].kids) : nodes[i].kids[j] = v
                            \/ st = NULL /\ st' = v
    BY <1>1, <1>6, <1>7, <1>17, <1>25
  <2> QED
    BY ONLY <2>1, <2>2, <2>3, <1>7, <1>15, <1>18, <1>22 DEF Accounts
<1> QED
  <2>1. \A i \in 1..Len(work) : Good(work[i])' /\ (work[i][1] = "analyze" => work[i][2] # program)
    BY <1>22
  <2> QED
    BY <2>1, <1>1, <1>3, <1>4, <1>6, <1>14, <1>19, <1>20, <1>21, <1>22, <1>26, AnalysisSound

(* The signature of a subprogram, as the parser made it. *)
LEMMA Signature ==
  ASSUME Analysis, NEW a \in Alive, NodeOf(a), heap[a].tag = "subdecl",
         NEW kids, kids = KidsOf(a), NEW head, head = KidsOf(kids[2])
  PROVE  /\ \A i \in 1..6 : InTree(kids[i])
         /\ InTree(head[1]) /\ InTree(head[2]) /\ Is(head[2], "result") /\ head[2] <= program
         /\ IsSeq(KidsOf(head[1]))
         /\ \A i \in 1..Len(KidsOf(head[1])) :
              InTree(KidsOf(head[1])[i]) /\ Tagged(KidsOf(head[1])[i], "decls")
<1>1. Fields(kids, <<"string", "function", "list", "list", "list", "ref">>) /\ IsSeq(kids)
  BY LayoutOf DEF NodeOf
<1>2. Len(kids) = 6 /\ Is(kids[2], "function") /\ DOMAIN kids = 1..6
  <2>1. Len(kids) = 6 /\ Is(kids[2], "function")
    BY <1>1 DEF Fields
  <2>2. DOMAIN kids = 1..Len(kids)
    BY <1>1, SeqFacts
  <2> QED
    BY <2>1, <2>2
<1>3. \A i \in 1..6 : InTree(kids[i])
  BY <1>2 DEF NodeOf
<1>4. PICK b : b = kids[2]
  OBVIOUS
<1>5. b \in Alive /\ heap[b].tag = "TYPE_FUNCTION" /\ NodeOf(b) /\ head = KidsOf(b)
  <2>1. b \in Alive /\ heap[b].tag = "TYPE_FUNCTION" /\ InTree(b)
    BY <1>2, <1>3, <1>4 DEF Is, Tagged
  <2> QED
    BY <2>1, <1>4, ListInTree
<1>6. Fields(head, <<"formals", "result">>) /\ IsSeq(head)
  BY <1>5, LayoutOf DEF NodeOf
<1>7. Len(head) = 2 /\ Is(head[1], "formals") /\ Is(head[2], "result") /\ DOMAIN head = 1..2
  <2>1. Len(head) = 2 /\ Is(head[1], "formals") /\ Is(head[2], "result")
    BY <1>6 DEF Fields
  <2>2. DOMAIN head = 1..Len(head)
    BY <1>6, SeqFacts
  <2> QED
    BY <2>1, <2>2
<1>8. InTree(head[1]) /\ InTree(head[2])
  BY <1>5, <1>7 DEF NodeOf
<1>9. head[2] <= program
  <2>1. program \in 1..fresh /\ fresh \in Nat
    BY DEF Analysis
  <2> QED
    BY <2>1, <1>8 DEF InTree
<1>10. PICK l : l = head[1]
  OBVIOUS
<1>11. l \in Alive /\ \A i \in DOMAIN KidsOf(l) : Tagged(KidsOf(l)[i], "decls")
  BY <1>7, <1>10 DEF Is, ListOf, Tagged
<1>12. NodeOf(l) /\ \A i \in 1..Len(KidsOf(l)) : InTree(KidsOf(l)[i])
  BY <1>8, <1>10, <1>11, ListInTree
<1>13. IsSeq(KidsOf(l)) /\ \A i \in 1..Len(KidsOf(l)) : Tagged(KidsOf(l)[i], "decls")
  BY <1>11, <1>12, SeqFacts DEF NodeOf
<1> QED
  BY <1>3, <1>7, <1>8, <1>9, <1>10, <1>12, <1>13

LEMMA AnalyzeSubprogramSound ==
  ASSUME Sound, AnalyzeSubprogram
  PROVE  Sound'
<1>1. Visits("subdecl") /\ UNCHANGED <<vals, program, st, room, phase, causes>>
  BY DEF AnalyzeSubprogram
<1>2. /\ phase = "run" /\ todo # <<>> /\ Analysis /\ st # NULL /\ st \in Alive
      /\ ~Releasing(Head(todo)) /\ Arg \in Alive /\ heap[Arg].tag = "subdecl" /\ NodeOf(Arg)
      /\ causes \subseteq Shares
  BY <1>1, VisitsTree
<1>3. /\ Memory /\ program # NULL /\ fresh \in Nat /\ program \in 1..fresh /\ TypeOK /\ Records
      /\ IsSeq(todo) /\ Len(todo) \in Nat
  BY <1>2, SeqFacts DEF Analysis, Memory
<1>4. PICK f, K, L, kids : f = fresh /\ K = Len(KidsOf(st)) /\ L = Len(todo) /\ kids = KidsOf(Arg)
  OBVIOUS
<1>5. PICK head : head = KidsOf(kids[2])
  OBVIOUS
<1>6. PICK formals : formals = KidsOf(head[1])
  OBVIOUS
<1>7. /\ \A i \in 1..6 : InTree(kids[i])
      /\ InTree(head[1]) /\ InTree(head[2]) /\ Is(head[2], "result") /\ head[2] <= program
      /\ IsSeq(formals)
      /\ \A i \in 1..Len(formals) : InTree(formals[i]) /\ Tagged(formals[i], "decls")
  BY <1>2, <1>4, <1>5, <1>6, Signature
<1>8. PICK nodes, entries :
        /\ nodes = <<String, Node("type", <<f + 1>>), String, Node("scope", <<>>), String>>
        /\ entries = <<f + 2, f + 4>>
  OBVIOUS
<1>9. PICK x, y : x = <<"resolve", f + 3, head[2]>> /\ y = <<"resolve", f + 5, head[2]>>
  OBVIOUS
<1>a. PICK var : var = <<"add var", kids[1]>>
  OBVIOUS
<1>10. PICK B, C, D, E :
         /\ B = Each("formals", formals) /\ C = Each("analyze", <<kids[4], head[1], kids[5]>>)
         /\ D = <<y, var>> /\ E = Each("analyze", <<kids[3], kids[6]>>)
  OBVIOUS
<1>11. PICK w, ww, www, work :
         w = <<x>> \o B /\ ww = w \o C /\ www = ww \o D /\ work = www \o E
  OBVIOUS
<1>12. Then(work) /\ Enrol(nodes, entries)
  <2>1. \A i : Kid(i) = kids[i]
    BY <1>4 DEF Kid, KidsOf
  <2>2. Enrol(<<String, Node("type", <<fresh + 1>>), String, Node("scope", <<>>), String>>,
              <<fresh + 2, fresh + 4>>)
    BY DEF AnalyzeSubprogram
  <2>3. LET h == KidsOf(Kid(2)) IN
        Then(<<<<"resolve", fresh + 3, h[2]>>>> \o Each("formals", KidsOf(h[1]))
          \o Each("analyze", <<Kid(4), h[1], Kid(5)>>)
          \o <<<<"resolve", fresh + 5, h[2]>>, <<"add var", Kid(1)>>>>
          \o Each("analyze", <<Kid(3), Kid(6)>>))
    BY Zenon DEF AnalyzeSubprogram
  <2>4. Then(<<<<"resolve", fresh + 3, head[2]>>>> \o Each("formals", KidsOf(head[1]))
          \o Each("analyze", <<kids[4], head[1], kids[5]>>)
          \o <<<<"resolve", fresh + 5, head[2]>>, <<"add var", kids[1]>>>>
          \o Each("analyze", <<kids[3], kids[6]>>))
    BY ONLY <2>1, <2>3, <1>5, Zenon
  <2>5. Then(work)
    BY ONLY <2>4, <1>4, <1>6, <1>9, <1>a, <1>10, <1>11, Zenon
  <2>6. Enrol(nodes, entries)
    BY ONLY <2>2, <1>4, <1>8, Zenon
  <2> QED
    BY ONLY <2>5, <2>6
<1>13. /\ IsSeq(nodes) /\ Len(nodes) = 5 /\ nodes[1] = String /\ nodes[2] = Node("type", <<f + 1>>)
       /\ nodes[3] = String /\ nodes[4] = Node("scope", <<>>) /\ nodes[5] = String
       /\ IsSeq(entries) /\ Len(entries) = 2 /\ entries[1] = f + 2 /\ entries[2] = f + 4
  BY ONLY <1>8, Tuples, IsSeqShort, TwoFirst
<1>14. /\ \A i \in 1..5 : i \in {1, 3, 5} \/ i = 2 \/ i = 4
       /\ \A i \in 1..2 : i = 1 \/ i = 2
       /\ \A i \in 1..1 : i = 1
  OBVIOUS
<1>15. /\ nodes[2].tag = "type" /\ nodes[2].kids = <<f + 1>>
       /\ nodes[4].tag = "scope" /\ nodes[4].kids = <<>>
       /\ \A i \in {1, 3, 5} : nodes[i].tag = "string" /\ nodes[i].kids = <<>>
  BY ONLY <1>13, Nodes
<1>16. \A i \in 1..Len(nodes) :
         /\ IsSeq(nodes[i].kids) /\ nodes[i] = Node(nodes[i].tag, nodes[i].kids)
         /\ nodes[i].tag \in {"string", "type", "scope"}
         /\ nodes[i].tag = "string" => nodes[i].kids = <<>>
  BY ONLY <1>13, <1>14, <1>15, Nodes, IsSeqShort, SeqFacts
<1>17. Len(nodes[2].kids) = 1 /\ nodes[2].kids[1] = f + 1
  BY ONLY <1>15
<1>18. \A i \in 1..5 : \A j \in 1..Len(nodes[i].kids) : i = 2 /\ j = 1
  <2> SUFFICES ASSUME NEW i \in 1..5, NEW j \in 1..Len(nodes[i].kids)
               PROVE  i = 2 /\ j = 1
    OBVIOUS
  <2>1. CASE i \in {1, 3, 5} \/ i = 4
    <3>1. nodes[i].kids = <<>>
      BY <2>1, <1>15
    <3> QED
      BY <3>1
  <2>2. CASE i = 2
    BY <2>2, <1>17
  <2> QED
    BY <2>1, <2>2, <1>14
<1>19. Grows(nodes, entries)
  BY <1>2, <1>3, <1>12, <1>13, <1>16, EnrolGrows
<1>20. Enters(nodes, entries)
  <2>1. \A j \in 1..Len(entries) : entries[j] \in (f + 1)..(f + 5)
    BY <1>3, <1>4, <1>13, <1>14
  <2>2. \A i \in 1..Len(nodes) : \A j \in 1..Len(nodes[i].kids) :
          \E k \in 1..Len(nodes) : nodes[i].kids[j] = f + k /\ nodes[k].kids = <<>>
    BY ONLY <1>13, <1>15, <1>17, <1>18
  <2> QED
    BY ONLY <2>1, <2>2, <1>4, <1>13, <1>16 DEF Enters
<1> DEFINE P(task) == /\ Good(task)' /\ ~Releasing(task)
                      /\ task[1] = "analyze" => task[2] # program
<1>21. "analyze" \in Borrows /\ "analyze" # "formals" /\ "formals" \in Borrows
  BY TaskNames
<1>22. IsSeq(B) /\ Len(B) = Len(formals) /\ \A i \in 1..Len(B) : P(B[i])
  <2>1. /\ IsSeq(B) /\ Len(B) = Len(formals)
        /\ \A i \in 1..Len(formals) : B[i] = <<"formals", formals[i]>>
    BY <1>7, <1>10, EachFacts
  <2>2. ASSUME NEW i \in 1..Len(formals)
        PROVE  P(B[i])
    <3>1. PICK v : v = formals[i]
      OBVIOUS
    <3>2. InTree(v) /\ Tagged(v, "decls") /\ B[i] = <<"formals", v>>
      BY <3>1, <2>1, <1>7
    <3>3. Good(<<"formals", v>>)'
      BY <3>2, <1>1, <1>3, <1>19, <1>21, BorrowKept
    <3>4. <<"formals", v>>[1] = "formals"
      OBVIOUS
    <3>5. ~Releasing(<<"formals", v>>)
      BY <3>4, <1>21, Borrowed
    <3> QED
      BY <3>2, <3>3, <3>4, <3>5
  <2> QED
    BY <2>1, <2>2
<1>23. IsSeq(C) /\ Len(C) = 3 /\ \A i \in 1..Len(C) : P(C[i])
  <2>1. PICK s : s = <<kids[4], head[1], kids[5]>>
    OBVIOUS
  <2>2. IsSeq(s) /\ Len(s) = 3 /\ s[1] = kids[4] /\ s[2] = head[1] /\ s[3] = kids[5]
    BY ONLY <2>1, IsSeqShort, TwoFirst
  <2>3. \A i \in 1..Len(s) : InTree(s[i])
    <3>1. \A i \in 1..3 : i = 1 \/ i = 2 \/ i = 3
      OBVIOUS
    <3> QED
      BY <3>1, <2>2, <1>7
  <2> QED
    BY <2>1, <2>2, <2>3, <1>1, <1>2, <1>10, <1>19, <1>21, BorrowEach, ZenonT(60)
<1>24. IsSeq(E) /\ \A i \in 1..Len(E) : P(E[i])
  <2>1. PICK s : s = <<kids[3], kids[6]>>
    OBVIOUS
  <2>2. IsSeq(s) /\ Len(s) = 2 /\ s[1] = kids[3] /\ s[2] = kids[6]
    BY ONLY <2>1, IsSeqShort, TwoFirst
  <2>3. \A i \in 1..Len(s) : InTree(s[i])
    BY <2>2, <1>7, <1>14
  <2> QED
    BY <2>1, <2>2, <2>3, <1>1, <1>2, <1>10, <1>19, <1>21, BorrowEach, ZenonT(60)
<1>25. P(var)
  <2>1. PICK what : what = "add var"
    OBVIOUS
  <2>2. what \in Borrows /\ what # "formals"
    BY <2>1, TaskNames
  <2>3. PICK v : v = kids[1]
    OBVIOUS
  <2>4. var = <<what, v>>
    BY <2>1, <2>3, <1>a
  <2>5. InTree(v)
    BY <2>3, <1>7
  <2> QED
    BY <2>2, <2>4, <2>5, <1>1, <1>2, <1>19, BorrowNext
<1>26. /\ IsSeq(D) /\ Len(D) = 2 /\ D[1] = y /\ D[2] = var
       /\ IsSeq(<<x>>) /\ Len(<<x>>) = 1 /\ <<x>>[1] = x
  BY <1>10, IsSeqShort, TwoFirst
<1>27. /\ x[1] = "resolve" /\ x[2] = f + 3 /\ Releasing(x)
       /\ y[1] = "resolve" /\ y[2] = f + 5 /\ Releasing(y)
  <2>1. x[1] = "resolve" /\ x[2] = f + 3 /\ y[1] = "resolve" /\ y[2] = f + 5
    BY <1>9, TwoFirst
  <2> QED
    BY <2>1, AnalysisTasks
<1>28. Good(x)' /\ Good(y)'
  <2>1. /\ 3 \in 1..Len(nodes) /\ nodes[3].tag = "string" /\ f + 3 = fresh + 3
        /\ 5 \in 1..Len(nodes) /\ nodes[5].tag = "string" /\ f + 5 = fresh + 5
    BY <1>4, <1>13, <1>15
  <2>2. Good(x)'
    BY <2>1, <1>1, <1>3, <1>7, <1>9, <1>19, ResolveFresh
  <2>3. Good(y)'
    BY <2>1, <1>1, <1>3, <1>7, <1>9, <1>19, ResolveFresh
  <2> QED
    BY <2>2, <2>3
<1> HIDE DEF P
<1>29. /\ IsSeq(w) /\ Len(w) >= 1 /\ Len(w) \in Nat /\ w[1] = x
       /\ \A i \in 1..Len(w) : i = 1 \/ P(w[i])
  <2>1. PICK s : s = <<x>>
    OBVIOUS
  <2>2. IsSeq(s) /\ IsSeq(B) /\ w = s \o B
    BY <2>1, <1>11, <1>22, <1>26
  <2>3. Len(s) = 1 /\ s[1] = x
    BY <2>1, <1>26
  <2>4. IsSeq(w) /\ Len(w) = Len(s) + Len(B) /\ \A i \in 1..Len(s) : w[i] = s[i]
    BY <2>2, Joined
  <2>5. Len(B) \in Nat
    BY <2>2, SeqFacts
  <2>6. \A i \in 1..Len(w) : i \in 1..Len(s) \/ \E j \in 1..Len(B) : w[i] = B[j]
    BY <2>2, InEither
  <2> QED
    BY <2>3, <2>4, <2>5, <2>6, <1>22
<1>30. /\ IsSeq(ww) /\ Len(ww) >= 1 /\ Len(ww) \in Nat /\ ww[1] = x
       /\ \A i \in 1..Len(ww) : i = 1 \/ P(ww[i])
  <2>1. IsSeq(w) /\ IsSeq(C) /\ ww = w \o C
    BY <1>11, <1>23, <1>29
  <2>2. IsSeq(ww) /\ Len(ww) = Len(w) + Len(C) /\ \A i \in 1..Len(w) : ww[i] = w[i]
    BY <2>1, Joined
  <2>3. \A i \in 1..Len(ww) : (i \in 1..Len(w) /\ ww[i] = w[i]) \/ \E j \in 1..Len(C) : ww[i] = C[j]
    BY <2>1, InEither
  <2> QED
    BY <2>2, <2>3, <1>23, <1>29
<1>31. PICK p : p = Len(ww) + 1
  OBVIOUS
<1>32. /\ IsSeq(www) /\ Len(www) >= p /\ p >= 2 /\ p \in Nat /\ Len(www) \in Nat
       /\ www[1] = x /\ www[p] = y
       /\ \A i \in 1..Len(www) : i = 1 \/ i = p \/ P(www[i])
  <2>1. IsSeq(ww) /\ IsSeq(D) /\ www = ww \o D
    BY <1>11, <1>26, <1>30
  <2>2. /\ IsSeq(www) /\ Len(www) = Len(ww) + Len(D) /\ \A i \in 1..Len(ww) : www[i] = ww[i]
        /\ \A i \in 1..Len(D) : www[Len(ww) + i] = D[i]
    BY <2>1, Joined
  <2>3. \A i \in 1..Len(www) : \/ i \in 1..Len(ww) /\ www[i] = ww[i]
                               \/ \E j \in 1..Len(D) : i = Len(ww) + j /\ www[i] = D[j]
    BY <2>1, InEither
  <2>4. Len(www) >= p /\ p >= 2 /\ p \in Nat /\ Len(www) \in Nat /\ www[1] = x /\ www[p] = y
    BY <2>2, <1>26, <1>30, <1>31
  <2>5. \A i \in 1..Len(www) : i = 1 \/ i = p \/ P(www[i])
    <3> TAKE i \in 1..Len(www)
    <3>1. CASE i \in 1..Len(ww) /\ www[i] = ww[i]
      BY <3>1, <1>30
    <3>2. CASE \E j \in 1..Len(D) : i = Len(ww) + j /\ www[i] = D[j]
      <4>1. PICK j \in 1..2 : i = Len(ww) + j /\ www[i] = D[j]
        BY <3>2, <1>26
      <4> QED
        BY <4>1, <1>14, <1>25, <1>26, <1>31
    <3> QED
      BY <3>1, <3>2, <2>3
  <2> QED
    BY <2>2, <2>4, <2>5
<1>33. /\ IsSeq(work) /\ Len(work) >= p /\ Len(work) \in Nat /\ work[1] = x /\ work[p] = y
       /\ \A i \in 1..Len(work) : i = 1 \/ i = p \/ P(work[i])
  <2>1. IsSeq(www) /\ IsSeq(E) /\ work = www \o E
    BY <1>11, <1>24, <1>32
  <2>2. IsSeq(work) /\ Len(work) = Len(www) + Len(E) /\ \A i \in 1..Len(www) : work[i] = www[i]
    BY <2>1, Joined
  <2>3. \A i \in 1..Len(work) : (i \in 1..Len(www) /\ work[i] = www[i]) \/ \E j \in 1..Len(E) : work[i] = E[j]
    BY <2>1, InEither
  <2>4. Len(E) \in Nat
    BY <2>1, SeqFacts
  <2> QED
    BY <2>2, <2>3, <2>4, <1>24, <1>32
<1>34. PICK n : n = Len(work)
  OBVIOUS
<1>35. PICK o : o = [v \in Nat |-> IF v = f + 1 THEN <<"field", f + 2, 1>>
                              ELSE IF v = f + 2 THEN <<"field", st, K + 1>>
                              ELSE IF v = f + 3 THEN <<"call", L + n - 1 - 1, 0>>
                              ELSE IF v = f + 4 THEN <<"field", st, K + 2>>
                              ELSE <<"call", L + n - 1 - p, 0>>]
  OBVIOUS
<1>36. /\ o[f + 1] = <<"field", f + 2, 1>> /\ o[f + 2] = <<"field", st, K + 1>>
       /\ o[f + 3] = <<"call", L + n - 1 - 1, 0>> /\ o[f + 4] = <<"field", st, K + 2>>
       /\ o[f + 5] = <<"call", L + n - 1 - p, 0>>
  BY <1>3, <1>4, <1>35
<1>37. Moved(5) = {f + 1, f + 2, f + 3, f + 4, f + 5}
  <2>1. (f + 1)..(f + 5) = {f + 1, f + 2, f + 3, f + 4, f + 5}
    BY <1>3, <1>4
  <2> QED
    BY <2>1, <1>2, <1>4 DEF Moved
<1>38. Accounts(work, nodes, entries, o)
  <2>1. \A i \in 1..Len(nodes) : \A j \in 1..Len(nodes[i].kids) :
          Accounted(nodes[i].kids[j], <<"field", f + i, j>>, o, 5)
    BY ONLY <1>13, <1>17, <1>18, <1>36, <1>37 DEF Accounted
  <2>2. \A j \in 1..Len(entries) : Accounted(entries[j], <<"field", st, K + j>>, o, 5)
    BY ONLY <1>13, <1>14, <1>36, <1>37 DEF Accounted
  <2>3. \A i \in 1..n : Releasing(work[i]) => i = 1 \/ i = p
    BY <1>33, <1>34 DEF P
  <2>4. \A i \in 1..n : Releasing(work[i]) => Accounted(work[i][2], <<"call", L + n - 1 - i, 0>>, o, 5)
    BY ONLY <2>3, <1>27, <1>33, <1>36, <1>37 DEF Accounted
  <2>5. \A v \in Moved(5) : \/ \E i \in 1..5 : \E j \in 1..Len(nodes[i].kids) : nodes[i].kids[j] = v
                            \/ \E j \in 1..2 : entries[j] = v
                            \/ \E i \in 1..n : Releasing(work[i]) /\ work[i][2] = v
    <3>1. 1 \in 1..n /\ p \in 1..n /\ 2 \in 1..5 /\ 1 \in 1..Len(nodes[2].kids)
      BY <1>17, <1>32, <1>33, <1>34
    <3> QED
      BY <3>1, <1>13, <1>17, <1>27, <1>33, <1>37
  <2> QED
    BY ONLY <2>1, <2>2, <2>4, <2>5, <1>2, <1>4, <1>13, <1>34 DEF Accounts
<1>39. \A i \in 1..Len(work) : Good(work[i])' /\ (work[i][1] = "analyze" => work[i][2] # program)
  <2> TAKE i \in 1..Len(work)
  <2>1. CASE i = 1 \/ i = p
    BY <2>1, <1>27, <1>28, <1>33
  <2>2. CASE P(work[i])
    BY <2>2 DEF P
  <2> QED
    BY <2>1, <2>2, <1>33
<1> QED
  <2>1. IsSeq(work) /\ Then(work)
    BY <1>12, <1>33
  <2> QED
    BY <2>1, <1>1, <1>2, <1>3, <1>19, <1>20, <1>38, <1>39, AnalysisSound

LEMMA Halves ==
  ASSUME NEW n \in Nat
  PROVE  /\ 2 * n \in Nat
         /\ \A i \in 1..(2 * n) : i % 2 = 1 => /\ (i + 1) \div 2 \in 1..n
                                             /\ i = 2 * ((i + 1) \div 2) - 1
         /\ \A i \in 1..(2 * n) : i % 2 # 1 => i \div 2 \in 1..n
         /\ \A k \in 1..n : /\ 2 * k - 1 \in 1..(2 * n) /\ (2 * k - 1) % 2 = 1
                            /\ ((2 * k - 1) + 1) \div 2 = k
<1>1. 2 * n \in Nat
  OBVIOUS
<1>2. ASSUME NEW i \in 1..(2 * n), i % 2 = 1
      PROVE  (i + 1) \div 2 \in 1..n /\ i = 2 * ((i + 1) \div 2) - 1
  BY <1>2
<1>3. ASSUME NEW i \in 1..(2 * n), i % 2 # 1
      PROVE  i \div 2 \in 1..n
  BY <1>3
<1>4. ASSUME NEW k \in 1..n
      PROVE  /\ 2 * k - 1 \in 1..(2 * n) /\ (2 * k - 1) % 2 = 1
             /\ ((2 * k - 1) + 1) \div 2 = k
  OBVIOUS
<1> QED
  BY <1>1, <1>2, <1>3, <1>4

LEMMA FormalsSound ==
  ASSUME Sound, Formals
  PROVE  Sound'
<1>1. /\ phase = "run" /\ todo # <<>> /\ Head(todo)[1] = "formals" /\ Arg \in Alive
      /\ UNCHANGED <<vals, program, st, room, phase, causes>>
  BY DEF Formals, At
<1>2. /\ Head(todo)[1] \in WalkTasks /\ Analyzing(Head(todo)) /\ Borrowing(Head(todo))
      /\ ~Releasing(Head(todo))
  BY <1>1, AnalysisTasks
<1>3. Analysis /\ Arg <= program /\ heap[Arg].tag = "decls"
  BY <1>1, <1>2, AnalysisHead
<1>4. /\ Memory /\ program # NULL /\ fresh \in Nat /\ program \in 1..fresh /\ TypeOK /\ Records
      /\ causes \subseteq Shares /\ NodeOf(Arg) /\ IsSeq(todo) /\ Len(todo) \in Nat
  BY <1>1, <1>3, SeqFacts DEF Analysis, Memory
<1>5. st # NULL
  <2>1. <<"analyze", program>>[1] = "analyze"
    OBVIOUS
  <2> QED
    BY <2>1, <1>1, <1>3 DEF Analysis
<1>6. PICK f, a, b, L : f = fresh /\ a = Kid(1) /\ b = Kid(2) /\ L = Len(todo)
  OBVIOUS
<1>7. Is(a, "names") /\ Is(b, "result") /\ InTree(a) /\ InTree(b)
  <2>1. Fields(KidsOf(Arg), <<"names", "type">>) /\ IsSeq(KidsOf(Arg))
    BY <1>3, <1>4, LayoutOf DEF NodeOf
  <2>2. Len(KidsOf(Arg)) = 2 /\ Is(KidsOf(Arg)[1], "names") /\ Is(KidsOf(Arg)[2], "type")
    BY <2>1 DEF Fields
  <2>3. 1 \in DOMAIN KidsOf(Arg) /\ 2 \in DOMAIN KidsOf(Arg)
    BY <2>1, <2>2, SeqFacts
  <2>4. KidsOf(Arg)[1] = a /\ KidsOf(Arg)[2] = b
    BY <1>6 DEF Kid, KidsOf
  <2> QED
    BY <2>2, <2>3, <2>4, <1>4 DEF NodeOf, Is
<1>8. PICK names : names = KidsOf(a)
  OBVIOUS
<1>9. PICK n : n = Len(names)
  OBVIOUS
<1>10. /\ IsSeq(names) /\ DOMAIN names = 1..n /\ n \in Nat
       /\ \A i \in 1..n : InTree(names[i])
  <2>1. a \in Alive
    BY <1>7 DEF Is, Tagged
  <2>2. IsSeq(names) /\ \A i \in 1..Len(names) : InTree(names[i])
    BY <2>1, <1>3, <1>7, <1>8, ListInTree DEF NodeOf
  <2> QED
    BY <2>2, <1>9, SeqFacts
<1>11. PICK what : what = "add var"
  OBVIOUS
<1>12. what \in Borrows /\ what # "formals"
  BY <1>11, TaskNames
<1>13. PICK nodes, work :
         /\ nodes = [i \in 1..n |-> String]
         /\ work = [i \in 1..(2 * n) |-> IF i % 2 = 1 THEN <<"resolve", f + (i + 1) \div 2, b>>
                                                      ELSE <<what, names[i \div 2]>>]
  OBVIOUS
<1>14. Allocate(nodes) /\ Then(work)
  <2>1. LET s == KidsOf(Kid(1)) IN
        /\ Allocate([i \in DOMAIN s |-> String])
        /\ Then([i \in 1..(2 * Len(s)) |->
             IF i % 2 = 1 THEN <<"resolve", fresh + (i + 1) \div 2, Kid(2)>>
                          ELSE <<"add var", s[i \div 2]>>])
    BY Zenon DEF Formals
  <2>2. /\ Allocate([i \in DOMAIN names |-> String])
        /\ Then([i \in 1..(2 * Len(names)) |->
             IF i % 2 = 1 THEN <<"resolve", f + (i + 1) \div 2, b>>
                          ELSE <<what, names[i \div 2]>>])
    BY ONLY <2>1, <1>6, <1>8, <1>11, Zenon
  <2>3. DOMAIN names = 1..n
    BY <1>10
  <2> QED
    BY ONLY <2>2, <2>3, <1>9, <1>13, Zenon
<1>15. /\ IsSeq(nodes) /\ Len(nodes) = n /\ \A i \in 1..n : nodes[i] = String
  BY <1>10, <1>13, MadeSeq
<1>16. /\ 2 * n \in Nat /\ IsSeq(work) /\ Len(work) = 2 * n
       /\ \A i \in 1..(2 * n) : work[i] = IF i % 2 = 1 THEN <<"resolve", f + (i + 1) \div 2, b>>
                                                       ELSE <<what, names[i \div 2]>>
  <2>1. 2 * n \in Nat
    BY <1>10, Halves
  <2> QED
    BY <2>1, <1>13, MadeSeq
<1>17. Grows(nodes, <<>>)
  <2>1. \A i \in 1..Len(nodes) : IsSeq(nodes[i].kids) /\ nodes[i] = Node(nodes[i].tag, nodes[i].kids)
    BY ONLY <1>15, Nodes, SeqFacts
  <2> QED
    BY <2>1, <1>4, <1>14, <1>15, AllocateGrows
<1>18. Len(<<>>) = 0 /\ \A i : i \notin 1..0
  OBVIOUS
<1>19. Enters(nodes, <<>>)
  BY ONLY <1>15, <1>18, Nodes DEF Enters
<1>20. ASSUME NEW i \in 1..(2 * n), i % 2 # 1
       PROVE  Good(work[i])' /\ ~Releasing(work[i]) /\ (work[i][1] = "analyze" => work[i][2] # program)
  <2>1. PICK v : v = names[i \div 2]
    OBVIOUS
  <2>2. work[i] = <<what, v>> /\ InTree(v)
    BY <2>1, <1>10, <1>16, <1>20, Halves
  <2> QED
    BY <2>2, <1>1, <1>3, <1>12, <1>17, BorrowNext
<1>21. ASSUME NEW k \in 1..n
       PROVE  /\ work[2 * k - 1] = <<"resolve", f + k, b>> /\ 2 * k - 1 \in 1..(2 * n)
              /\ work[2 * k - 1][1] = "resolve" /\ work[2 * k - 1][2] = f + k
              /\ Releasing(work[2 * k - 1]) /\ Good(work[2 * k - 1])'
  <2>1. /\ 2 * k - 1 \in 1..(2 * n) /\ (2 * k - 1) % 2 = 1 /\ ((2 * k - 1) + 1) \div 2 = k
    BY <1>10, Halves
  <2>2. PICK x : x = <<"resolve", f + k, b>>
    OBVIOUS
  <2>3. work[2 * k - 1] = x
    BY <2>1, <2>2, <1>16
  <2>4. x[1] = "resolve" /\ x[2] = f + k
    BY <2>2, TwoFirst
  <2>5. Releasing(x)
    BY <2>4, AnalysisTasks
  <2>6. Good(x)'
    <3>1. k \in 1..Len(nodes) /\ nodes[k].tag = "string" /\ f + k = fresh + k
      BY <1>6, <1>15, Nodes
    <3>2. b <= program
      BY <1>4, <1>7 DEF InTree
    <3> QED
      BY <3>1, <3>2, <2>2, <1>1, <1>4, <1>7, <1>17, ResolveFresh
  <2> QED
    BY <2>1, <2>2, <2>3, <2>4, <2>5, <2>6
<1>22. \A i \in 1..(2 * n) : i % 2 = 1 => \E k \in 1..n : i = 2 * k - 1
  <2>1. \A i \in 1..(2 * n) : i % 2 = 1 => (i + 1) \div 2 \in 1..n /\ i = 2 * ((i + 1) \div 2) - 1
    BY <1>10, Halves
  <2> QED
    BY <2>1
<1>23. PICK o : o = [v \in Nat |-> <<"call", L + 2 * n - 1 - (2 * (v - f) - 1), 0>>]
  OBVIOUS
<1>24. \A k \in 1..n : o[f + k] = <<"call", L + 2 * n - 1 - (2 * k - 1), 0>>
  <2> TAKE k \in 1..n
  <2>1. f + k \in Nat /\ (f + k) - f = k
    BY <1>4, <1>6, <1>10
  <2> QED
    BY <2>1, <1>23
<1>25. Moved(n) = (f + 1)..(f + n) /\ \A u \in Moved(n) : \E k \in 1..n : u = f + k
  <2>1. Moved(n) = (f + 1)..(f + n)
    BY <1>2, <1>6 DEF Moved
  <2>2. ASSUME NEW u \in (f + 1)..(f + n)
        PROVE  u - f \in 1..n /\ u = f + (u - f)
    BY <1>4, <1>6, <1>10
  <2> QED
    BY <2>1, <2>2
<1>26. Accounts(work, nodes, <<>>, o)
  <2>1. ASSUME NEW i \in 1..(2 * n), Releasing(work[i])
        PROVE  Accounted(work[i][2], <<"call", L + 2 * n - 1 - i, 0>>, o, n)
    <3>1. PICK k \in 1..n : i = 2 * k - 1
      BY <2>1, <1>20, <1>22
    <3>2. work[i][2] = f + k /\ o[f + k] = <<"call", L + 2 * n - 1 - i, 0>>
      BY <3>1, <1>21, <1>24
    <3>3. f + k \in Moved(n)
      BY <1>4, <1>6, <1>10, <1>25
    <3> QED
      BY <3>2, <3>3 DEF Accounted
  <2>2. ASSUME NEW u \in Moved(n)
        PROVE  \E i \in 1..(2 * n) : Releasing(work[i]) /\ work[i][2] = u
    <3>1. PICK k \in 1..n : u = f + k
      BY <1>25
    <3> QED
      BY <3>1, <1>21
  <2>3. \A i \in 1..n : nodes[i].kids = <<>>
    BY <1>15, Nodes
  <2> QED
    BY ONLY <2>1, <2>2, <2>3, <1>5, <1>6, <1>15, <1>16, <1>18 DEF Accounts
<1>27. \A i \in 1..Len(work) : Good(work[i])' /\ (work[i][1] = "analyze" => work[i][2] # program)
  <2> SUFFICES ASSUME NEW i \in 1..(2 * n)
               PROVE  Good(work[i])' /\ (work[i][1] = "analyze" => work[i][2] # program)
    BY <1>16
  <2>1. CASE i % 2 = 1
    <3>1. PICK k \in 1..n : i = 2 * k - 1
      BY <2>1, <1>22
    <3> QED
      BY <3>1, <1>21
  <2>2. CASE i % 2 # 1
    BY <2>2, <1>20
  <2> QED
    BY <2>1, <2>2
<1> QED
  BY <1>1, <1>3, <1>4, <1>5, <1>14, <1>16, <1>17, <1>19, <1>26, <1>27, AnalysisSound

LEMMA AnalyzeForSound ==
  ASSUME Sound, AnalyzeFor
  PROVE  Sound'
<1>1. /\ Visits("STMT_FOR") /\ UNCHANGED <<vals, program, st, room, phase>>
      /\ causes \subseteq causes' /\ causes' # {} /\ (causes \subseteq Shares => causes' \subseteq Shares)
  BY Zenon DEF AnalyzeFor, Shares
<1>2. /\ phase = "run" /\ todo # <<>> /\ Analysis /\ st # NULL /\ st \in Alive
      /\ ~Releasing(Head(todo)) /\ Arg \in Alive /\ heap[Arg].tag = "STMT_FOR" /\ NodeOf(Arg)
      /\ causes \subseteq Shares
  BY <1>1, VisitsTree
<1>3. /\ Memory /\ program # NULL /\ fresh \in Nat /\ program \in 1..fresh /\ TypeOK /\ Records
      /\ IsSeq(todo) /\ Len(todo) \in Nat
  BY <1>2, SeqFacts DEF Analysis, Memory
<1>4. PICK f, K, L, kids : f = fresh /\ K = Len(KidsOf(st)) /\ L = Len(todo) /\ kids = KidsOf(Arg)
  OBVIOUS
<1>5. /\ Is(kids[1], "string") /\ InTree(kids[1]) /\ InTree(kids[2]) /\ InTree(kids[3])
      /\ InTree(kids[4])
  <2>1. Fields(kids, <<"string", "ref", "ref", "ref">>) /\ IsSeq(kids)
    BY <1>2, <1>4, LayoutOf DEF NodeOf
  <2>2. PICK k : k = <<"string", "ref", "ref", "ref">>
    OBVIOUS
  <2>3. Len(k) = 4 /\ k[1] = "string"
    BY ONLY <2>2
  <2>4. Fields(kids, k)
    BY <2>1, <2>2
  <2>5. Len(kids) = 4 /\ Is(kids[1], "string")
    BY <2>3, <2>4 DEF Fields
  <2>6. DOMAIN kids = 1..4
    BY <2>1, <2>5, SeqFacts
  <2> QED
    BY <2>5, <2>6, <1>2, <1>4 DEF NodeOf
<1>6. PICK nodes, entries :
        /\ nodes = <<Node("path", <<kids[1]>>), Node("scope", <<>>)>>
        /\ entries = <<f + 2>>
  OBVIOUS
<1>7. PICK x : x = <<"free node", f + 1>>
  OBVIOUS
<1>8. PICK u, y : u = <<"use", kids[1]>> /\ y = <<"analyze", kids[4]>>
  OBVIOUS
<1>9. PICK A, B : A = Each("analyze", <<kids[2], kids[3]>>) /\ B = <<u, x, y>>
  OBVIOUS
<1>10. PICK work : work = A \o B
  OBVIOUS
<1>11. Then(work) /\ Enrol(nodes, entries)
  <2>1. \A i : Kid(i) = kids[i]
    BY <1>4 DEF Kid, KidsOf
  <2>2. Enrol(<<Node("path", <<Kid(1)>>), Node("scope", <<>>)>>, <<fresh + 2>>)
    BY Zenon DEF AnalyzeFor
  <2>3. Then(Each("analyze", <<Kid(2), Kid(3)>>)
          \o <<<<"use", Kid(1)>>, <<"free node", fresh + 1>>, <<"analyze", Kid(4)>>>>)
    BY Zenon DEF AnalyzeFor
  <2>4. Then(Each("analyze", <<kids[2], kids[3]>>)
          \o <<<<"use", kids[1]>>, <<"free node", fresh + 1>>, <<"analyze", kids[4]>>>>)
    BY ONLY <2>1, <2>3, Zenon
  <2>5. Then(work)
    BY ONLY <2>4, <1>4, <1>7, <1>8, <1>9, <1>10, Zenon
  <2>6. Enrol(<<Node("path", <<kids[1]>>), Node("scope", <<>>)>>, <<fresh + 2>>)
    BY ONLY <2>1, <2>2, Zenon
  <2>7. Enrol(nodes, entries)
    BY ONLY <2>6, <1>4, <1>6, Zenon
  <2> QED
    BY ONLY <2>5, <2>7
<1>12. /\ IsSeq(nodes) /\ Len(nodes) = 2 /\ nodes[1] = Node("path", <<kids[1]>>)
       /\ nodes[2] = Node("scope", <<>>)
       /\ IsSeq(entries) /\ Len(entries) = 1 /\ entries[1] = f + 2
  BY ONLY <1>6, IsSeqShort, TwoFirst
<1>13. /\ \A i \in 1..2 : i = 1 \/ i = 2
       /\ \A i \in 1..1 : i = 1
       /\ \A i \in 1..3 : i = 1 \/ i = 2 \/ i = 3
  OBVIOUS
<1>14. /\ nodes[1].tag = "path" /\ nodes[1].kids = <<kids[1]>>
       /\ nodes[2].tag = "scope" /\ nodes[2].kids = <<>>
  BY ONLY <1>12, Nodes
<1>15. /\ Len(nodes[1].kids) = 1 /\ nodes[1].kids[1] = kids[1] /\ Len(nodes[2].kids) = 0
       /\ nodes[1].tag # "string" /\ nodes[2].tag # "string"
  BY ONLY <1>14
<1>16. \A i \in 1..Len(nodes) : IsSeq(nodes[i].kids) /\ nodes[i] = Node(nodes[i].tag, nodes[i].kids)
  BY ONLY <1>12, <1>13, <1>14, Nodes, IsSeqShort, SeqFacts
<1>17. Grows(nodes, entries)
  BY <1>2, <1>3, <1>11, <1>12, <1>16, EnrolGrows
<1>18. kids[1] \in Address /\ IsString(kids[1]) /\ kids[1] > 0
  BY <1>5 DEF Is, Address
<1>19. Enters(nodes, entries)
  <2>1. \A j \in 1..Len(entries) : entries[j] \in (f + 1)..(f + 2)
    BY <1>3, <1>4, <1>12, <1>13
  <2>2. \A i \in 1..Len(nodes) : \A j \in 1..Len(nodes[i].kids) : nodes[i].kids[j] = kids[1]
    <3> SUFFICES ASSUME NEW i \in 1..2, NEW j \in 1..Len(nodes[i].kids)
                 PROVE  nodes[i].kids[j] = kids[1]
      BY <1>12
    <3>1. CASE i = 1
      <4>1. j = 1
        BY <3>1, <1>13, <1>15
      <4> QED
        BY ONLY <3>1, <4>1, <1>15
    <3>2. CASE i = 2
      <4>1. Len(nodes[i].kids) = 0
        BY <3>2, <1>15
      <4> QED
        BY <4>1
    <3> QED
      BY <3>1, <3>2, <1>13
  <2>3. \A i \in 1..Len(nodes) :
       /\ nodes[i].tag \in {"string", "type", "var", "scope", "stab", "path"}
       /\ nodes[i].tag # "string"
    BY ONLY <1>12, <1>13, <1>14, <1>15
  <2> QED
    BY ONLY <2>1, <2>2, <2>3, <1>4, <1>12, <1>18 DEF Enters
<1> DEFINE P(task) == /\ Good(task)' /\ ~Releasing(task)
                      /\ task[1] = "analyze" => task[2] # program
<1>20. IsSeq(A) /\ Len(A) = 2 /\ \A i \in 1..2 : P(A[i])
  <2>1. PICK s : s = <<kids[2], kids[3]>>
    OBVIOUS
  <2>2. IsSeq(s) /\ Len(s) = 2 /\ s[1] = kids[2] /\ s[2] = kids[3]
    BY ONLY <2>1, IsSeqShort, TwoFirst
  <2>3. \A i \in 1..Len(s) : InTree(s[i])
    BY <2>2, <1>5, <1>13
  <2>4. "analyze" \in Borrows /\ "analyze" # "formals"
    BY TaskNames
  <2> QED
    BY <2>1, <2>2, <2>3, <2>4, <1>1, <1>2, <1>9, <1>17, BorrowEach
<1>21. P(u) /\ P(y)
  <2>1. "analyze" \in Borrows /\ "analyze" # "formals" /\ "use" \in Borrows /\ "use" # "formals"
    BY TaskNames
  <2> QED
    BY <2>1, <1>1, <1>2, <1>5, <1>8, <1>17, BorrowNext
<1>22. IsSeq(B) /\ Len(B) = 3 /\ B[1] = u /\ B[2] = x /\ B[3] = y
  BY ONLY <1>9, IsSeqShort, TwoFirst
<1>23. Destroys(x) /\ Frees(x) /\ Releasing(x) /\ x[1] # "free" /\ x[2] = f + 1
  <2>1. Destroys(x) /\ x[2] = f + 1
    BY <1>7, FreeTasks
  <2> QED
    BY <2>1, FreeTasks
<1>24. Good(x)' /\ x[1] # "analyze"
  <2>1. FreeGoodLaw'
    BY FreeGood, PTL
  <2>2. fresh' = f + 2 /\ heap'[f + 1] = nodes[1] /\ f \in Nat
    <3>1. fresh' = fresh + Len(nodes) /\ \A i \in 1..Len(nodes) : heap'[fresh + i] = nodes[i]
      BY <1>17 DEF Grows
    <3> QED
      BY <3>1, <1>3, <1>4, <1>12
  <2>3. x[2] \in References'
    BY <2>2, <1>23 DEF References, Address
  <2>4. Apart(x[2])'
    BY <2>2, <1>1, <1>3, <1>4, <1>23 DEF Apart
  <2>5. KidsOf(x[2])' = <<kids[1]>>
    BY <2>2, <1>14, <1>23 DEF KidsOf
  <2>6. Is(kids[1], "string")'
    BY <1>3, <1>5, <1>17, GrowKeeps DEF Memory
  <2>7. Apart(kids[1])'
    BY <2>6, <1>1 DEF Apart, Is
  <2>8. \A i \in DOMAIN KidsOf(x[2])' : Is(KidsOf(x[2])[i], "string")' /\ Apart(KidsOf(x[2])[i])'
    <3>1. \A i \in DOMAIN <<kids[1]>> : <<kids[1]>>[i] = kids[1]
      OBVIOUS
    <3>2. \A i \in DOMAIN KidsOf(x[2])' : KidsOf(x[2])'[i] = kids[1]
      BY ONLY <3>1, <2>5
    <3> QED
      BY <3>2, <2>6, <2>7
  <2>9. Frees(x)' /\ x[1] # "free"
    BY <1>23 DEF Frees
  <2>10. Good(x)'
    BY ONLY <2>1, <2>3, <2>4, <2>8, <2>9 DEF FreeGoodLaw, Frees
  <2>11. x[1] # "analyze"
    BY <1>23 DEF Frees
  <2> QED
    BY <2>10, <2>11
<1> HIDE DEF P
<1>25. /\ IsSeq(work) /\ Len(work) = 5 /\ work[4] = x
       /\ \A i \in 1..5 : i = 4 \/ P(work[i])
  <2>1. /\ IsSeq(work) /\ Len(work) = Len(A) + Len(B) /\ \A i \in 1..Len(A) : work[i] = A[i]
        /\ \A i \in 1..Len(B) : work[Len(A) + i] = B[i]
    <3>1. IsSeq(A)
      BY <1>20
    <3>2. IsSeq(B)
      BY <1>22
    <3> QED
      BY <3>1, <3>2, <1>10, Joined
  <2>2. \A i \in 1..5 : i \in 1..2 \/ i = 2 + 1 \/ i = 2 + 2 \/ i = 2 + 3
    OBVIOUS
  <2>3. /\ \A i \in 1..2 : work[i] = A[i]
        /\ \A i \in 1..3 : work[2 + i] = B[i]
    BY <2>1, <1>20, <1>22
  <2>4. work[2 + 1] = u /\ work[2 + 2] = x /\ work[2 + 3] = y
    BY <2>3, <1>22
  <2> QED
    BY <2>1, <2>2, <2>3, <2>4, <1>20, <1>21, <1>22
<1>26. PICK o : o = [v \in Nat |-> IF v = f + 1 THEN <<"call", L + 5 - 1 - 4, 0>>
                                                ELSE <<"field", st, K + 1>>]
  OBVIOUS
<1>27. o[f + 1] = <<"call", L + 5 - 1 - 4, 0>> /\ o[f + 2] = <<"field", st, K + 1>>
  BY <1>3, <1>4, <1>26
<1>28. Moved(2) = {f + 1, f + 2}
  <2>1. (f + 1)..(f + 2) = {f + 1, f + 2}
    BY <1>3, <1>4
  <2> QED
    BY <2>1, <1>2, <1>4 DEF Moved
<1>29. Accounts(work, nodes, entries, o)
  <2>1. \A i \in 1..Len(nodes) : \A j \in 1..Len(nodes[i].kids) :
          Accounted(nodes[i].kids[j], <<"field", f + i, j>>, o, 2)
    <3>1. Shared(kids[1])
      BY <1>1, <1>3, <1>5, <1>18 DEF Shared
    <3> SUFFICES ASSUME NEW i \in 1..2, NEW j \in 1..Len(nodes[i].kids)
                 PROVE  Accounted(nodes[i].kids[j], <<"field", f + i, j>>, o, 2)
      BY <1>12
    <3>2. i = 1 /\ j = 1
      <4>1. CASE i = 1
        BY <4>1, <1>13, <1>15
      <4>2. CASE i = 2
        BY <4>2, <1>15
      <4> QED
        BY <4>1, <4>2, <1>13
    <3> QED
      BY ONLY <3>1, <3>2, <1>15 DEF Accounted
  <2>2. \A j \in 1..Len(entries) : Accounted(entries[j], <<"field", st, K + j>>, o, 2)
    BY ONLY <1>12, <1>13, <1>27, <1>28 DEF Accounted
  <2>3. \A i \in 1..5 : Releasing(work[i]) => i = 4
    BY <1>25 DEF P
  <2>4. \A i \in 1..5 : Releasing(work[i]) => Accounted(work[i][2], <<"call", L + 5 - 1 - i, 0>>, o, 2)
    BY ONLY <2>3, <1>23, <1>25, <1>27, <1>28 DEF Accounted
  <2>5. \A v \in Moved(2) : \/ \E j \in 1..1 : entries[j] = v
                            \/ \E i \in 1..5 : Releasing(work[i]) /\ work[i][2] = v
    <3>1. 4 \in 1..5 /\ 1 \in 1..1
      OBVIOUS
    <3> QED
      BY <3>1, <1>12, <1>23, <1>25, <1>28
  <2> QED
    BY ONLY <2>1, <2>2, <2>4, <2>5, <1>2, <1>4, <1>12, <1>25 DEF Accounts
<1>30. \A i \in 1..Len(work) : Good(work[i])' /\ (work[i][1] = "analyze" => work[i][2] # program)
  <2> SUFFICES ASSUME NEW i \in 1..5
               PROVE  Good(work[i])' /\ (work[i][1] = "analyze" => work[i][2] # program)
    BY <1>25
  <2>1. CASE i = 4
    BY <2>1, <1>24, <1>25
  <2>2. CASE P(work[i])
    BY <2>2 DEF P
  <2> QED
    BY <2>1, <2>2, <1>25
<1> QED
  <2>1. IsSeq(work) /\ Then(work)
    BY <1>11, <1>25
  <2> QED
    BY <2>1, <1>1, <1>2, <1>17, <1>19, <1>29, <1>30, AnalysisSound
=============================================================================
