----------------------------- MODULE Ownership ------------------------------
(***************************************************************************)
(* One compilation (compile_input of driver.c) and the memory it           *)
(* allocates: strings made by the lexer, nodes made by the parser, copies  *)
(* and entries made by the symbol table.  The program is chosen while it   *)
(* is parsed.                                                              *)
(*                                                                         *)
(* todo is the work ahead, the C call stack of the compiler: first the     *)
(* symbols still to be parsed, later the walks over the tree that print,   *)
(* analyze and free it.  Freeing a node moves its fields to todo.          *)
(***************************************************************************)
EXTENDS SyntaxTree, SequencesExt

CONSTANTS MaxObjects,     \* bound: strings and nodes of a program,
                          \* of which the least has six
          MaxDumped       \* bound: tokens dumped that carry a string

ASSUME OwnershipAssumption == MaxObjects \in Nat /\ MaxObjects >= 6 /\ MaxDumped \in Nat

NULL == 0
OPERATOR == -1            \* a value of type <tok>: no pointer

VARIABLES
  heap,                   \* what is allocated: nodes by address
  fresh,                  \* the last address handed out; none is used twice
  vals,                   \* the values on the parser's stack
  program,                \* compile_input's pointer to the tree
  st,                     \* acx.st
  todo,
  room,                   \* what the bound leaves for more of the program
  phase,                  \* "run"; "done": compile_input returned; "error":
                          \* exit(1) of span_err; "abort"; "undefined": a
                          \* read or release of what is not allocated
  causes                  \* history: uses of memory that go wrong

own == <<heap, fresh, vals, program, st, todo, room, phase, causes>>

Alive == DOMAIN heap
Node(tag, kids) == [tag |-> tag, kids |-> kids]
String == Node("string", <<>>)

(* The heap with more nodes, at the next addresses. *)
With(nodes) ==
  [a \in Alive \cup (fresh + 1)..(fresh + Len(nodes)) |->
     IF a \in Alive THEN heap[a] ELSE nodes[a - fresh]]
Allocate(nodes) == heap' = With(nodes) /\ fresh' = fresh + Len(nodes)

At(what) == phase = "run" /\ todo # <<>> /\ Head(todo)[1] = what
Arg == Head(todo)[2]
Then(work) == todo' = work \o Tail(todo)
Each(what, kids) == [i \in DOMAIN kids |-> <<what, kids[i]>>]

Top(n) == SubSeq(vals, Len(vals) - n + 1, Len(vals))
Below(n) == SubSeq(vals, 1, Len(vals) - n)

(* The least number of objects it takes to do the work. *)
Least(symbol) ==
  CASE symbol \in {"compound_statement", "statement"} -> 0
    [] symbol \in {"expression", "path", "identifier_list"} -> 2
    [] symbol = "lvalue" -> 3
    [] symbol = "parameter" -> 4
    [] symbol = "program" -> 6
    [] symbol = "subprogram_declaration" -> 7
    [] OTHER -> 1
LeastOf(task) ==
  CASE task[1] \in {"token", "build", "add", "accept"} -> 1
    [] task[1] = "build subprogram" -> 2
    [] task = Parse("subprogram_declaration") -> 3
    [] task[1] = "parse" /\ task # Parse("subprogram_declaration") -> Least(task[2])
    [] OTHER -> 0
(* No right-hand side is longer than eight. *)
Cost(work) ==
  LET least(i) == IF i \in DOMAIN work THEN LeastOf(work[i]) ELSE 0
  IN  least(1) + least(2) + least(3) + least(4) + least(5) + least(6) + least(7) + least(8)

-----------------------------------------------------------------------------
(* compile_input: DUMP_TOKENS and NO_PARSE. *)
Init ==
  /\ heap = <<>> /\ fresh = 0
  /\ vals = <<>> /\ program = NULL /\ st = NULL
  /\ todo \in {<<<<"lex">>, <<"return">>>>, <<<<"lex">>, Parse("program"), <<"end">>>>,
               <<<<"return">>>>, <<Parse("program"), <<"end">>>>}
  /\ room = MaxObjects - 6
  /\ phase = "run" /\ causes = {}

(* A token is printed, and its string freed. *)
DumpToken ==
  /\ At("lex") /\ fresh < MaxDumped
  /\ Allocate(<<String>>)
  /\ todo' = <<<<"use", fresh + 1>>, <<"free", fresh + 1>>>> \o todo
  /\ UNCHANGED <<vals, program, st, room, phase, causes>>

(* No string of the dump is left, so addresses start over. *)
EndDump ==
  /\ At("lex")
  /\ fresh' = IF heap = <<>> THEN 0 ELSE fresh
  /\ Then(<<>>)
  /\ UNCHANGED <<heap, vals, program, st, room, phase, causes>>

-----------------------------------------------------------------------------
(* yyparse *)

Expand(alternatives, least) ==
  \E work \in alternatives :
    /\ Cost(work) - least <= room
    /\ room' = room - (Cost(work) - least)
    /\ Then(work)
    /\ UNCHANGED <<heap, fresh, vals, program, st, phase, causes>>

Derive == At("parse") /\ Expand(Rules(Arg), Least(Arg))
Repeat == At("more") /\ Expand(Rounds(Arg), 0)

(* No action of its own: a string from the lexer, NULL, an operator, a     *)
(* token without a value. *)
Shift ==
  /\ \/ At("token") /\ Allocate(<<String>>) /\ vals' = Append(vals, fresh + 1)
     \/ At("null") /\ vals' = Append(vals, NULL) /\ UNCHANGED <<heap, fresh>>
     \/ At("operator") /\ vals' = Append(vals, OPERATOR) /\ UNCHANGED <<heap, fresh>>
     \/ At("expect") /\ UNCHANGED <<heap, fresh, vals>>
  /\ Then(<<>>)
  /\ UNCHANGED <<program, st, room, phase, causes>>

(* A faulty variant, to see TypeOK fail: an operator is kept like a field. *)
BuildNodeKeepsOperator ==
  /\ At("build")
  /\ LET n == Head(todo)[3]
     IN  Allocate(<<Node(Arg, Top(n))>>) /\ vals' = Append(Below(n), fresh + 1)
  /\ Then(<<>>)
  /\ UNCHANGED <<program, st, room, phase, causes>>

(* An expression keeps its operator by value, as no pointer. *)
Pointers(values) ==
  LET operators == {i \in DOMAIN values : values[i] = OPERATOR}
  IN  IF operators = {} THEN values ELSE RemoveAt(values, CHOOSE i \in operators : TRUE)

(* A constructor of ast.c, list_new or list_empty. *)
BuildNode ==
  /\ At("build")
  /\ LET n == Head(todo)[3]
     IN  /\ Allocate(<<Node(Arg, Pointers(Top(n)))>>)
         /\ vals' = Append(Below(n), fresh + 1)
  /\ Then(<<>>)
  /\ UNCHANGED <<program, st, room, phase, causes>>

(* list_add and ast_path_append *)
AddToList ==
  /\ At("add")
  /\ heap' = [heap EXCEPT ![Top(2)[1]].kids = Append(@, Top(1)[1])]
  /\ vals' = Below(1)
  /\ Then(<<>>)
  /\ UNCHANGED <<fresh, program, st, room, phase, causes>>

(* The name is the first value, then the arguments and the result, which   *)
(* make the head. *)
BuildSubprogram ==
  /\ At("build subprogram")
  /\ LET v == Top(7)
     IN  /\ Allocate(<<Node("TYPE_FUNCTION", <<v[2], v[3]>>),
                       Node("subdecl", <<v[1], fresh + 1, v[4], v[5], v[6], v[7]>>)>>)
         /\ vals' = Append(Below(7), fresh + 2)
  /\ Then(<<>>)
  /\ UNCHANGED <<program, st, room, phase, causes>>

Accept ==
  /\ At("accept")
  /\ Allocate(<<Node("program", vals)>>)
  /\ program' = fresh + 1 /\ vals' = <<>>
  /\ Then(<<>>)
  /\ UNCHANGED <<st, room, phase, causes>>

(* Where the next token may not fit: before a token, before a symbol or    *)
(* one more round, and before the end of the input.  Other tokens without  *)
(* a value stand before a token or a symbol, and an error at them finds    *)
(* what an error there finds; before the ) of an expression in             *)
(* parentheses, what an error before an operator finds.                    *)
Lookaheads == {"token", "expect", "parse", "more", "operator", "accept", "end"}

(* A faulty variant, to see AllFreed fail: the tree that was complete when *)
(* the error came is forgotten.                                            *)
SyntaxErrorForgets ==
  /\ \E what \in Lookaheads : At(what)
  /\ vals' = <<>>
  /\ IF \E i \in DOMAIN vals : vals[i] = OPERATOR
       THEN phase' = "abort" /\ todo' = <<>>
       ELSE phase' = phase /\ todo' = Each("free node", Reverse(vals)) \o <<<<"return">>>>
  /\ causes' = causes \cup IF phase' = "abort" THEN {"operator discarded"} ELSE {}
  /\ UNCHANGED <<heap, fresh, program, st, room>>

(* The next token does not fit.  The parser discards the values on its     *)
(* stack, top first, by the destructor of their type, which for <tok> is   *)
(* abort; then the driver frees the tree, which exists if only the end of  *)
(* the input was still to come.  (The string of a token that does not fit  *)
(* is freed as well.)                                                      *)
SyntaxError ==
  /\ \E what \in Lookaheads : At(what)
  /\ vals' = <<>>
  /\ IF \E i \in DOMAIN vals : vals[i] = OPERATOR
       THEN phase' = "abort" /\ todo' = <<>>
       ELSE /\ phase' = phase
            /\ todo' = Each("free node", Reverse(vals)) \o <<<<"free_program">>, <<"return">>>>
  /\ causes' = causes \cup IF phase' = "abort" THEN {"operator discarded"} ELSE {}
  /\ UNCHANGED <<heap, fresh, program, st, room>>

(* The rest of compile_input, with or without DUMP_AST and NO_ANALYSIS. *)
Parsed ==
  /\ At("end")
  /\ \E dump \in {<<>>, <<<<"print", program>>>>},
        analysis \in {<<<<"free_program">>>>,
                      <<<<"analyze", program>>, <<"free_program">>, <<"stab_free">>>>} :
       todo' = dump \o analysis \o <<<<"return">>>>
  /\ UNCHANGED <<heap, fresh, vals, program, st, room, phase, causes>>

FreeProgram ==
  /\ At("free_program")
  /\ Then(<<<<"free node", program>>>>)
  /\ program' = NULL
  /\ UNCHANGED <<heap, fresh, vals, st, room, phase, causes>>

StabFree ==
  /\ At("stab_free")
  /\ Then(<<<<"free node", st>>>>)
  /\ st' = NULL
  /\ UNCHANGED <<heap, fresh, vals, program, room, phase, causes>>

Return ==
  /\ At("return")
  /\ phase' = "done" /\ todo' = <<>>
  /\ UNCHANGED <<heap, fresh, vals, program, st, room, causes>>

-----------------------------------------------------------------------------
(* Reading and freeing. *)

(* free_*: the fields go first.  A list made with the destructor free      *)
(* releases its elements without looking into them.                        *)
FreeNode ==
  /\ At("free node") /\ Arg \in Alive
  /\ LET n == heap[Arg]
     IN  /\ Then(Each(IF n.tag = "free" THEN "free" ELSE "free node",
                      Released(n.tag, n.kids))
                 \o <<<<"free", Arg>>>>)
         /\ heap' = [heap EXCEPT ![Arg].kids = <<>>]
  /\ UNCHANGED <<fresh, vals, program, st, room, phase, causes>>

Free ==
  /\ At("free") /\ Arg \in Alive
  /\ heap' = [a \in Alive \ {Arg} |-> heap[a]]
  /\ Then(<<>>)
  /\ UNCHANGED <<fresh, vals, program, st, room, phase, causes>>

(* Every destructor and every printer accepts NULL, and so does            *)
(* analyze_stmt. *)
Skip ==
  /\ \E what \in {"free node", "free", "print", "analyze"} : At(what)
  /\ Arg = NULL
  /\ Then(<<>>)
  /\ UNCHANGED <<heap, fresh, vals, program, st, room, phase, causes>>

(* A faulty variant, to see Termination fail: the loop over a list does    *)
(* not step.                                                               *)
PrintNodeStays ==
  /\ At("print") /\ Arg \in Alive
  /\ todo' = Each("print", Printed(heap[Arg].tag, heap[Arg].kids)) \o todo
  /\ UNCHANGED <<heap, fresh, vals, program, st, room, phase, causes>>

(* print_* *)
PrintNode ==
  /\ At("print") /\ Arg \in Alive
  /\ Then(Each("print", Printed(heap[Arg].tag, heap[Arg].kids)))
  /\ UNCHANGED <<heap, fresh, vals, program, st, room, phase, causes>>

Use ==
  /\ At("use") /\ Arg \in Alive
  /\ Then(<<>>)
  /\ UNCHANGED <<heap, fresh, vals, program, st, room, phase, causes>>

-----------------------------------------------------------------------------
(* analyze.  Entries of the symbol table (variables, types, scopes) are    *)
(* kids of the node st; an entry owns its name.                            *)

Enrol(nodes, entries) ==
  /\ heap' = [With(nodes) EXCEPT ![st].kids = @ \o entries]
  /\ fresh' = fresh + Len(nodes)

Visits(tag) == At("analyze") /\ Arg \in Alive /\ heap[Arg].tag = tag
Kid(i) == heap[Arg].kids[i]
KidsOf(a) == heap[a].kids

AnalyzeProgram ==
  /\ Visits("program")
  /\ Allocate(<<Node("stab", <<fresh + 2>>), Node("scope", <<>>)>>)
  /\ st' = fresh + 1
  /\ Then(Each("import", KidsOf(Kid(2))) \o Each("analyze", SubSeq(KidsOf(Arg), 3, 6)))
  /\ UNCHANGED <<vals, program, room, phase, causes>>

(* do_imports: input and output declare two subprograms each. *)
Import ==
  /\ At("import") /\ Arg \in Alive
  /\ Enrol(<<String, Node("type", <<fresh + 1>>), String, Node("type", <<fresh + 3>>)>>,
           <<fresh + 2, fresh + 4>>)
  /\ Then(<<>>)
  /\ UNCHANGED <<vals, program, st, room, phase, causes>>

(* stab_add_type: the type is resolved under the name the tree owns, and   *)
(* the name hashed. *)
AnalyzeTypeDecl ==
  /\ Visits("type_decl")
  /\ Then(<<<<"resolve", Kid(1), Kid(2)>>, <<"use", Kid(1)>>>>)
  /\ causes' = causes \cup {"type declaration"}
  /\ UNCHANGED <<heap, fresh, vals, program, st, room, phase>>

(* A faulty variant, to see NoMisuse fail: the names are not copied. *)
AddVarBorrows ==
  /\ At("add var") /\ Arg \in Alive
  /\ Enrol(<<Node("var", <<Arg>>)>>, <<fresh + 1>>)
  /\ Then(<<>>)
  /\ UNCHANGED <<vals, program, st, room, phase, causes>>

(* stab_add_var of a copy of the name *)
AddVar ==
  /\ At("add var") /\ Arg \in Alive
  /\ Enrol(<<String, Node("var", <<fresh + 1>>)>>, <<fresh + 2>>)
  /\ Then(<<>>)
  /\ UNCHANGED <<vals, program, st, room, phase, causes>>

(* stab_add_decls *)
AnalyzeDecls ==
  /\ Visits("decls")
  /\ Allocate(<<String>>)
  /\ Then(<<<<"resolve", fresh + 1, Kid(2)>>>> \o Each("add var", KidsOf(Kid(1))))
  /\ UNCHANGED <<vals, program, st, room, phase, causes>>

(* stab_resolve_type(name, type) takes the name over.  A builtin type, a   *)
(* reference or no type at all has no use for it.  A reference to a type   *)
(* that is not declared resolves to the index -1, which is kept in what    *)
(* the type is part of. *)
ResolveSimple ==
  /\ At("resolve")
  /\ Head(todo)[3] # NULL => heap[Head(todo)[3]].tag \in {"TYPE_INTEGER", "TYPE_REF"}
  /\ Then(<<<<"free", Arg>>>>)
  /\ \/ causes' = causes
     \/ /\ Head(todo)[3] # NULL /\ heap[Head(todo)[3]].tag = "TYPE_REF"
        /\ causes' = causes \cup {"unknown type"}
  /\ UNCHANGED <<heap, fresh, vals, program, st, room, phase>>

(* A faulty variant, to see OneOwner fail: the name is not copied. *)
ResolveNestedShares ==
  LET type == heap[Head(todo)[3]] IN
  /\ At("resolve") /\ Head(todo)[3] # NULL
  /\ type.tag \in {"TYPE_POINTER", "TYPE_ARRAY"}
  /\ Enrol(<<Node("type", <<Arg>>)>>, <<fresh + 1>>)
  /\ Then(<<<<"resolve", Arg, type.kids[Len(type.kids)]>>>>)
  /\ UNCHANGED <<vals, program, st, room, phase, causes>>

(* stab_resolve_complex_type keeps it in the new type.  What the type is   *)
(* made of is resolved under new names. *)
ResolveNested ==
  LET type == heap[Head(todo)[3]] IN
  /\ At("resolve") /\ Head(todo)[3] # NULL
  /\ type.tag \in {"TYPE_POINTER", "TYPE_ARRAY"}
  /\ Enrol(<<Node("type", <<Arg>>), String>>, <<fresh + 1>>)
  /\ Then(<<<<"resolve", fresh + 2, type.kids[Len(type.kids)]>>>>)
  /\ UNCHANGED <<vals, program, st, room, phase, causes>>

(* A record type also owns a copy of each field's name. *)
ResolveRecord ==
  LET type == heap[Head(todo)[3]]
      fields == KidsOf(type.kids[1])
      n == Len(fields)
  IN
  /\ At("resolve") /\ Head(todo)[3] # NULL /\ type.tag = "TYPE_RECORD"
  /\ Enrol(<<Node("type", <<Arg>> \o [i \in 1..n |-> fresh + 1 + i])>>
             \o [i \in 1..(2 * n) |-> String], <<fresh + 1>>)
  /\ Then([i \in 1..n |-> <<"resolve", fresh + 1 + n + i, KidsOf(fields[i])[2]>>])
  /\ UNCHANGED <<vals, program, st, room, phase, causes>>

(* analyze_subprog, after stab_add_func: the result and the formals of the *)
(* signature are resolved, then again in the subprogram's own scope. *)
AnalyzeSubprogram ==
  LET head == KidsOf(Kid(2)) IN
  /\ Visits("subdecl")
  /\ Enrol(<<String, Node("type", <<fresh + 1>>), String, Node("scope", <<>>), String>>,
           <<fresh + 2, fresh + 4>>)
  /\ Then(<<<<"resolve", fresh + 3, head[2]>>>> \o Each("formals", KidsOf(head[1]))
          \o Each("analyze", <<Kid(4), head[1], Kid(5)>>)
          \o <<<<"resolve", fresh + 5, head[2]>>, <<"add var", Kid(1)>>>>
          \o Each("analyze", <<Kid(3), Kid(6)>>))
  /\ UNCHANGED <<vals, program, st, room, phase, causes>>

(* The formals of one declaration in a signature *)
Formals ==
  LET names == KidsOf(Kid(1)) IN
  /\ At("formals") /\ Arg \in Alive
  /\ Allocate([i \in DOMAIN names |-> String])
  /\ Then([i \in 1..(2 * Len(names)) |->
             IF i % 2 = 1 THEN <<"resolve", fresh + (i + 1) \div 2, Kid(2)>>
                          ELSE <<"add var", names[i \div 2]>>])
  /\ UNCHANGED <<vals, program, st, room, phase, causes>>

(* STMT_FOR: a path is made of the identifier, looked up and freed; the    *)
(* body has a scope of its own. *)
AnalyzeFor ==
  /\ Visits("STMT_FOR")
  /\ Enrol(<<Node("path", <<Kid(1)>>), Node("scope", <<>>)>>, <<fresh + 2>>)
  /\ Then(Each("analyze", <<Kid(2), Kid(3)>>)
          \o <<<<"use", Kid(1)>>, <<"free node", fresh + 1>>, <<"analyze", Kid(4)>>>>)
  /\ causes' = causes \cup {"FOR"}
  /\ UNCHANGED <<vals, program, st, room, phase>>

(* analyze_expr of EXPR_ADDROF *)
AnalyzeAddrof ==
  /\ Visits("EXPR_ADDROF")
  /\ phase' = "abort" /\ todo' = <<>>
  /\ causes' = causes \cup {"address taken"}
  /\ UNCHANGED <<heap, fresh, vals, program, st, room>>

(* The parts of the analysis that look at a type: the size of a            *)
(* variable's, for its offset, and the types of paths, arguments and       *)
(* operands. *)
ReadsType(node) ==
  \/ node.tag = "decls" /\ heap[node.kids[2]].tag = "TYPE_REF"
  \/ /\ "unknown type" \in causes
     /\ node.tag \in {"path", "EXPR_APP", "EXPR_BIN", "EXPR_DEREF", "EXPR_IDX",
                      "STMT_ASSIGN", "STMT_PROC"}

(* The type is unknown: STAB_TYPE(st, -1) reads in front of the arena.  (A *)
(* compiler that goes on nevertheless does what the other actions say.)    *)
ReadUnknownType ==
  /\ At("analyze") /\ Arg \in Alive /\ ReadsType(heap[Arg])
  /\ phase' = "undefined" /\ todo' = <<>>
  /\ causes' = causes \cup {"unknown type"}
  /\ UNCHANGED <<heap, fresh, vals, program, st, room>>

(* Two results of type void compared: write and the like leave one whose   *)
(* register has an empty name, and its copy is too short for the name of   *)
(* the 8-bit register.  (Neither types nor operators are kept; without     *)
(* this the comparison is an error or does no harm.)                       *)
CompareVoid ==
  /\ Visits("EXPR_BIN") /\ heap[Kid(2)].tag \in {"EXPR_APP", "EXPR_BIN"}
  /\ phase' = "undefined" /\ todo' = <<>>
  /\ causes' = causes \cup {"void compared"}
  /\ UNCHANGED <<heap, fresh, vals, program, st, room>>

(* Lists, the other statements and expressions: their parts are analyzed   *)
(* in order, their strings read. *)
AnalyzeParts ==
  /\ At("analyze") /\ Arg \in Alive
  /\ heap[Arg].tag \notin {"program", "type_decl", "decls", "subdecl", "STMT_FOR", "EXPR_ADDROF"}
  /\ Then(Each("analyze", KidsOf(Arg)))
  /\ UNCHANGED <<heap, fresh, vals, program, st, room, phase, causes>>

(* span_err: exit(1), and the memory goes with the process. *)
SemanticError ==
  /\ At("import") \/ (At("analyze") /\ Arg \notin {program, NULL})
  /\ phase' = "error"
  /\ heap' = <<>> /\ vals' = <<>> /\ todo' = <<>> /\ program' = NULL /\ st' = NULL
  /\ fresh' = 0 /\ room' = 0
  /\ UNCHANGED causes

(* What is read or released is not allocated (any more). *)
Misuse ==
  /\ \E what \in {"free node", "free", "print", "use", "analyze", "import", "add var",
                  "formals"} : At(what)
  /\ Arg \notin Alive \cup {NULL}
  /\ phase' = "undefined" /\ todo' = <<>>
  /\ UNCHANGED <<heap, fresh, vals, program, st, room, causes>>

Next ==
  \/ DumpToken \/ EndDump
  \/ Derive \/ Repeat \/ Shift \/ BuildNode \/ AddToList \/ BuildSubprogram \/ Accept
  \/ SyntaxError \/ Parsed \/ FreeProgram \/ StabFree \/ Return
  \/ FreeNode \/ Free \/ Skip \/ PrintNode \/ Use
  \/ AnalyzeProgram \/ Import \/ AnalyzeTypeDecl \/ AddVar \/ AnalyzeDecls
  \/ ResolveSimple \/ ResolveNested \/ ResolveRecord
  \/ AnalyzeSubprogram \/ Formals \/ AnalyzeFor \/ AnalyzeAddrof \/ AnalyzeParts
  \/ ReadUnknownType \/ CompareVoid
  \/ SemanticError \/ Misuse

(* The compiler is one process that runs until it ends. *)
Spec == Init /\ [][Next]_own /\ WF_own(Next)

-----------------------------------------------------------------------------
Address == 1..fresh
References == Address \cup {NULL}

TypeOK ==
  /\ fresh \in Nat /\ Alive \subseteq Address
  /\ \A a \in Alive : KidsOf(a) \in Seq(References)
  /\ vals \in Seq(References \cup {OPERATOR})
  /\ {program, st} \subseteq References
  /\ room \in 0..MaxObjects
  /\ phase \in {"run", "done", "error", "abort", "undefined"}

(* The places of pointers that have to be released: the parser's stack,    *)
(* the driver's two, the calls under way that have taken one over, and the *)
(* fields of nodes.  A call is named by the number of tasks below it.      *)
Releasing(task) == task[1] \in {"free", "free node", "resolve"}
Places ==
  {<<"value", i, 0>> : i \in DOMAIN vals} \cup {<<"program", 0, 0>>, <<"st", 0, 0>>}
  \cup {<<"call", Len(todo) - i, 0>> : i \in {j \in DOMAIN todo : Releasing(todo[j])}}
  \cup UNION {{<<"field", a, i>> : i \in DOMAIN KidsOf(a)} : a \in Alive}
Held(place) ==
  CASE place[1] = "value" -> vals[place[2]]
    [] place[1] = "program" -> program
    [] place[1] = "st" -> st
    [] place[1] = "call" -> todo[Len(todo) - place[2]][2]
    [] place[1] = "field" -> KidsOf(place[2])[place[3]]
Owners == {place \in Places : Held(place) > 0}

(* In every state of a compilation that has analyzed neither a type        *)
(* declaration nor FOR (and kept no unknown type), what is allocated is    *)
(* owned by exactly one pointer, and no owning pointer dangles: values the parser moves from its stack into     *)
(* nodes (parser.y), names stab_resolve_type takes over or frees, names    *)
(* stab_add_decls and stab_add_func copy, fields being freed by ast.c.     *)
OneOwner ==
  phase \in {"run", "done"} /\ causes = {} =>
    /\ \A p, q \in Owners : Held(p) = Held(q) => p = q
    /\ {Held(p) : p \in Owners} = Alive

(* src/dragon/README.md: "It's ASan and UBSan clean."  The strings, nodes  *)
(* and entries of a compilation are read and freed while they are          *)
(* allocated, and so are the arena of types and the names of registers,    *)
(* whichever options main.c passes and wherever a syntax error stops the   *)
(* parse, except when it has analyzed                                      *)
(*   - a type declaration or FOR, where the tree and the symbol table (or  *)
(*     the path made for FOR) free the same name,                          *)
(*   - a type that is not declared, whose index is -1, or                  *)
(*   - a comparison of two results of type void. *)
NoMisuse ==
  phase = "undefined" =>
    causes \cap {"type declaration", "FOR", "unknown type", "void compared"} # {}

(* src/dragon/README.md: "When compilation is successful, all memory is    *)
(* freed."  When compile_input returns, nothing is left, after a syntax    *)
(* error too.                                                              *)
AllFreed == phase = "done" => heap = <<>>

(* Every compilation ends: the walks of parser, printers, destructors and  *)
(* analysis come to an end on every tree, and so does compile_input.       *)
Termination == <>(phase # "run")
=============================================================================
