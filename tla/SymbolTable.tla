---------------------------- MODULE SymbolTable -----------------------------
(***************************************************************************)
(* The symbol table of symbol.c: two arenas (variables, types) that only   *)
(* grow, a set of scopes that are kept for ever, and a chain of the scopes *)
(* that are open.  A scope has three tables (KeyMap): names of variables,  *)
(* of functions and of types, each giving an index into an arena.          *)
(* Functions share the arena of the types.                                 *)
(*                                                                         *)
(* A type expression of the syntax tree is a basic one (a builtin type or  *)
(* a reference to a name) or one constructor over basic ones.              *)
(***************************************************************************)
EXTENDS Integers, Sequences

CONSTANTS
  Name,                   \* identifiers
  Constructors,           \* the type constructors of the type expressions
  Magic,                  \* the identifiers bound by stab_add_magic_func
  MaxNames,               \* bound: identifiers in one declaration
  MaxVars, MaxTypes,      \* bounds: entries of the arenas
  MaxScopes               \* bound: calls of stab_enter

ASSUME SymbolTableAssumption ==
  /\ Magic \subseteq Name
  /\ Constructors \subseteq {"pointer", "array", "record"}
  /\ {MaxNames, MaxVars, MaxTypes, MaxScopes} \subseteq Nat

NONE == -1                \* RESOLVE_FAILURE, as stored in a table or an id

(* The entries stab_new makes, at INTEGER_TYPE_IDX .. VOID_TYPE_IDX. *)
Builtin == <<"integer", "real", "string", "boolean", "char", "void">>
VOID == 5

Kind == {"vars", "funcs", "types"}

(* What a variable is made for: by stab_add_decls, by the signature of     *)
(* stab_add_func, or as the return slot of a function being analyzed.      *)
Maker == {"decls", "signature", "retslot"}

VARIABLES
  vars,                   \* st->vars: [name, type, by, scope]; by (a Maker)
                          \* and scope, where it was bound, are history
  types,                  \* st->types: [tag, parts, args]; parts are type
                          \* indices, args the formals' variable indices
  scopes,                 \* st->scopes
  chain,                  \* st->chain: positions in scopes, innermost last
  phase,                  \* "ready"; "error": span_err has exited;
                          \* "crash": an index of -1 was dereferenced;
                          \* "undefined": a freed name was used
  declared                \* history: the indices the latest declaration
                          \* gave to names

stab == <<vars, types, scopes, chain, phase, declared>>

Entry(tag, parts, args) == [tag |-> tag, parts |-> parts, args |-> args]
EmptyScope == [k \in Kind |-> [n \in Name |-> NONE]]
Innermost == chain[Len(chain)]

(* A faulty variant, to see ImplementsShadowStacks fail: outermost first. *)
ResolveOutermost(ch, kind, n) ==
  LET hits == {i \in DOMAIN ch : scopes[ch[i]][kind][n] # NONE}
  IN  IF hits = {} THEN NONE
      ELSE scopes[ch[CHOOSE i \in hits : \A j \in hits : i <= j]][kind][n]

(* stab_resolve_*: LFOREACHREV over the chain, skipping tables that answer *)
(* -1.                                                                     *)
ResolveIn(ch, kind, n) ==
  LET hits == {i \in DOMAIN ch : scopes[ch[i]][kind][n] # NONE}
  IN  IF hits = {} THEN NONE
      ELSE scopes[ch[CHOOSE i \in hits : \A j \in hits : j <= i]][kind][n]

Resolve(kind, n) == ResolveIn(chain, kind, n)

(* stab_has_local_* *)
HasLocal(kind, n) == scopes[Innermost][kind][n] # NONE

-----------------------------------------------------------------------------
(* Basic type expressions, and stab_resolve_type on them: an unknown name  *)
(* gives -1, which nobody checks.                                          *)
Basic == [tag : {"integer"}] \cup [tag : {"ref"}, name : Name]
Result == Basic \cup [tag : {"void"}]

ResolveBasic(ty) ==
  IF ty.tag = "ref" THEN Resolve("types", ty.name)
  ELSE (CHOOSE i \in DOMAIN Builtin : Builtin[i] = ty.tag) - 1

(* Type expressions.  A function's formals are a sequence of names, all of *)
(* the type `of`; `ret` is its result ("void" for a procedure).            *)
Constructed == [tag : Constructors, of : Basic]
TypeExpr == Basic \cup Constructed

Names == UNION {[1..n -> Name] : n \in 1..MaxNames}
(* To keep the inputs few, a result other than void has the formals' type. *)
Signature == {sig \in [names : Names \cup {<<>>}, of : Basic, ret : Result] :
                sig.ret.tag = "void" \/ sig.ret = sig.of}

(* An array reads the size of its element type: with an unknown element    *)
(* that is a read at index -1.                                             *)
ReadsUnknown(ty) == ty.tag = "array" /\ ResolveBasic(ty.of) = NONE

(* A faulty variant, to see TypesAcyclic fail: a type made of itself. *)
ResolveTypeSelf(ty) ==
  IF ty \in Basic THEN [id |-> ResolveBasic(ty), types |-> types]
  ELSE [id |-> Len(types), types |-> Append(types, Entry(ty.tag, <<Len(types)>>, <<>>))]

(* stab_resolve_type: the index, and the arena with the new entry, if any. *)
ResolveType(ty) ==
  IF ty \in Basic THEN [id |-> ResolveBasic(ty), types |-> types]
  ELSE [id |-> Len(types),
        types |-> Append(types, Entry(ty.tag, <<ResolveBasic(ty.of)>>, <<>>))]

-----------------------------------------------------------------------------
(* The entries stab_add_var pushes for a list of names, and the table      *)
(* hash_insert leaves: of a name given twice, the last entry wins.         *)
NewVars(names, type, by) ==
  [i \in DOMAIN names |->
     [name |-> names[i], type |-> type, by |-> by, scope |-> Innermost]]

IsLast(names, i) == \A j \in DOMAIN names : names[j] = names[i] => j <= i

(* A faulty variant, to see TablesName fail: the index after the entry. *)
BoundToNext(names) ==
  [n \in Name |->
     IF \E i \in DOMAIN names : names[i] = n
       THEN Len(vars) + CHOOSE i \in DOMAIN names : names[i] = n /\ IsLast(names, i)
       ELSE NONE]

BoundTo(names) ==
  [n \in Name |->
     IF \E i \in DOMAIN names : names[i] = n
       THEN Len(vars) - 1 + CHOOSE i \in DOMAIN names : names[i] = n /\ IsLast(names, i)
       ELSE NONE]

One(n, id) == [m \in Name |-> IF m = n THEN id ELSE NONE]

Injective(names) == \A i, j \in DOMAIN names : names[i] = names[j] => i = j

(* What a declaration does to the innermost scope: `new` gives the names   *)
(* it binds, and NONE for the others.                                      *)
Bind(new) ==
  /\ scopes' = [scopes EXCEPT ![Innermost] =
                  [k \in Kind |-> [n \in Name |->
                    IF new[k][n] = NONE THEN @[k][n] ELSE new[k][n]]]]
  /\ declared' = new

HasRoom(nvars, ntypes) ==
  /\ phase = "ready"
  /\ Len(vars) + nvars <= MaxVars
  /\ Len(types) + ntypes <= MaxTypes

(* stab_new, then the stab_enter of the global scope. *)
Init ==
  /\ vars = <<>>
  /\ types = [i \in DOMAIN Builtin |-> Entry(Builtin[i], <<>>, <<>>)]
  /\ scopes = <<EmptyScope>>
  /\ chain = <<1>>
  /\ phase = "ready"
  /\ declared = EmptyScope

(* A faulty variant, to see ChainNested fail: the scope at the wrong end. *)
EnterInFront ==
  /\ phase = "ready" /\ Len(scopes) < MaxScopes
  /\ scopes' = Append(scopes, EmptyScope)
  /\ chain' = <<Len(scopes) + 1>> \o chain
  /\ declared' = EmptyScope
  /\ UNCHANGED <<vars, types, phase>>

(* stab_enter *)
Enter ==
  /\ phase = "ready" /\ Len(scopes) < MaxScopes
  /\ scopes' = Append(scopes, EmptyScope)
  /\ chain' = Append(chain, Len(scopes) + 1)
  /\ declared' = EmptyScope
  /\ UNCHANGED <<vars, types, phase>>

(* A faulty variant, to see TypeOK fail: the global scope closed, too. *)
LeaveGlobal ==
  /\ phase = "ready" /\ Len(chain) > 0
  /\ chain' = SubSeq(chain, 1, Len(chain) - 1)
  /\ declared' = EmptyScope
  /\ UNCHANGED <<vars, types, scopes, phase>>

(* stab_leave, called once for each stab_enter but the global one. *)
Leave ==
  /\ phase = "ready" /\ Len(chain) > 1
  /\ chain' = SubSeq(chain, 1, Len(chain) - 1)
  /\ declared' = EmptyScope
  /\ UNCHANGED <<vars, types, scopes, phase>>

(* stab_add_decls: a name already local is an error ... *)
AddDeclsFails(names, ty) ==
  /\ HasRoom(Len(names), 1)
  /\ ~ReadsUnknown(ty) /\ ResolveType(ty).id # NONE
  /\ ~Injective(names) \/ \E i \in DOMAIN names : HasLocal("vars", names[i])
  /\ phase' = "error"
  /\ UNCHANGED <<vars, types, scopes, chain, declared>>

(* A faulty variant, to see DeclaredStays fail: no look at the table. *)
AddDeclsUnchecked(names, ty) ==
  LET r == ResolveType(ty) IN
  /\ HasRoom(Len(names), 1)
  /\ ~ReadsUnknown(ty) /\ r.id # NONE
  /\ types' = r.types
  /\ vars' = vars \o NewVars(names, r.id, "decls")
  /\ Bind([EmptyScope EXCEPT !["vars"] = BoundTo(names)])
  /\ UNCHANGED <<chain, phase>>

(* ... otherwise one variable for each name, all of the type resolved once.*)
AddDecls(names, ty) ==
  LET r == ResolveType(ty) IN
  /\ HasRoom(Len(names), 1)
  /\ ~ReadsUnknown(ty) /\ r.id # NONE
  /\ Injective(names)
  /\ \A i \in DOMAIN names : ~HasLocal("vars", names[i])
  /\ types' = r.types
  /\ vars' = vars \o NewVars(names, r.id, "decls")
  /\ Bind([EmptyScope EXCEPT !["vars"] = BoundTo(names)])
  /\ UNCHANGED <<chain, phase>>

(* stab_add_var for the return slot: nothing looks whether the name is     *)
(* already local.                                                          *)
AddRetslot(n, ty) ==
  /\ HasRoom(1, 0) /\ Len(chain) > 1
  /\ ResolveBasic(ty) # NONE
  /\ vars' = vars \o NewVars(<<n>>, ResolveBasic(ty), "retslot")
  /\ Bind([EmptyScope EXCEPT !["vars"] = BoundTo(<<n>>)])
  /\ UNCHANGED <<types, chain, phase>>

(* A variable of unknown type: stab_add_var reads the size at index -1. *)
AddUnknown(ty) ==
  /\ HasRoom(1, 1)
  /\ IF ty \in Basic THEN ResolveBasic(ty) = NONE ELSE ReadsUnknown(ty)
  /\ phase' = "crash"
  /\ UNCHANGED <<vars, types, scopes, chain, declared>>

(* stab_add_type of a type with a constructor, whose entry keeps the name. *)
AddType(n, ty) ==
  LET r == ResolveType(ty) IN
  /\ HasRoom(0, 1)
  /\ ~HasLocal("types", n)
  /\ ty \notin Basic /\ ~ReadsUnknown(ty)
  /\ types' = r.types
  /\ Bind([EmptyScope EXCEPT !["types"] = One(n, r.id)])
  /\ UNCHANGED <<vars, chain, phase>>

(* stab_add_type of a builtin type or a reference, known or not:           *)
(* stab_resolve_type frees the name, which is then hashed and stored as    *)
(* the key.  What that does is undefined; the debug build stops here.      *)
AddFreedName(n, ty) ==
  /\ HasRoom(0, 1)
  /\ ~HasLocal("types", n)
  /\ ty \in Basic
  /\ phase' = "undefined"
  /\ UNCHANGED <<vars, types, scopes, chain, declared>>

(* stab_add_func: stab_resolve_complex_type resolves the result type, then *)
(* makes a variable in the current scope for every formal, and only then   *)
(* an entry for the function.                                              *)
AddFunc(n, sig) ==
  LET formals == [i \in DOMAIN sig.names |-> Len(vars) - 1 + i] IN
  /\ HasRoom(Len(sig.names), 1)
  /\ ~HasLocal("funcs", n)
  /\ vars' = vars \o NewVars(sig.names, ResolveBasic(sig.of), "signature")
  /\ types' = Append(types, Entry("function", <<ResolveBasic(sig.ret)>>, formals))
  /\ Bind([EmptyScope EXCEPT !["vars"] = BoundTo(sig.names),
                             !["funcs"] = One(n, Len(types))])
  /\ UNCHANGED <<chain, phase>>

(* stab_add_type and stab_add_func on a name already local. *)
Redeclared(n) ==
  /\ phase = "ready"
  /\ HasLocal("types", n) \/ HasLocal("funcs", n)
  /\ phase' = "error"
  /\ UNCHANGED <<vars, types, scopes, chain, declared>>

(* stab_add_magic_func, called while only the global scope is open: the    *)
(* name is bound whether or not it was.                                    *)
AddMagic(n) ==
  /\ HasRoom(0, 1) /\ Len(chain) = 1
  /\ types' = Append(types, Entry("function", <<>>, <<>>))
  /\ Bind([EmptyScope EXCEPT !["funcs"] = One(n, Len(types))])
  /\ UNCHANGED <<vars, chain, phase>>

Next ==
  \/ Enter
  \/ Leave
  \/ \E names \in Names, ty \in TypeExpr :
       AddDecls(names, ty) \/ AddDeclsFails(names, ty)
  \/ \E n \in Name, ty \in Result : AddRetslot(n, ty)
  \/ \E ty \in TypeExpr : AddUnknown(ty)
  \/ \E n \in Name, ty \in TypeExpr : AddType(n, ty) \/ AddFreedName(n, ty)
  \/ \E n \in Name, sig \in Signature : AddFunc(n, sig)
  \/ \E n \in Name : Redeclared(n)
  \/ \E n \in Magic : AddMagic(n)

Spec == Init /\ [][Next]_stab

-----------------------------------------------------------------------------
Index(arena) == 0..(Len(arena) - 1)

TypeOK ==
  /\ vars \in Seq([name : Name, type : Index(types) \cup {NONE}, by : Maker, scope : Nat])
  /\ \A i \in DOMAIN types :
       /\ types[i].tag \in {"pointer", "array", "record", "function"} \cup
                            {Builtin[j] : j \in DOMAIN Builtin}
       /\ \A j \in DOMAIN types[i].parts : types[i].parts[j] \in Index(types) \cup {NONE}
       /\ \A j \in DOMAIN types[i].args : types[i].args[j] \in Index(vars)
  /\ scopes \in Seq([Kind -> [Name -> Nat \cup {NONE}]])
  /\ chain \in Seq(DOMAIN scopes) /\ chain # <<>>
  /\ phase \in {"ready", "error", "crash", "undefined"}

(* Whatever a table of any scope, open or closed, says of a name is an     *)
(* index into the right arena of an entry made for it: the variable has    *)
(* that name, a function's entry is a function, a type's is not.           *)
TablesName ==
  \A s \in DOMAIN scopes : \A n \in Name :
    LET v == scopes[s]["vars"][n]
        f == scopes[s]["funcs"][n]
        t == scopes[s]["types"][n]
    IN  /\ v # NONE => v \in Index(vars) /\ vars[v + 1].name = n
        /\ f # NONE => f \in Index(types) /\ types[f + 1].tag = "function"
        /\ t # NONE => t \in Index(types) /\ types[t + 1].tag # "function"

(* A type is built from earlier entries only, so the recursion of          *)
(* stab_types_eq through pointers ends; and a function's formals are       *)
(* entries of the variable arena made for a signature.                     *)
TypesAcyclic ==
  \A i \in DOMAIN types :
    /\ \A j \in DOMAIN types[i].parts : types[i].parts[j] < i - 1
    /\ \A j \in DOMAIN types[i].args : vars[types[i].args[j] + 1].by = "signature"

(* The chain opens scopes in the order they were made, outermost first,    *)
(* and the global scope is never closed.                                   *)
ChainNested ==
  /\ chain[1] = 1
  /\ \A i, j \in DOMAIN chain : i < j => chain[i] < chain[j]

(* A declared variable is never lost to another declaration: the table of  *)
(* the scope it was declared in says its name for ever, unless a formal of *)
(* a signature (symbol.c:254) or the return slot of a function             *)
(* (analysis.c:698), which stab_add_var enters unasked, has taken the name *)
(* in that scope since.                                                    *)
DeclaredStays ==
  \A i \in DOMAIN vars :
    LET v == vars[i] IN
    v.by = "decls" =>
      \/ scopes[v.scope]["vars"][v.name] = i - 1
      \/ \E j \in DOMAIN vars :
           /\ j > i /\ vars[j].by # "decls"
           /\ vars[j].name = v.name /\ vars[j].scope = v.scope

(* Names are resolved as by block structure, up to a declaration that      *)
(* stops the compiler or, giving a name to a builtin type or a reference,  *)
(* has no defined effect.                                                  *)
Abstract == INSTANCE ShadowStacks WITH
  Id <- Nat,
  envs <- [i \in DOMAIN chain |->
            [k \in Kind |-> [n \in Name |-> ResolveIn(SubSeq(chain, 1, i), k, n)]]]

ImplementsShadowStacks == Abstract!Spec

(* README.md, rule 1.5: "Local objects cease to exist once their scopes    *)
(* cease to exist".  A formal belongs to its subprogram, so the entry made *)
(* for it in the signature is not what any name resolves to.               *)
FormalsStayInside ==
  \A n \in Name : Resolve("vars", n) # NONE => vars[Resolve("vars", n) + 1].by # "signature"

(* README.md: "Semantic errors cause an abort after printing the message". *)
(* Using a type that was never declared is one.                            *)
UnknownTypeReported == phase # "crash"
=============================================================================
