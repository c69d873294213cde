---------------------------- MODULE Subprograms -----------------------------
(***************************************************************************)
(* analyze and analyze_subprog of analysis.c: the context saved around a   *)
(* subprogram, the scopes its names live in, the rules on assignments in   *)
(* functions (check_assignability), the display through which variables of *)
(* enclosing blocks are reached, the offsets of variables in a frame, and  *)
(* the labels of the text, and the words a subprogram's text leaves on the *)
(* stack.  The program is chosen as the analysis goes.                     *)
(*                                                                         *)
(* Block 1 is the program, the others are its subprograms in the order in  *)
(* which they are met.  Every variable is an integer: one word of 8 bytes. *)
(***************************************************************************)
EXTENDS Integers, Sequences, FiniteSets

CONSTANTS
  Name,                       \* identifiers
  FirstBucket, LastBucket,    \* those in the first and the last bucket of a
                              \* scope's hash table
  Reserved,                   \* those whose labels the first lines of the
                              \* text have: display, write_integer, ...
  NONE,                       \* RESOLVE_FAILURE, or no name
  Saved,                      \* registers a caller saves: 6 of the 14
  MaxBlocks, MaxStatements,   \* bounds: blocks, statements
  MaxFormals, MaxVars         \* bounds: formals of a subprogram, variables

ASSUME SubprogramsAssumption ==
  /\ FirstBucket \subseteq Name /\ LastBucket \subseteq Name /\ Reserved \subseteq Name
  /\ NONE \notin Name /\ NONE \notin Nat
  /\ {Saved, MaxBlocks, MaxStatements, MaxFormals, MaxVars} \subseteq Nat

VARIABLES
  acx,                        \* the context: current function, whether its
                              \* name was assigned, next label, next slot of
                              \* the display, whether in the program's body
  open,                       \* the calls of analyze_subprog under way: the
                              \* block and the context each saved
  chain,                      \* the scopes of the symbol table, by block
  vars,                       \* stab_var by number
  blocks,                     \* what is known of each block (history too)
  text,                       \* labels of the text: the last global one, all
                              \* of them, and whether one was put twice
  statements,
  phase                       \* "run", "done", or "error": span_err

sub == <<acx, open, chain, vars, blocks, text, statements, phase>>

Current == open[Len(open)].block
Innermost == chain[Len(chain)]
HasLocal(x) == Innermost.vars[x] # NONE
At(stage) == phase = "run" /\ blocks[Current].stage = stage

(* stab_resolve_var finds v. *)
Resolves(x, v) ==
  \E i \in DOMAIN chain :
    /\ chain[i].vars[x] = v
    /\ \A j \in (i + 1)..Len(chain) : chain[j].vars[x] = NONE
Unknown(x) == \A i \in DOMAIN chain : chain[i].vars[x] = NONE

Scope(block, loop) == [block |-> block, loop |-> loop, vars |-> [x \in Name |-> NONE]]

(* struct stab_var; lost is history: why no prologue puts the variable     *)
(* into the display.                                                       *)
Var(owner, name, role, offset) ==
  [owner |-> owner, name |-> name, role |-> role, offset |-> offset,
   captured |-> FALSE, slot |-> -1, lost |-> {}]

(* A block: words counts what its text has pushed and not popped; loops and *)
(* left are history: the FORs, and the other reasons why words are left.   *)
Block(name, kind, outer, formals, groups) ==
  [name |-> name, kind |-> kind, outer |-> outer, stage |-> "decls", formals |-> formals,
   groups |-> groups, locals |-> 0, funcs |-> {}, nested |-> FALSE, fills |-> {},
   pushed |-> 0, words |-> 0, loops |-> 0, left |-> {}, written |-> {}]

Context(name, kind) ==
  [name |-> name, kind |-> kind, assigned |-> FALSE, label |-> 0, disp |-> 0,
   toplevel |-> FALSE]

(* A label put into the text.  A local one belongs to the global one       *)
(* before it.                                                              *)
Global(t, name) ==
  [here |-> name, labels |-> t.labels \cup {<<name, -1>>},
   clash |-> t.clash \/ <<name, -1>> \in t.labels]
Local(t, n) ==
  [t EXCEPT !.labels = @ \cup {<<t.here, n>>}, !.clash = @ \/ <<t.here, n>> \in t.labels]

-----------------------------------------------------------------------------
NoContext == Context(NONE, "procedure")

(* The first lines: the display and the functions of the runtime used.     *)
NoText == [here |-> NONE, labels |-> {<<name, -1>> : name \in Reserved}, clash |-> FALSE]

Init ==
  /\ acx = NoContext
  /\ open = <<[block |-> 1, saved |-> NoContext]>>
  /\ chain = <<Scope(1, FALSE)>>
  /\ vars = <<>>
  /\ blocks = <<Block(NONE, "procedure", 0, 0, 0)>>
  /\ text = NoText
  /\ statements = 0
  /\ phase = "run"

(* stab_add_decls: a variable of the block *)
AddLocal(x) ==
  /\ At("decls") /\ Len(vars) < MaxVars
  /\ ~HasLocal(x)
  /\ vars' = Append(vars, Var(Current, x, "local", blocks[Current].locals))
  /\ chain' = [chain EXCEPT ![Len(chain)].vars[x] = Len(vars) + 1]
  /\ blocks' = [blocks EXCEPT ![Current].locals = @ + 1]
  /\ UNCHANGED <<acx, open, text, statements, phase>>

(* The end of the declarations.  A subprogram adds its return slot, which  *)
(* replaces a variable of the same name.                                   *)
EndDecls ==
  /\ At("decls")
  /\ blocks' = [blocks EXCEPT ![Current].stage = "subs"]
  /\ IF Current = 1
       THEN UNCHANGED <<vars, chain>>
       ELSE /\ vars' = Append(vars, Var(Current, acx.name, "retslot", blocks[Current].locals))
            /\ chain' = [chain EXCEPT ![Len(chain)].vars[acx.name] = Len(vars) + 1]
  /\ UNCHANGED <<acx, open, text, statements, phase>>

(* The formals of a subprogram: distinct names, declared in groups. *)
Formals ==
  {s \in UNION {[1..n -> Name] : n \in 0..MaxFormals} :
     \A i, j \in DOMAIN s : s[i] = s[j] => i = j}

(* A faulty variant, to see OffsetsDistinct fail: one word too low. *)
FormalOffsetLow(groups, i) == groups + 1 - i

(* Their offset in the frame: the count of groups plus one, going down. *)
FormalOffset(groups, i) == groups + 2 - i

(* stab_add_func enters the formals into the scope around the subprogram,  *)
(* without an offset, in place of what has their names; analyze_subprog    *)
(* saves the context, starts a new one, puts the label, enters a scope and *)
(* adds the formals to it.                                                 *)
BeginSubprogram(f, kind, formals, groups) ==
  LET n == Len(formals)
      new == Len(blocks) + 1
      index(x) == CHOOSE i \in 1..n : formals[i] = x
      bound == {formals[i] : i \in 1..n}
      hidden == {Innermost.vars[x] : x \in bound}
  IN
  /\ At("subs") /\ Len(blocks) < MaxBlocks /\ Len(vars) + 2 * n < MaxVars
  /\ f \notin blocks[Current].funcs
  /\ vars' = [v \in DOMAIN vars |-> IF v \in hidden THEN [vars[v] EXCEPT !.lost = @ \cup {"hidden"}]
                                    ELSE vars[v]]
             \o [i \in 1..n |-> Var(Current, formals[i], "leaked", -1)]
             \o [i \in 1..n |-> Var(new, formals[i], "formal", FormalOffset(groups, i))]
  /\ chain' = Append([chain EXCEPT ![Len(chain)].vars =
                        [x \in Name |-> IF x \in bound THEN Len(vars) + index(x) ELSE @[x]]],
                     [Scope(new, FALSE) EXCEPT !.vars =
                        [x \in Name |-> IF x \in bound THEN Len(vars) + n + index(x) ELSE NONE]])
  /\ blocks' = Append([blocks EXCEPT ![Current].funcs = @ \cup {f},
                                     ![Current].nested = Current # 1],
                      Block(f, kind, Current, n, groups))
  /\ open' = Append(open, [block |-> new, saved |-> acx])
  /\ acx' = [acx EXCEPT !.name = f, !.kind = kind, !.assigned = FALSE, !.label = 0]
  /\ text' = Global(text, f)
  /\ UNCHANGED <<statements, phase>>

(* The prologue: HFOREACH over the scope's variables misses the last       *)
(* bucket and visits the first one twice.  The captured ones enter the     *)
(* display; a subprogram pushes what was there.  (FillsLocals and FillsAll *)
(* are faulty variants, to see DisplayFilled and ReturnsToCaller fail.)    *)
FillsLocals ==
  {v \in {Innermost.vars[x] : x \in Name \ LastBucket} \ {NONE} :
     vars[v].captured /\ vars[v].role = "local"}
FillsAll == {Innermost.vars[x] : x \in Name \ LastBucket} \ {NONE}
Fills == {v \in {Innermost.vars[x] : x \in Name \ LastBucket} \ {NONE} : vars[v].captured}
Pushes == Cardinality(Fills) + Cardinality({v \in Fills : vars[v].name \in FirstBucket})

Prologue ==
  /\ At("subs")
  /\ blocks' = [blocks EXCEPT ![Current].stage = "body", ![Current].fills = Fills,
                              ![Current].pushed = IF Current = 1 THEN 0 ELSE Pushes,
                              ![Current].words = IF Current = 1 THEN 0 ELSE Pushes]
  /\ IF Current = 1
       THEN text' = Global(text, NONE) /\ acx' = [acx EXCEPT !.toplevel = TRUE]
       ELSE UNCHANGED <<text, acx>>
  /\ UNCHANGED <<open, chain, vars, statements, phase>>

-----------------------------------------------------------------------------
(* Statements, as far as they name variables and labels. *)

Statement == At("body") /\ statements < MaxStatements /\ statements' = statements + 1

(* type_of_path: a variable that is not in the innermost scope is reached  *)
(* through the display, and gets a slot in it when that happens first.     *)
(* (CapturesAgain and DispStays are faulty variants, to see SlotsStable    *)
(* and SlotsDistinct fail.)                                                *)
CapturesAgain(x, v) == ~HasLocal(x)
Captures(x, v) == ~HasLocal(x) /\ ~vars[v].captured
Capture(v) ==
  [vars EXCEPT ![v].captured = TRUE, ![v].slot = acx.disp,
               ![v].lost = @ \cup (IF vars[v].owner = Current THEN {"loop"} ELSE {})]
Seen(x, v) == vars' = IF Captures(x, v) THEN Capture(v) ELSE vars
DispStays(x, v) == acx.disp
Disp(x, v) == IF Captures(x, v) THEN acx.disp + 1 ELSE acx.disp

(* Words the text leaves on the stack, or takes from it *)
Leave(block, net, why) ==
  [block EXCEPT !.words = @ + net, !.left = IF net = 0 THEN @ ELSE @ \cup {why}]

(* A register that is never given back: when all were in use, the one      *)
(* reg_gimme took was pushed, and the word stays.                          *)
KeepRegister(block) == {Leave(block, word, "spill") : word \in {0, 1}}

(* A variable or an element of it, in an expression or given to read or    *)
(* readln; or an element that is assigned to, and then Assign follows.     *)
(* EXPR_IDX does not give the register of the path back.                   *)
Use(x) ==
  /\ Statement
  /\ \E v \in DOMAIN vars :
       Resolves(x, v) /\ Seen(x, v) /\ acx' = [acx EXCEPT !.disp = Disp(x, v)]
  /\ \E block \in KeepRegister(blocks[Current]) : blocks' = [blocks EXCEPT ![Current] = block]
  /\ UNCHANGED <<open, chain, text, phase>>

(* stab_resolve_func finds block b: the function or procedure f. *)
Callable(f, b) ==
  /\ blocks[b].name = f
  /\ \E i \in DOMAIN open :
       /\ blocks[b].outer = open[i].block
       /\ \A j \in (i + 1)..Len(open) : f \notin blocks[open[j].block].funcs

(* What analyze_call leaves on the stack.  Without arguments it is nothing,*)
(* or the word of a result register that had to be pushed and is one of    *)
(* those saved.  Of n arguments, rbp and the return slot two words are     *)
(* popped; the registers of the arguments, never given back, may each have *)
(* been pushed; and restore_registers_except pops every saved register that*)
(* came into use since save_registers, which did not push it.              *)
CallLeaves(n) == IF n = 0 THEN {0, 1} ELSE (n - 1 - Saved)..(2 * n)

(* A call, as a statement or in an expression, after its arguments *)
Call(f) ==
  /\ Statement
  /\ \E b \in DOMAIN blocks :
       /\ Callable(f, b)
       /\ \E net \in CallLeaves(blocks[b].formals) :
            blocks' = [blocks EXCEPT ![Current] =
                         Leave(@, net, IF blocks[b].formals = 0 THEN "spill" ELSE "arguments")]
  /\ UNCHANGED <<acx, open, chain, vars, text, phase>>

(* A faulty variant, to see RuleNonlocal fail: any variable goes. *)
AssignableAnywhere(x, pointer) == acx.toplevel \/ acx.kind # "function" \/ ~pointer

(* check_assignability: in a function only what is local to the innermost  *)
(* scope.  Of an assignment through a pointer it looks at a name that no   *)
(* variable has.                                                           *)
Assignable(x, pointer) ==
  acx.toplevel \/ acx.kind # "function" \/ (HasLocal(x) /\ ~pointer)

(* STMT_ASSIGN to x or to an element of x, or through the pointer x *)
Assign(x, pointer) ==
  /\ Statement
  /\ Assignable(x, pointer)
  /\ \E v \in DOMAIN vars :
       /\ Resolves(x, v) /\ Seen(x, v)
       /\ acx' = [acx EXCEPT !.disp = Disp(x, v),
                             !.assigned = @ \/ (~acx.toplevel /\ x = acx.name)]
       /\ blocks' = IF pointer THEN blocks ELSE [blocks EXCEPT ![Current].written = @ \cup {v}]
  /\ UNCHANGED <<open, chain, text, phase>>

(* STMT_FOR: the counter stays on the stack, the body has a scope, and the *)
(* register of the counter's address is not given back.                    *)
BeginFor(x) ==
  /\ Statement
  /\ \E v \in DOMAIN vars :
       /\ Resolves(x, v) /\ Seen(x, v)
       /\ acx' = [acx EXCEPT !.disp = Disp(x, v), !.label = @ + 2]
  /\ chain' = Append(chain, Scope(Current, TRUE))
  /\ text' = Local(Local(text, acx.label), acx.label + 1)
  /\ \E block \in KeepRegister(blocks[Current]) :
       blocks' = [blocks EXCEPT ![Current] = [block EXCEPT !.words = @ + 1, !.loops = @ + 1]]
  /\ UNCHANGED <<open, phase>>

(* A faulty variant, to see TypeOK fail: two scopes are left. *)
EndForTwice ==
  /\ At("body") /\ Innermost.loop
  /\ chain' = SubSeq(chain, 1, Len(chain) - 2)
  /\ UNCHANGED <<acx, open, vars, blocks, text, statements, phase>>

EndFor ==
  /\ At("body") /\ Innermost.loop
  /\ chain' = SubSeq(chain, 1, Len(chain) - 1)
  /\ UNCHANGED <<acx, open, vars, blocks, text, statements, phase>>

(* A faulty variant, to see Assembles fail: the counter goes up by one. *)
BranchOnce ==
  /\ Statement
  /\ text' = Local(Local(text, acx.label), acx.label + 1)
  /\ acx' = [acx EXCEPT !.label = @ + 1]
  /\ UNCHANGED <<open, chain, vars, blocks, phase>>

(* STMT_ITE, STMT_WDO: two labels *)
Branch ==
  /\ Statement
  /\ text' = Local(Local(text, acx.label), acx.label + 1)
  /\ acx' = [acx EXCEPT !.label = @ + 2]
  /\ UNCHANGED <<open, chain, vars, blocks, phase>>

-----------------------------------------------------------------------------
(* A faulty variant, to see RuleReturn fail: ret_assigned is not restored. *)
EndSubprogramKeepsAssigned ==
  /\ At("body") /\ Current # 1 /\ ~Innermost.loop
  /\ acx.kind = "function" => acx.assigned
  /\ blocks' = [blocks EXCEPT ![Current].stage = "done",
                              ![Current].words = IF blocks[Current].pushed = 0 THEN @
                                                 ELSE @ - (blocks[Current].pushed - 1)]
  /\ chain' = SubSeq(chain, 1, Len(chain) - 1)
  /\ acx' = [open[Len(open)].saved EXCEPT !.disp = acx.disp, !.assigned = acx.assigned]
  /\ open' = SubSeq(open, 1, Len(open) - 1)
  /\ UNCHANGED <<vars, text, statements, phase>>

(* The epilogue: of what the prologue pushed all but the first is popped.  *)
(* Then the context of the enclosing block comes back, but for the display.*)
EndSubprogram ==
  /\ At("body") /\ Current # 1 /\ ~Innermost.loop
  /\ acx.kind = "function" => acx.assigned
  /\ blocks' = [blocks EXCEPT ![Current].stage = "done",
                              ![Current].words = IF blocks[Current].pushed = 0 THEN @
                                                 ELSE @ - (blocks[Current].pushed - 1)]
  /\ chain' = SubSeq(chain, 1, Len(chain) - 1)
  /\ acx' = [open[Len(open)].saved EXCEPT !.disp = acx.disp]
  /\ open' = SubSeq(open, 1, Len(open) - 1)
  /\ UNCHANGED <<vars, text, statements, phase>>

EndProgram ==
  /\ At("body") /\ Current = 1 /\ ~Innermost.loop
  /\ phase' = "done"
  /\ UNCHANGED <<acx, open, chain, vars, blocks, text, statements>>

(* span_err: a variable, a formal or a subprogram declared twice, an       *)
(* unknown variable or subprogram, an assignment a function may not make, a *)
(* function whose name is not assigned.  (Errors of types and of the number *)
(* of arguments come at the same places.)  The process ends, and nothing is*)
(* kept.                                                                   *)
Reject ==
  /\ \/ At("decls") /\ \E x \in Name : HasLocal(x)
     \/ At("subs")
     \/ At("body") /\ \E x \in Name : Unknown(x) \/ \A b \in DOMAIN blocks : ~Callable(x, b)
     \/ At("body") /\ \E x \in Name, pointer \in BOOLEAN : ~Assignable(x, pointer)
     \/ At("body") /\ ~Innermost.loop /\ acx.kind = "function" /\ ~acx.assigned
  /\ phase' = "error"
  /\ acx' = NoContext /\ open' = <<[block |-> 1, saved |-> NoContext]>>
  /\ chain' = <<Scope(1, FALSE)>> /\ vars' = <<>>
  /\ blocks' = <<Block(NONE, "procedure", 0, 0, 0)>> /\ text' = NoText /\ statements' = 0

Next ==
  \/ \E x \in Name : AddLocal(x)
  \/ EndDecls
  \/ \E f \in Name, kind \in {"procedure", "function"}, formals \in Formals :
       \E groups \in 0..Len(formals) :
         (groups = 0 <=> formals = <<>>) /\ BeginSubprogram(f, kind, formals, groups)
  \/ Prologue
  \/ \E x \in Name : Use(x) \/ Call(x) \/ BeginFor(x)
  \/ \E x \in Name, pointer \in BOOLEAN : Assign(x, pointer)
  \/ EndFor \/ Branch
  \/ EndSubprogram \/ EndProgram
  \/ Reject

Spec == Init /\ [][Next]_sub

-----------------------------------------------------------------------------
Role == {"local", "formal", "retslot", "leaked"}
Contexts ==
  [name : Name \cup {NONE}, kind : {"procedure", "function"}, assigned : BOOLEAN,
   label : Nat, disp : Nat, toplevel : BOOLEAN]
Variables ==
  [owner : Nat, name : Name, role : Role, offset : Int, captured : BOOLEAN,
   slot : Int, lost : SUBSET {"loop", "hidden"}]

TypeOK ==
  /\ acx \in Contexts
  /\ open \in Seq([block : 1..Len(blocks), saved : Contexts]) /\ open # <<>>
  /\ chain \in Seq([block : 1..Len(blocks), loop : BOOLEAN,
                    vars : [Name -> DOMAIN vars \cup {NONE}]]) /\ chain # <<>>
  /\ vars \in Seq(Variables)
  /\ blocks \in Seq([name : Name \cup {NONE}, kind : {"procedure", "function"}, outer : Nat,
                     stage : {"decls", "subs", "body", "done"}, formals : Nat, groups : Nat,
                     locals : Nat, funcs : SUBSET Name, nested : BOOLEAN,
                     fills : SUBSET DOMAIN vars, pushed : Nat, words : Int, loops : Nat,
                     left : SUBSET {"arguments", "spill"}, written : SUBSET DOMAIN vars])
  /\ text \in [here : Name \cup {NONE}, labels : SUBSET ((Name \cup {NONE}) \X Int),
               clash : BOOLEAN]
  /\ statements \in Nat
  /\ phase \in {"run", "done", "error"}

HasCaptured(b) == \E v \in DOMAIN vars : vars[v].owner = b /\ vars[v].captured
HasRole(v, b, role) == vars[v].owner = b /\ vars[v].role = role

(* src/dragon/README.md, rule 5.2: "Function must contain a "return"       *)
(* statement within its own body".  The body of a function analyze_subprog *)
(* accepts assigns the function's return slot, whatever subprograms inside *)
(* it assign, unless a subprogram inside it has a formal of its name,      *)
(* which stab_add_func puts in place of the return slot.                   *)
RuleReturn ==
  \A b \in DOMAIN blocks : blocks[b].kind = "function" /\ blocks[b].stage = "done" =>
    \/ \E v \in blocks[b].written : HasRole(v, b, "retslot")
    \/ \E v \in DOMAIN vars : HasRole(v, b, "leaked") /\ vars[v].name = blocks[b].name

(* src/dragon/README.md, rule 5.4: "Functions are not allowed to update    *)
(* the value of nonlocal objects (via assignment statements)".  Every      *)
(* variable a function's body assigns is in its own scope, after the       *)
(* context came back from a procedure inside it (check_assignability).     *)
RuleNonlocal ==
  \A b \in DOMAIN blocks : blocks[b].kind = "function" =>
    \A v \in blocks[b].written : vars[v].owner = b

(* No two captured variables, of whatever blocks, share a slot of the      *)
(* display, and every slot lies below the counter acx->disp_offset, which  *)
(* no subprogram resets (type_of_path).                                    *)
SlotsDistinct ==
  \A v \in DOMAIN vars : vars[v].captured =>
    /\ vars[v].slot \in 0..(acx.disp - 1)
    /\ \A w \in DOMAIN vars : vars[w].captured /\ vars[w].slot = vars[v].slot => w = v

(* A variable keeps the slot it got when it was captured, so instructions  *)
(* emitted before agree with the prologue emitted later (type_of_path,     *)
(* analyze_subprog).                                                       *)
SlotsStable ==
  [][phase' # "error" => \A v \in DOMAIN vars : vars[v].captured =>
       v \in DOMAIN vars' /\ vars'[v].captured /\ vars'[v].slot = vars[v].slot]_sub

(* In the text of an accepted program, a variable that is reached through  *)
(* the display is entered there by the prologue of its block.  The         *)
(* exceptions: it is first reached from a FOR of its own block, after the  *)
(* prologue; a formal of another subprogram took its place in the scope;   *)
(* it is such a formal, which has no place in the frame; HFOREACH misses   *)
(* its bucket.                                                             *)
DisplayFilled ==
  phase = "done" => \A v \in DOMAIN vars : vars[v].captured =>
    \/ v \in blocks[vars[v].owner].fills
    \/ vars[v].lost # {} \/ vars[v].role = "leaked" \/ vars[v].name \in LastBucket

(* The variables, the formals and the return slot of a block have offsets  *)
(* of their own as long as there are no formals, or formals and variables  *)
(* together do not outnumber the groups of formals by more than one; with  *)
(* two variables and a formal they overlap (analyze_subprog,               *)
(* stab_add_var).                                                          *)
OffsetsDistinct ==
  \A v, w \in DOMAIN vars :
    LET b == blocks[vars[v].owner] IN
    /\ b.formals = 0 \/ b.formals + b.locals <= b.groups + 1
    /\ vars[v].owner = vars[w].owner /\ "leaked" \notin {vars[v].role, vars[w].role}
    /\ vars[v].offset = vars[w].offset
    => v = w

(* In a program whose subprograms contain no subprograms no prologue of a  *)
(* subprogram saves a display entry, by an instruction no assembler takes, *)
(* and no label appears twice, global or local to one (acx->label), unless *)
(* a subprogram has the name of a label of the first lines: display,       *)
(* write_integer or write_newline.                                         *)
Assembles ==
  (\A b \in DOMAIN blocks : ~blocks[b].nested) =>
    /\ text.clash => \E b \in DOMAIN blocks : blocks[b].name \in Reserved
    /\ \A b \in DOMAIN blocks \ {1} : blocks[b].fills = {}

(* At its ret a subprogram finds the stack as its prologue did, unless     *)
(*   - a FOR left its counter there;                                       *)
(*   - a call with arguments left words there, or took them (analyze_call);*)
(*   - the register of an element, of the address of a FOR's counter or of *)
(*     a result was pushed because all were in use, and stayed;            *)
(*   - variables of it are captured: the loop that restores the display    *)
(*     stops before entry 0 (analyze_subprog).                             *)
(* What its callees do to the stack is their own affair.                   *)
ReturnsToCaller ==
  \A b \in DOMAIN blocks \ {1} : blocks[b].stage = "done" =>
    blocks[b].words = 0 \/ blocks[b].loops > 0 \/ blocks[b].left # {} \/ HasCaptured(b)
=============================================================================
