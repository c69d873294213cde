------------------------------ MODULE Codegen -------------------------------
(***************************************************************************)
(* Code generation in analysis.c: the register allocator (reg_gimme,       *)
(* reg_takeitback), the recursive analyze_expr, analyze_call and           *)
(* analyze_stmt that use it, and what the emitted instructions do.         *)
(*                                                                         *)
(* The syntax tree is chosen as the analysis goes: `todo` is the stack of  *)
(* pending work, the C call stack of the analysis.  The machine is         *)
(* symbolic: a register or a stack word holds the token i when it holds    *)
(* the value computed for held[i], and 0 when it holds nothing anyone      *)
(* waits for.  The emitted text is executed in order, through each branch  *)
(* and loop body once, with the tests of a loop repeated at its end; that  *)
(* stands for every path as long as a statement leaves registers and stack *)
(* as it found them (Balanced), and is one path of many otherwise.         *)
(***************************************************************************)
EXTENDS Integers, Sequences, FiniteSets

CONSTANTS
  Clobbers,               \* a callee overwrites the registers below one of
                          \* these numbers
  MaxHeld, MaxHeldLeaky,  \* bounds: operands alive at once, with at most
                          \* one register leaked and with more
  Shallow, MaxPending,    \* bounds: pending work beyond one per operand, with
                          \* fewer than Shallow operands; with more it is 4
  MaxCompares,            \* bound: comparisons begun
  MaxLeaks,               \* bound: registers nobody gives back
  MaxLoops                \* bound: FOR loops compiled

Reg == 0..13              \* NUM_REGS and REGS, of which these are special:
RCX == 1
R11 == 5
RDX == 10
RAX == 12
RDI == 13

ASSUME CodegenAssumption ==
  /\ Clobbers \subseteq 0..14
  /\ {MaxHeld, MaxHeldLeaky, Shallow, MaxPending, MaxCompares, MaxLeaks, MaxLoops} \subseteq Nat

RBP == -1                 \* the token of the frame pointer

VARIABLES
  m,                      \* acx->rs and the machine: the registers in use,
                          \* the overflow counter, and what the registers
                          \* and the words of the stack hold
  held,                   \* the struct reg of every operand alive
  leaked,                 \* those no path gives back, ever
  loops,                  \* words FOR loops have left on the stack
  todo,
  phase,                  \* "ok"; "wrong": an instruction reads a register
                          \* that lost its operand; "frame": rbp is lost;
                          \* "asm": the assembler rejects an instruction
  causes                  \* history: uses the allocator is not made for

cg == <<m, held, leaked, loops, todo, phase, causes>>

Type == {"int", "bool"}

-----------------------------------------------------------------------------
(* struct reg; the name of a spilled one is REGS[need_restore], rcx. *)
Name(h) == IF h.spilled THEN RCX ELSE h.which

Push(s, tok) == [s EXCEPT !.stack = Append(@, tok)]
Pop(s, r) ==
  IF s.stack = <<>> THEN [s EXCEPT !.regs[r] = 0]
  ELSE [s EXCEPT !.regs[r] = s.stack[Len(s.stack)],
                 !.stack = SubSeq(@, 1, Len(@) - 1)]
Set(s, r, tok) == [s EXCEPT !.regs[r] = tok]

(* The values gone, or replaced by new ones: no copy of them counts. *)
Forget(s, toks) ==
  [s EXCEPT !.regs = [r \in Reg |-> IF @[r] \in toks THEN 0 ELSE @[r]],
            !.stack = [i \in DOMAIN @ |-> IF @[i] \in toks THEN 0 ELSE @[i]]]

(* A faulty variant, to see TypeOK fail: a scan past the last register. *)
GimmeRegPastEnd(s) ==
  IF s.used # 0..14
    THEN [which |-> CHOOSE r \in 0..14 \ s.used : \A q \in 0..14 \ s.used : r <= q,
          spilled |-> FALSE]
    ELSE [which |-> s.overflow % 14, spilled |-> TRUE]

(* reg_gimme: the first register free, or rcx, saved on the stack. *)
GimmeReg(s) ==
  IF s.used # Reg
    THEN [which |-> CHOOSE r \in Reg \ s.used : \A q \in Reg \ s.used : r <= q,
          spilled |-> FALSE]
    ELSE [which |-> s.overflow % 14, spilled |-> TRUE]

(* ... and the load that follows it everywhere. *)
Gimme(s, tok) ==
  LET h == GimmeReg(s) IN
  IF h.spilled
    THEN Set(Push([s EXCEPT !.overflow = @ + 1], s.regs[RCX]), RCX, tok)
    ELSE Set([s EXCEPT !.used = @ \cup {h.which}], h.which, tok)

(* Faulty variants, to see properties fail: a register never marked free,  *)
(* and a spilled one not restored.                                         *)
TakebackSpillOnly(s, h) ==
  IF h.spilled THEN [Pop(s, RCX) EXCEPT !.overflow = @ - 1] ELSE s
TakebackKeepsStack(s, h) ==
  IF h.spilled THEN [s EXCEPT !.overflow = @ - 1]
  ELSE [s EXCEPT !.used = @ \ {h.which}]

(* reg_takeitback *)
Takeback(s, h) ==
  IF h.spilled THEN [Pop(s, RCX) EXCEPT !.overflow = @ - 1]
  ELSE [s EXCEPT !.used = @ \ {h.which}]

(* save_registers pushes the registers in use among the first six, lowest  *)
(* first; restore_registers_except pops them back, but the one given.      *)
SaveOne(s, r) == IF r \in s.used THEN Push(s, s.regs[r]) ELSE s
Save(s) ==
  SaveOne(SaveOne(SaveOne(SaveOne(SaveOne(SaveOne(s, 0), 1), 2), 3), 4), 5)

RestoreOne(s, r, h) == IF r \in s.used /\ r # h.which THEN Pop(s, r) ELSE s
RestoreExcept(s, h) ==
  RestoreOne(RestoreOne(RestoreOne(RestoreOne(RestoreOne(RestoreOne(
    s, 5, h), 4, h), 3, h), 2, h), 1, h), 0, h)

-----------------------------------------------------------------------------
(* Pending work: an expression of a type or an lvalue to analyze, or the   *)
(* rest of a construct whose operands are being analyzed.                  *)
N == Len(held)
L == held[N - 1]          \* the left operand, and the right one
R == held[N]

(* The operands the next piece of work reads. *)
Operands ==
  CASE Head(todo) \in {"op", "rel", "assign", "test", "again"} -> {N - 1, N}
    [] Head(todo) \in {"cond", "arg", "write"} -> {N}
    [] OTHER -> {}

Intact(s, i) == s.regs[Name(held[i])] = i

Misreads == \E i \in Operands : ~Intact(m, i)

Pending(task) == Cardinality({i \in DOMAIN todo : todo[i] = task})

At(task) == phase = "ok" /\ todo # <<>> /\ ~Misreads /\ Head(todo) = task
Then(work) == todo' = work \o Tail(todo)

HasRoom == N < IF Len(leaked) <= 1 THEN MaxHeld ELSE MaxHeldLeaky
MayNest == Len(todo) < N + IF N < Shallow THEN MaxPending ELSE 4
MayLeak == Len(leaked) < MaxLeaks

(* What spilling does not cater for: the other operand of the instruction  *)
(* to come is in rcx already; the spilled register is never given back.    *)
SharesRcx(h) == IF h.spilled /\ N > 0 /\ Name(R) = RCX THEN {"two_in_rcx"} ELSE {}
LeaksSpilled(h) == IF h.spilled THEN {"spill_leaked"} ELSE {}

Drop(s, n) == Forget(s, n..N)
Shorter(n) == SubSeq(held, 1, N - n)

Init ==
  /\ m = [used |-> {}, overflow |-> 6, regs |-> [r \in Reg |-> 0], stack |-> <<>>]
  /\ held = <<>> /\ leaked = <<>> /\ loops = 0
  /\ todo = <<"stmts">>
  /\ phase = "ok" /\ causes = {}

(* The next instruction reads a register that lost its operand. *)
Misread ==
  /\ phase = "ok" /\ todo # <<>> /\ Misreads
  /\ phase' = "wrong"
  /\ UNCHANGED <<m, held, leaked, loops, todo, causes>>

-----------------------------------------------------------------------------
(* analyze_expr *)

(* EXPR_LIT, EXPR_PATH, EXPR_DEREF: one register, loaded. *)
Leaf ==
  /\ \E task \in Type \cup {"lvalue"} : At(task)
  /\ HasRoom
  /\ held' = Append(held, GimmeReg(m))
  /\ m' = Gimme(m, N + 1)
  /\ Then(<<>>)
  /\ causes' = causes \cup SharesRcx(GimmeReg(m))
  /\ UNCHANGED <<leaked, loops, phase>>

(* EXPR_IDX: the register of the path is never given back, and never read. *)
Index ==
  /\ \E task \in Type \cup {"lvalue"} : At(task)
  /\ HasRoom /\ MayLeak
  /\ leaked' = Append(leaked, GimmeReg(m))
  /\ m' = Gimme(m, 0)
  /\ causes' = causes \cup LeaksSpilled(GimmeReg(m))
  /\ Then(<<"int">>)
  /\ UNCHANGED <<held, loops, phase>>

(* EXPR_BIN: left, then right, then the operation.  Only comparisons       *)
(* change the type.                                                        *)
Binary ==
  /\ HasRoom /\ MayNest
  /\ \/ At("int") /\ Then(<<"int", "int", "op">>)
     \/ At("bool") /\ Then(<<"bool", "bool", "op">>)
     \/ /\ At("bool") /\ Pending("rel") < MaxCompares
        /\ \E t \in Type : Then(<<t, t, "rel">>)
  /\ UNCHANGED <<m, held, leaked, loops, phase, causes>>

(* and, or, add, sub, imul: the left register gets the result. *)
Arith ==
  /\ At("op")
  /\ m' = Takeback(Drop(Set(Forget(m, {N - 1}), Name(L), N - 1), N), R)
  /\ held' = Shorter(1)
  /\ Then(<<>>)
  /\ UNCHANGED <<leaked, loops, phase, causes>>

(* DIV, '/', MOD: rax and rdx are saved around the division; cdq           *)
(* overwrites rdx before idiv reads the divisor.                           *)
Divide ==
  /\ At("op")
  /\ LET saved == Push(Push(m, m.regs[RDX]), m.regs[RAX])
         ready == Set(Set(saved, RAX, m.regs[Name(L)]), RDX, 0)
         done == Set(Forget(ready, {N - 1}), Name(L), N - 1)
         restored == Pop(Pop(done, RAX), RDX)
     IN  /\ m' = Takeback(Drop(restored, N), R)
         /\ phase' = IF ~Intact(ready, N) THEN "wrong" ELSE "ok"
  /\ held' = Shorter(1)
  /\ Then(<<>>)
  /\ causes' = causes \cup
       IF {Name(L), Name(R)} \cap {RAX, RDX} # {} THEN {"division_in_rax_rdx"} ELSE {}
  /\ UNCHANGED <<leaked, loops>>

(* The register the name of r turns into by putting its second letter      *)
(* first and an l second: bl, cl, dl, al; of the others only rdi becomes   *)
(* a register, the wrong one, dl.                                          *)
EightBit(r) == IF r \in {0, RCX, RDX, RAX} THEN r ELSE IF r = RDI THEN RDX ELSE -1

(* '=', NEQ, '<', '>', LE, GE: the condition goes to the 8-bit part of the *)
(* right register, and from there to the left one.                         *)
Compare ==
  LET low == EightBit(Name(R)) IN
  /\ At("rel") /\ low # -1
  /\ m' = Takeback(Drop(Set(Set(Forget(m, {N - 1}), low, 0), Name(L), N - 1), N), R)
  /\ held' = Shorter(1)
  /\ Then(<<>>)
  /\ causes' = causes \cup
       IF low # Name(R) THEN {"comparison_in_rdi"} ELSE {}
  /\ UNCHANGED <<leaked, loops, phase>>

CompareFails ==
  /\ At("rel") /\ EightBit(Name(R)) = -1
  /\ phase' = "asm"
  /\ UNCHANGED <<m, held, leaked, loops, todo, causes>>

-----------------------------------------------------------------------------
(* analyze_call *)

(* The registers in use are saved before the arguments are analyzed: none, *)
(* or a first one, on which others follow (Argument).                      *)
CallWork(args) == IF args THEN <<"int", "arg", "call_with_args">> ELSE <<"call">>

Call(args) ==
  /\ \E task \in Type : At(task)
  /\ HasRoom /\ MayNest
  /\ m' = Save(m)
  /\ Then(CallWork(args))
  /\ UNCHANGED <<held, leaked, loops, phase, causes>>

(* An argument is pushed, and its register never given back; then comes    *)
(* the next argument, or the call.  MaxLeaks bounds the arguments.         *)
Argument ==
  /\ At("arg") /\ MayLeak
  /\ m' = Drop(Push(m, 0), N)
  /\ leaked' = Append(leaked, R)
  /\ held' = Shorter(1)
  /\ \E more \in {<<>>, <<"int", "arg">>} : Then(more)
  /\ causes' = causes \cup LeaksSpilled(R)
  /\ UNCHANGED <<loops, phase>>

(* The call itself.  The slot below rbp is pushed only without arguments;  *)
(* the callee writes its result to the word rsp pointed to, and whatever   *)
(* it likes to the registers.                                              *)
Return(args) ==
  LET h == GimmeReg(m)
      framed == Push(Gimme(m, 0), RBP)
      slotted == IF args THEN framed ELSE Push(framed, 0)
      result == [slotted EXCEPT !.stack[Len(slotted.stack)] = N + 1]
  IN
  /\ At(IF args THEN "call_with_args" ELSE "call")
  /\ \E k \in Clobbers :
       LET back == [result EXCEPT !.regs = [r \in Reg |-> IF r < k THEN 0 ELSE @[r]]]
           popped == Pop(back, Name(h))
           frame == popped.stack # <<>> /\ popped.stack[Len(popped.stack)] = RBP
           left == [popped EXCEPT !.stack = SubSeq(@, 1, Len(@) - 1)]
       IN  /\ phase' = IF frame THEN "ok" ELSE "frame"
           /\ m' = IF popped.stack = <<>> THEN popped ELSE RestoreExcept(left, h)
           /\ causes' = causes
                \cup (IF args THEN {"arguments"} ELSE {})
                \cup (IF h.spilled THEN {"call_while_full"} ELSE {})
                \cup IF \E i \in DOMAIN held : held[i].which \in 6..(k - 1)
                       THEN {"call_over_unsaved"} ELSE {}
  /\ held' = Append(held, h)
  /\ Then(<<>>)
  /\ UNCHANGED <<leaked, loops>>

-----------------------------------------------------------------------------
(* analyze_stmt; "stmts" is the rest of a STMT_STMTS. *)

Stmt == At("stmts") /\ MayNest

StartAssign ==
  /\ Stmt
  /\ \E t \in Type : Then(<<"lvalue", t, "assign", "stmts">>)
  /\ UNCHANGED <<m, held, leaked, loops, phase, causes>>

(* A faulty variant, to see Balanced fail: only one register given back. *)
AssignKeepsLeft ==
  /\ At("assign")
  /\ m' = Drop(Takeback(m, R), N)
  /\ held' = Shorter(1)
  /\ Then(<<>>)
  /\ UNCHANGED <<leaked, loops, phase, causes>>

(* STMT_ASSIGN: the right register is given back, then the left one. *)
Assign ==
  /\ At("assign")
  /\ m' = Drop(Takeback(Takeback(m, R), L), N - 1)
  /\ held' = Shorter(2)
  /\ Then(<<>>)
  /\ UNCHANGED <<leaked, loops, phase, causes>>

(* STMT_WDO has one body, STMT_ITE two. *)
StartConditional ==
  /\ Stmt
  /\ \/ Then(<<"bool", "cond", "stmts", "stmts">>)
     \/ Then(<<"bool", "cond", "stmts", "stmts", "stmts">>)
  /\ UNCHANGED <<m, held, leaked, loops, phase, causes>>

Condition ==
  /\ At("cond")
  /\ m' = Drop(Takeback(m, R), N)
  /\ held' = Shorter(1)
  /\ Then(<<>>)
  /\ UNCHANGED <<leaked, loops, phase, causes>>

(* STMT_FOR: start and end, then a register for the induction variable,    *)
(* which is never given back. *)
StartFor ==
  /\ Stmt /\ loops < MaxLoops
  /\ Then(<<"int", "int", "variable", "test", "stmts", "again", "stmts">>)
  /\ UNCHANGED <<m, held, leaked, loops, phase, causes>>

Variable ==
  /\ At("variable") /\ MayLeak
  /\ leaked' = Append(leaked, GimmeReg(m))
  /\ m' = Gimme(m, 0)
  /\ causes' = causes \cup LeaksSpilled(GimmeReg(m))
  /\ Then(<<>>)
  /\ UNCHANGED <<held, loops, phase>>

(* The start value is pushed, and the test made. *)
Test ==
  /\ At("test")
  /\ m' = Push(m, 0)
  /\ loops' = loops + 1
  /\ Then(<<>>)
  /\ UNCHANGED <<held, leaked, phase, causes>>

(* After the body: the counter is incremented and stored over the top of   *)
(* the stack, and the test made again; nothing pops the word pushed.       *)
Again ==
  /\ At("again")
  /\ LET stored == [m EXCEPT !.stack =
                      IF @ = <<>> THEN @ ELSE [@ EXCEPT ![Len(@)] = 0]]
     IN  m' = Takeback(Takeback(Drop(stored, N - 1), R), L)
  /\ held' = Shorter(2)
  /\ Then(<<>>)
  /\ UNCHANGED <<leaked, loops, phase, causes>>

(* STMT_PROC of a declared procedure. *)
StartProc(args) ==
  /\ Stmt
  /\ m' = Save(m)
  /\ Then(CallWork(args) \o <<"discard", "stmts">>)
  /\ UNCHANGED <<held, leaked, loops, phase, causes>>

Discard ==
  /\ At("discard")
  /\ m' = Drop(Takeback(m, R), N)
  /\ held' = Shorter(1)
  /\ Then(<<>>)
  /\ UNCHANGED <<leaked, loops, phase, causes>>

(* STMT_PROC of write and writeln, with at most one argument: analyze_magic. *)
StartWrite ==
  /\ Stmt
  /\ \E arg \in {<<>>, <<"int", "write">>, <<"bool", "write">>},
        end \in {<<"written">>, <<"newline", "written">>} :
       Then(arg \o end \o <<"stmts">>)
  /\ UNCHANGED <<m, held, leaked, loops, phase, causes>>

(* write_integer@ and the like leave every register as it was. *)
Write ==
  /\ At("write")
  /\ m' = Drop(Takeback(m, R), N)
  /\ held' = Shorter(1)
  /\ Then(<<>>)
  /\ UNCHANGED <<leaked, loops, phase, causes>>

(* write_newline@ makes a system call, which overwrites rcx and r11. *)
Newline ==
  /\ At("newline")
  /\ m' = Set(Set(m, RCX, 0), R11, 0)
  /\ causes' = causes \cup
       IF \E i \in DOMAIN held : Name(held[i]) \in {RCX, R11}
         THEN {"newline_in_a_loop"} ELSE {}
  /\ Then(<<>>)
  /\ UNCHANGED <<held, leaked, loops, phase>>

(* The result of a magic call names register 0, and STMT_PROC gives that   *)
(* back, whoever has it: if it was leaked, it no longer is.                *)
Magic == [which |-> 0, spilled |-> FALSE]

Without(s, i) == SubSeq(s, 1, i - 1) \o SubSeq(s, i + 1, Len(s))

Written ==
  /\ At("written")
  /\ m' = Takeback(m, Magic)
  /\ \/ \E i \in DOMAIN leaked : leaked[i] = Magic /\ leaked' = Without(leaked, i)
     \/ (\A i \in DOMAIN leaked : leaked[i] # Magic) /\ leaked' = leaked
  /\ causes' = causes \cup
       IF \E i \in DOMAIN held : held[i] = Magic THEN {"write_in_a_loop"} ELSE {}
  /\ Then(<<>>)
  /\ UNCHANGED <<held, loops, phase>>

EndStmts ==
  /\ At("stmts")
  /\ Then(<<>>)
  /\ UNCHANGED <<m, held, leaked, loops, phase, causes>>

Next ==
  \/ Leaf \/ Index \/ Binary \/ Arith \/ Divide \/ Compare \/ CompareFails
  \/ \E args \in BOOLEAN : Call(args) \/ StartProc(args) \/ Return(args)
  \/ Argument
  \/ StartAssign \/ Assign \/ StartConditional \/ Condition
  \/ StartFor \/ Variable \/ Test \/ Again
  \/ Discard \/ StartWrite \/ Write \/ Newline \/ Written
  \/ EndStmts \/ Misread

Spec == Init /\ [][Next]_cg

-----------------------------------------------------------------------------
Handle == [which : Reg, spilled : BOOLEAN]

Work == Type \cup {"lvalue", "op", "rel", "arg", "call", "call_with_args", "stmts",
                   "assign", "cond", "variable", "test", "again", "discard",
                   "write", "newline", "written"}

(* A token names an operand still alive, the frame pointer, or nothing. *)
Token == 0..N \cup {RBP}
Machine(T) == [used : SUBSET Reg, overflow : Nat, regs : [Reg -> T], stack : Seq(T)]

TypeOK ==
  /\ m \in Machine(Token)
  /\ held \in Seq(Handle) /\ leaked \in Seq(Handle) /\ loops \in 0..MaxLoops
  /\ todo \in Seq(Work)
  /\ phase \in {"ok", "wrong", "frame", "asm"}

(* Every emitted instruction reads the operands computed for it, unless    *)
(* one of the uses listed in causes was made of the allocator.             *)
OperandsIntact == causes = {} => phase \in {"ok", "asm"}

(* No register has two owners, a register is in use exactly while someone  *)
(* owns it, and the overflow counter counts the spilled.                   *)
Owners == [i \in 1..(N + Len(leaked)) |->
             IF i <= N THEN held[i] ELSE leaked[i - N]]

OwnedOnce ==
  "write_in_a_loop" \notin causes =>
    LET own == {i \in DOMAIN Owners : ~Owners[i].spilled}
    IN  /\ m.used = {Owners[i].which : i \in own}
        /\ \A i, j \in own : Owners[i].which = Owners[j].which => i = j
        /\ m.overflow = 6 + Cardinality(DOMAIN Owners \ own)

(* As long as no use listed in causes was made of the allocator, a call    *)
(* with arguments among them: between two statements the stack holds the   *)
(* one word that each FOR loop compiled leaves there (analysis.c:584) and  *)
(* nothing else, and the operands alive are the bounds of the enclosing    *)
(* FOR loops.                                                              *)
Balanced ==
  causes = {} /\ phase = "ok" /\ (todo = <<>> \/ Head(todo) = "stmts") =>
    /\ Len(m.stack) = loops
    /\ N = 2 * Pending("again")

(* analysis.c: "get the 8-bit register".  A comparison assembles. *)
ComparisonAssembles == phase # "asm"

(* README.md: "basically everything except nonlocal variable access works".*)
(* A call gives the caller its frame back. *)
CallKeepsFrame == phase # "frame"
=============================================================================
