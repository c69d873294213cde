# A TLA+ model of the Dragon compiler

Dragon (`src/dragon`) compiles a subset of Pascal to x86-64 assembly. It is a
sequential C program: one process, no threads, no persistent state, no network.
What makes it hard to get right are long sequences of legal calls on hand-made
data structures (lists, arrays, hash tables), a symbol table that names entries
by index for the whole compilation, a register allocator whose registers are
given back by hand along every path of a recursive analysis, and ownership of
strings between parser, syntax tree and symbol table, and text emitted in an
order that does not follow the order in which facts become known. There is no
crash recovery, no timeout, no message and nothing that waits. The runs switch
deadlock checking off because each system may really stop (a list is freed, the
compiler exits).

## Inventory

| Part | State | Operations | What makes it correct |
|---|---|---|---|
| Linked list (`util.c`, `util.h`) | an embedded node, heap nodes, `last`, `length` | `list_empty`, `list_new`, `list_add`, `list_pop`, `list_free`; `LFOREACH`, `LFOREACHREV` | one chain; nothing used after it is freed; every payload released once; both walks agree |
| Pointer array (`util.c`) | `length`, `capacity`, `data` | `ptrvec_wcap`, `ptrvec_push` (with `ptrvec_reserve`), `ptrvec_free` | an index keeps naming the pointer it was returned for, no write beyond the cells |
| Hash table (`util.c`) | buckets of entries, each a list | `hash_new`, `hash_lookup`, `hash_insert`, `hash_free`; `HFOREACH` | a map: the last insertion wins, each value is released once |
| Symbol table (`symbol.c`) | arenas `vars`, `types` (pointer arrays), `scopes`, `chain` (list); three hash tables for each scope | `stab_new`, `stab_enter`, `stab_leave`, `stab_add_*`, `stab_resolve_*` | block structure; every stored index names the right entry; types are well-founded |
| Subprograms and the display (`analysis.c`) | `struct acx`: current function, `ret_assigned`, label, display offset; captured variables with their slots and frame offsets | `analyze`, `analyze_subprog`, `type_of_path`, `check_assignability`, statements as far as they name variables and labels | rules 5.2 and 5.4; a variable has one slot, filled before it is read; frames without overlap; labels put once; the stack as found |
| Code generation (`analysis.c`) | `struct acx`: register set | `analyze_expr`, `analyze_call`, `analyze_magic`, `analyze_stmt` | an emitted instruction reads the operands computed for it; every register is given back; the stack is balanced |
| Runtime (`rt.s`) | registers and stack of the compiled program | `write_integer@`, `write_newline@` | "All registers are callee-save" |
| Syntax tree (`ast.c`) | trees that own strings | constructors, `free_*`, `print_*` | each node and string has one owner and is freed once; every walk ends |
| Parser, lexer (`parser.y`, `lexer.l`) | generated automata; static position counters | `yyparse`, `yylex`, destructors of discarded values | the tree of a program; nothing lost at a syntax error |
| Driver (`driver.c`, `main.c`) | options | `compile_input`: dump tokens, parse, dump tree, analyze, free | phases in order, all memory freed |
| Others | | `token.c` (token names), `pasprintf.c` (third-party), tests | |

How they interact: the driver parses into a tree, then `analyze` walks it once,
entering and leaving scopes of the symbol table and writing assembly as it goes.
The chain of open scopes and every hash bucket are linked lists; arenas and the
set of scopes are pointer arrays; everything is named by an index into an arena,
and the value -1 means both "absent from this table" and "could not be
resolved". The generated text calls the runtime.

Hard behaviours, each at its line in `PROJECT.json` under `hazards`: sequences
of additions and removals on a list whose first node is special; reallocation
under indices that live on; names declared, hidden and left in any order;
failure returned as -1 and used as an index; registers taken and given back in
different functions; running out of registers; instructions that use fixed
registers; values that must survive a call; a parse, an analysis or a release
that stops half way; the context of a function saved and restored around those
inside it; variables captured after the code that should have noticed.

## Modules

`LinkedList` models `util.c`'s lists on a heap of nodes with `next`, `prev` and
`elt`. One action per operation; `list_add` and `list_pop` have one action for
the embedded node and one for the others, and `list_free`, which recurses, is
one action per node, so that every intermediate heap is checked. The assertions
of `list_append` and `node_free` lead to the phase `abort`, a dereference of
NULL to `segv`. `order` is a history variable: the nodes as they were added. The
macros `LFOREACH` and `LFOREACHREV` are functions along the links. `SeqList` is
the abstract list, a sequence; `LinkedList` implements it (`ImplementsSeqList`)
with `items` the payloads in the order of the chain. Freeing is one abstract
step, at the last payload.

`PtrVec` models the array with its cells, so a write beyond them would be seen
(`overrun`); `returned`, `cap0` and `released` (what `ptrvec_free` hands to the
destructor) are history variables. `ptrvec_reserve` doubles
once; from a capacity of 0 it stays at 0, `realloc` returns NULL (the allocator
of glibc) and the program aborts.

`HashTable` models the table with buckets as sequences, which is what
`LinkedList` is proved to implement. The hash is any function of the key.
`released` and `inserted` are history variables. `KeyMap` is the abstract map;
its `log` makes an insertion visible, so that none can be lost as a stutter.

`SymbolTable` uses tables (functions from names to indices, which is what
`HashTable` implements for keys never removed) and sequences for the arenas
(`PtrVec`) and the chain (`LinkedList`). Indices start at 0 as in the code; an
entry `i` is the sequence's element `i + 1`. One action per operation, with
everything it calls: `AddDecls` resolves the type, which may add one to the
arena, then adds every variable; `AddFunc` resolves a signature, which adds a
variable for each formal, then the function's type. A type expression is a
builtin, a reference or one constructor over those. A read at index -1 is the
phase `crash`, a semantic error (`span_err`, which does not return) the phase
`error`. A type declared as a builtin or a reference is the phase `undefined`:
`stab_resolve_type` frees the name that `stab_add_type` then hashes and stores, so
what the name resolves to afterwards cannot be said, and only types with a
constructor are bound. `by` and `scope` of a variable are history: which operation
bound it, and where. `ShadowStacks` is block structure without a table: a stack of
environments. `SymbolTable` implements it, an environment being what resolution
answers from a prefix of the chain; each of the phases that end the compilation is
its `Stop`.

`Codegen` models the register allocator and the recursive analysis that uses it,
together with a symbolic machine that executes what is emitted. `todo` is the
stack of pending work (the C call stack of the analysis) and the syntax tree is
chosen while it runs: `Leaf`, `Index`, `Binary` and `Call` are what an expression
may be, `StartAssign`, `StartConditional`, `StartFor`, `StartProc`, `StartWrite`
what a statement may be. `held` holds the `struct reg` of every operand alive; a
register or stack word holds the token `i` if it holds the value computed for
`held[i]`. An instruction whose operand is not where its name says leads to
`Misread`. The names of `REGS` that matter are modelled by their positions (rcx,
r11, rdx, rax, rdi), and the 8-bit name made from a register's name by what it
turns into. Branches and loop bodies are executed once, in the order of the
text, with a loop's test repeated at its end: as long as `causes` is empty a
statement other than FOR leaves registers and stack as it found them (`Balanced`),
so a jump changes nothing a later instruction can tell. A call has any number of
arguments, each an expression of its own whose register is pushed and never given
back. A callee overwrites the registers below a number chosen
from `Clobbers` and leaves its own stack balanced. Left out: type errors (they
abort), `read` (its runtime entry points do not exist), unary operators (the
operand's register is kept), the selection of record fields (arithmetic on the
one register).

`SyntaxTree` is the grammar of `parser.y` with the actions at the end of its
rules, as far as memory goes: which values an action takes off the parser's
stack and puts into a new node (`Rules`), which fields a destructor releases and
in which order (`Released`), which a printer reads (`Printed`). The levels of
expressions are one symbol, so the parse of an expression is not unique; the
nodes that are built are the same. A token without a value is written (`Expect`)
only where an action follows it, as the `;` after the type of a declaration: an
error there finds a stack no other error finds.

`Ownership` is `compile_input` on top of it: tokens dumped or not, the parse, the
tree printed or not, the analysis or not, and the release, with every early
return. `todo` is the work ahead, the C call stack of the compiler; the program
is chosen while it is parsed, and a syntax error may come wherever the parser
asks for a token (`Lookaheads`; tokens without a value are left out where an error
finds the stack of a place that is there). `heap` is what is allocated; an address is never used twice, so
that a dangling pointer stays one. The symbol table is a node whose kids are its
entries, an entry owning its name; of the analysis, every allocation, copy,
hand-over, read and release of a string or node is modelled, and an error of the
analysis may come at every node (`span_err` ends the process). A reference to a
type may be to an undeclared one, and then whatever looks at the type reads in front
of the arena (`ReadUnknownType`); a comparison may be of two results of `write`,
whose registers have an empty name (`CompareVoid`). A read or release of what is not
allocated is the phase `undefined`. The phase `abort` is the
destructor of operators, or `EXPR_ADDROF`. `causes` is a history variable.

`Subprograms` is `analyze` and `analyze_subprog`: the program is chosen as the
analysis goes, block by block, with its declarations, its subprograms and its
body. A step is what the code does between two choices: `BeginSubprogram` is
`stab_add_func` with the formals it enters into the scope around, then the start
of `analyze_subprog` up to the formals in the new scope; `Prologue` is the text
put when the subprograms inside are done; `EndSubprogram` the check for the
return value, the epilogue and the context that comes back. A statement is
modelled by the variables it names, its labels, and the words it leaves on the
stack: one for a FOR, and for a `Call` as many as `analyze_call` can leave there or
take away, given the number of formals (`CallLeaves`; which registers are in use at
the call is `Codegen`'s affair, so it is any number in the range that allows). `Use`
stands for a variable or an element anywhere in an expression; the register of an
element is kept for good, and may have been pushed (`KeepRegister`). The text begins
with the labels `analyze` puts first (`NoText`). Every variable is an integer, one
word; `HFOREACH` is modelled by which identifiers lie in the first and which in the
last bucket. `lost`, `fills`, `written`, `words`, `loops` and `left` are history.
Scopes are as in `SymbolTable`, restricted to variables.

`MCHashTable` gives `HashTable` a hash for model checking. In every module the
definitions commented as faulty variants belong to no specification: each is a
plausible mistake that makes one property fail, and shows that the property
depends on the code.

## Runs

| Run | Shows | Bounds, and why they are enough |
|---|---|---|
| `linked_list` | `WellLinked`, `WalksAgree`, `ReleasedOnce`, `ImplementsSeqList` over every history of additions, removals and a release | three heap addresses (reused after removal), two payloads and NULL: lists of four nodes have a first, an inner and a last heap node |
| `ptr_vec` | `IndicesName`, `GrowthBounded`, `StableSlots` | capacities 0, 1, 3, up to nine pushes: the abort, and two to four reallocations |
| `hash_table` | `OneEntryPerKey`, `ValuesConserved`, `ImplementsKeyMap` | three keys of which two collide, two buckets, a value equal to -1 |
| `hash_visits` | violated: `HFOREACH` misses the last bucket (`VisitsEveryEntry`) | the same |
| `symbol_table` | `TablesName`, `TypesAcyclic`, `ChainNested`, `DeclaredStays`, `ImplementsShadowStacks` | two names (hiding, redeclaring), three scopes (nested and successive), three variables (a local, a formal of a signature and a return slot of one name) and a type besides the builtins; arrays stand for the constructors |
| `symbol_formals` | violated: a formal resolves in the scope around its subprogram | the same |
| `symbol_unknown_type` | violated: an undeclared type is an index of -1, not an error | the same |
| `codegen` | `OperandsIntact`, `OwnedOnce`, `Balanced` | fifteen operands (fourteen registers and a spilled one), two leaked registers and two FOR loops (nested or one after the other), calls with up to two arguments (each is a leaked register), callees that use one register or eight; at most one comparison begun; deep expressions only with at most one leak, and beyond `Shallow` operands only nested to the right |
| `codegen_comparison` | violated: a comparison emits a register name that does not exist | the same |
| `codegen_call_frame` | violated: a call with an argument loses `rbp` | the same |
| `ownership` | `OneOwner`, `NoMisuse`, `AllFreed`, `Termination` | sixteen strings and nodes, ten more than the least program: every rule of the grammar and every node is built, a subprogram with formals, a record, nested statements, and a syntax error with a finished subprogram on the stack; two tokens dumped |
| `subprograms` | `RuleReturn`, `RuleNonlocal`, `SlotsDistinct`, `SlotsStable`, `DisplayFilled`, `OffsetsDistinct`, `Assembles`, `ReturnsToCaller` | two names, one in the first bucket and one in the last; the program and two subprograms, nested or one after the other; two statements (a use, an assignment, a call of itself or of one another, a loop); two formals in one group or two; five variables; one saved register; one name is that of a label of the first lines |

`OperandsIntact` is conditional: `causes` records the uses the allocator is not
made for, and every one of them does lead to a wrong read in the model:

- two operands in rcx: a spill while the other operand is in rcx,
- a spilled register that is never given back,
- a division with an operand in rax or rdx,
- a comparison with its right operand in rdi (its 8-bit name is that of rdx),
- a call with arguments, a call while every register is in use, and a call over
  a live register that is not among the six saved,
- a `writeln` inside a FOR whose bounds are in rcx or r11, and any `write` inside
  a FOR that keeps a bound in rbx.

Without these the code of every expression and statement within the bounds reads
what was computed for it.

`Balanced` is conditional in the same way, on `causes = {}`, and counts the word of
each FOR in; so it does not speak of calls with arguments, nor of the words FOR
leaves, which are `Subprograms`' (`ReturnsToCaller`).

`NoMisuse` and `OneOwner` are conditional as well, and the claims of
`src/dragon/README.md` ("all memory is freed", "ASan and UBSan clean") do not hold of
every program. `NoMisuse` names what is excepted:

- a type declaration frees its name twice (`stab_resolve_type` takes it over, the tree
  keeps it),
- a FOR frees its identifier with the path made of it,
- a type that is not declared is an index of -1, which `stab_add_var` and the analysis
  use to read the arena of types,
- a comparison of two results of `write` or `writeln` copies the empty name of their
  register and writes the name of an 8-bit register over the copy.

In all other programs within the bounds the strings, nodes and symbol table entries
are read and freed while they are allocated, and everything is freed when
`compile_input` returns, after a syntax error before any token too, unless an operator
is discarded: that aborts. That is proved without the bounds, see below. Records are
not part of it (see the end).

The exceptions in the properties of `Subprograms` are faults of the code that the
run reaches, each named where the property is stated: a formal entered into the
scope around its subprogram takes the place of a variable there, or of the return
slot; a variable captured in a FOR of its own block comes too late for the
prologue; the first saved entry of the display is never restored; offsets of
formals are counted in groups; the text of nested subprograms lies between a
subprogram's label and its code; a subprogram may have the name of a label that is
there already (`display`, `write_integer`, `write_newline`); FOR leaves its counter
on the stack; a call with arguments leaves words there or takes words it did not
push; a register that is never given back may have been pushed. The properties say
nothing of programs that meet one of these, and nothing of what is not modelled: the
place where a caller pushes arguments against the offsets of formals, for one.

### Fairness

`Termination` is the one liveness property, and `Ownership` the one specification
with a fairness condition, weak fairness of its whole next-state relation: the
compiler is a single process that does nothing but its next step, never waits for
anyone, and reads an input of finite length (`MaxObjects`). The other
specifications are `Init /\ [][Next]_vars`: their environment, which calls the
operations, may stop at any time.

## Proofs

TLAPS checks the theorems below for every value of the constants, from the named
assumptions of the modules only.

What a recursive function computes is proved by its least counterexample: a set of
naturals that is not empty has a least element (`Least`, from the well-foundedness
of the naturals, a theorem without an operator parameter), so a first position at
which the function is wrong would have a predecessor at which it is right. That
the function exists at all has to be shown first, from a witness or by the same
argument on the length of its domain.

`LinkedListProofs` proves `LinkedListTypeOK`, `LinkedListWellLinked`,
`LinkedListImplementsSeqList`, `LinkedListWalksAgree` and `LinkedListReleasedOnce`.
`WellLinked` (`OneChain`, `LiveIsReachable`,
`AssertsHold`) is not inductive by itself: a removal follows `prev` of the last
node, so the invariant carries with it the types and what each phase says of
`cursor`. Each action has one step, and the refinement proof maps every action to
a step of `SeqList` or to a stutter, from that invariant. The walks follow from it:
the i-th node of `LFOREACH` is the i-th of the chain, the i-th of `LFOREACHREV` the
i-th from its end, and its first node without a predecessor is the embedded one;
an empty list needs one more invariant, that its embedded payload is NULL. For the
destructor `FreeInv` says that with the cursor at position k it has been given the
payloads 2 to k - 1.

`PtrVecProofs` proves `PtrVecTypeOK`, `PtrVecIndicesName`, `PtrVecGrowthBounded` and
`PtrVecStableSlots`; that the destructor gets every pointer once and in order is part
of `IndicesName`. The strengthening is that a used array has a free cell behind its
last one: from `length < capacity` a push is inside the cells after at most
one doubling, which is why doubling once is enough.

`HashTableProofs` proves `HashTableTypeOK`, `HashTableOneEntryPerKey`,
`HashTableValuesConserved` and `HashTableImplementsKeyMap`, for every hash function
and number of buckets. The invariant is `OneEntryPerKey` with the types of the buckets: `hash_insert`
replaces the last hit of a bucket and `hash_lookup` answers the first, and only
because there is at most one do they mean the same entry. The refinement shows
that either way of inserting changes what is answered for its own key only,
with one case for another bucket and two for a colliding key. For
`ValuesConserved` the values of the table are counted bucket by bucket: a step
changes one bucket (`OneBucket`), so the whole changes by as many occurrences as
that bucket does, an occurrence of the old value less and one of the new more.

`SymbolTableProofs` proves everything the run `symbol_table` checks:
`SymbolTableTypeOK`, `SymbolTableTablesName`, `SymbolTableTypesAcyclic`,
`SymbolTableChainNested`, `SymbolTableDeclaredStays` and
`SymbolTableImplementsShadowStacks`. The invariants need each other: a new type
is made of earlier ones only because the tables of types name entries of the
arena, and they name types rather than functions only because resolution finds
what some scope says. What has to be added is that the builtin types stay at the
positions compiled into the program. All five declaring operations are shown to
be a `Declares` (arenas grow by well-made entries, one environment is put over
the innermost scope), and everything else is proved once for that. Resolution
takes the last scope that knows a name; that there is a last one comes from the
well-foundedness of the naturals. For the refinement the chain's order is
essential: no scope is open twice, so a declaration cannot show through an
enclosing position. `DeclaredStays` is shown for the operation that declares: it may
bind over a name that is local only if it is a signature's or a return slot's.

`SubprogramsProofs` proves `StructureInvariant`, `TypeCorrect`,
`DisplaySlotsDistinct` and `DisplaySlotsStable`, for any identifiers, any placement
of them in buckets and any bounds. None of the properties is inductive: each speaks
of a block that is finished, and needs to know what held while it was open, under
the blocks inside it. `Structure` says what is common to all of them: the calls of
`analyze_subprog` under way are block 1 and then blocks of rising numbers, all but
the last at their subprograms and all others finished (`OpenOK`); the scopes are
one for each call, then the empty ones of the current block's loops, and a scope
names variables of its own block under their own names (`ChainOK`); the context is
the current block's, and each saved one that of the block around, not yet in its
body, with nothing assigned and no label used (`ContextOK`). The slots then follow
with the counter as their bound, because a capture changes one variable that had no
slot.

On top of it the module proves `FunctionsAssignLocals` (rule 5.4),
`FunctionsReturn` (rule 5.2), `FrameOffsetsDistinct` and `StackRestored`, each with
an invariant of its own layered over `Structure`. For rule 5.2 (`ReturnOK`) that is:
in a function past its declarations the name of the function is either the return
slot or a formal that took its place, and `ret_assigned` implies that one of the
two was the case; that the flag of an enclosing function is still false when a
nested one ends is `ContextOK`. For the offsets (`OffsetsOK`), every kind of
variable has a range: formals between `groups + 2 - formals` and `groups + 1`,
variables below `locals`, the return slot at `locals`. For the stack (`WordsOK`), a
block's words are what its prologue pushed if it has no loop and nothing else left a
word (`left`), and it pushed nothing if it captured nothing.

It also proves the last two, about the text. `CapturedFilled` rests on `FilledOK`: a
captured variable belongs to a block past its declarations; while that block is at
its subprograms its scope still names the variable, so that the prologue, which
comes later, will find it; from then on the prologue has found it. What breaks the
middle part is exactly a formal of another subprogram that takes the name, and what
comes too late for it is a capture from a loop of the block itself: two of the
exceptions in the property. `LabelsDistinct` rests on `NestOK` (a block with a call
open inside it, or with a captured variable, contains a subprogram) and, where no
subprogram does, on `LabelsOK`: the labels in the text belong to subprograms
declared so far or to the first lines (and a subprogram that is named like one of
those is excepted), those of the body being written lie below `acx->label`, and the
current global label is the current block's. That last part is what fails when
subprograms nest, since the label is put before the nested ones.

`CodegenProofs` proves `BooksKept`, `TypesKept`, `OwnersKept`, `SafetyKept`,
`OperandsKept` and `BalanceKept`: all that the run `codegen` checks, for any
program, any callee and any bounds. It has two invariants, one on top of the
other.

The first (`Bookkeeping`) speaks of the analysis alone. Executed on numbers only,
the work ahead never takes more operands than there are, and the end of a loop
finds its bounds (`Fits`); a loop whose test is still to come was begun within the
bound (`Tests`). No register has two owners, those in use are those of the operands
and of the leaked handles (`Owned`), and the overflow counter is six plus the
number of spilled handles. From it follow the types and `OwnedOnce`; the exception there, a `write` that gives
back register 0 while an operand is in it, is the one place where the allocator and
the handles part.

The second (`Undisturbed`) speaks of the machine, as long as `causes` is empty, and
says that it is `Safe`. At most the newest operand is spilled, then it has rcx and
is read before any other register is taken (`SpillLast`): anything else would be a
cause. Every operand is in the register its handle names, but the one that lent
rcx to the newest, which is on top of the stack (`Values`). And the stack is
accounted for: one word for each FOR around, one for rcx if it is lent, and in a
call under way what `save_registers` pushed (`Words`). None of the three stands
alone: a pop gives rcx back only because the word on top is the one lent, and it is
only because nothing is pushed between. A call is followed in steps: `rbp` and the
result lie on the saved registers (`Topped`), the callee overwrites what it likes
(`Cleared`), the stack is what it was after the save (`Unwound`), and the registers
restored in the opposite order hold what they held (`Returned`, `RestoreUndoes`).

`OwnershipProofs` proves `TypesAlways`, `OneOwnerAlways`, `NoMisuseAlways` and
`AllFreedAlways`: every invariant the run `ownership` checks, for programs of any
size, every derivation of the grammar, every option and a syntax error before any
token. The
only assumption is the one on the bounds (the least program fits). All four follow
from one inductive invariant, `Sound` (`SoundAlways`), which has two layers.

`Memory` speaks of the heap. `Owned` is `OneOwner` said of every state: without a
type declaration, a FOR or an unknown type each allocation has one owner; with one,
only strings may have two, or dangle. It is not inductive, because what a destructor or the analysis
finds in a node must be what it expects: `Shape` says which kinds the fields of a
node have, unless a destructor has just emptied it. `Grounded` says that of any set
of nodes one is not a field of the others or of itself: `OneOwner` allows a circle
of nodes that own each other, which nobody would free, and it is what turns "all
that is left is owned by fields" into "nothing is left" when `compile_input`
returns. `Rooted` says that the tree lies at the addresses up to its root and
everything the analysis makes lies above. All that is freed while the tree is in use
lies above as well (`Apart`), or is one of the shared strings, so the tree the walks
borrow from stays as it is.

The second layer is the stage of `compile_input`. `Dumping`: at most one string, the
token at hand. `Parsing`: the work ahead, run on kinds in place of values (`Run`,
`Step`), leads from the kinds of the values on the parser's stack to those of a
program. That is the type discipline of the `%type` declarations of `parser.y`, and
every right-hand side is shown to keep it (`RulesMake`); lists that grow
(`list_add`) keep the kind of their elements. `Later`: printing, analysis and
release, each task `Good`: what is released is `Apart` from a tree that is still
there, what is borrowed is in it, a name to be resolved comes with a type, and
`free_program` and `stab_free` are still to come exactly as long as there is
something for them to free.

The proof is in two modules. `OwnershipWalks` has the definitions, the heap and what
a step on it keeps of `Memory`, the token dump, and the walks of the analysis and of
the destructors in `Later`. `OwnershipProofs` has the parser (the reductions, the
kinds of the right-hand sides, a syntax error) and the theorems.

The actions are proved by a few lemmas they share. `Transfer` moves ownership:
pointers leave some places and come to others, and what was owned once still is.
`GrowMemory` is an action that allocates nodes and enters them in the symbol table,
`ParseMemory` one that takes values off the parser's stack into new nodes,
`FreeNodeMemory` and `FreeMemory` the two halves of a destructor. For the bounds it
has to be shown that a right-hand side costs at least what was set aside for its
symbol (`RuleCosts`).

Only model-checked: `Termination`, which is liveness and out of the prover's reach.

## Not modelled, and the plan

Not modelled: token names (`token.c`, but for the read of a token's string),
`pasprintf.c`, `main` (I/O), the generated automata of lexer and parser, the
lexer's static position counters (they reach only the text of messages), the
selection of record fields and the sizes of types (`size_of_type`), the values
`idiv` divides, the size of `display@`, tests and build files.

The plan, in the order of importance; 1 to 8 exist.

1. `LinkedList` implementing `SeqList`, `PtrVec`, `HashTable` implementing `KeyMap`.
2. `SymbolTable` on top of them, implementing `ShadowStacks`.
3. `Codegen`: registers and the run time of expressions and statements.
4. `Subprograms`: context, display, frames and labels; rules 5.2 and 5.4.
5. `SyntaxTree` and `Ownership`: grammar, tree and driver, and who frees what.
6. Proofs for the data structures, the symbol table and the subprograms: everything
   their runs check.
7. Proofs about `Codegen`: everything its run checks.
8. Proofs about `Ownership`: all invariants its run checks.
9. Paths into records: what the loop of `type_of_path` selects, against a reference
   definition (the `continue` in it skips the macro's step as well).
