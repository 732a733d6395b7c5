# Verification of clang-llvm-tutorial

TLA+ models, TLC checks and TLAPS proofs for the programs of this repository:
the analyses built on LLVM and the Kaleidoscope language with its JIT. Paths
below are relative to the repository.

## Inventory

| Component | State | Operations | Hard part |
|---|---|---|---|
| Live variable analysis (`live-variable-analysis/`) | IN/OUT set of each block, set before each instruction, phi operands per block, visited marks, worklist, counts | worklist turn, transfer of a block, finalisation, statistics | order of the worklist, phi operands that arrive late, blocks that reach no exit |
| Kaleidoscope session (`kaleidoscope/functional_programming_language/`) | open module, prototypes, operator precedences, modules in the JIT, linked addresses | definition, extern, expression | failed definitions, redeclarations, redefinition of code that is linked |
| Kaleidoscope parser and lexer (the same file) | current token, operator precedences | recursive descent, precedence climbing, recovery | user-defined precedences, errors half way through an item |
| Kaleidoscope code generation (the same file) | NamedValues, the blocks of the open function | one method per expression | shadowing, early returns, blocks that are not where they were |
| CSE231 dataflow (`dataflow-analysis/`) | lattice before and after each instruction, by block name; worklist | block visit, loop visit, merge | fixpoint test, stale results |
| CSE231 constants, pointers, expressions, ranges | one lattice each | transfer, merge, equality | merge against meet, uninitialised results |
| AST interpreter (`ast-interpreter/`) | frames, heap, program counter | one method per node | return, calls, frames that are not popped |
| Function pointer analysis (`function-pointer-analysis/`) | lists of possible callees | one method per kind of value | lists kept from site to site, recursion |
| Value range analysis (`value-range-analysis/`) | ranges before and after each block | transfer, join, intersection, branch conditions | dropped join, equality that ignores ranges |
| Profiling (`llvm-profiling/`, `ucsd-cse231/`) | counters | instrument, update, print and clear | nested functions that share the counters |

Most programs run to completion alone; what is hard in them is the order in
which blocks, declarations and definitions come, state kept from one call to
the next, and errors half way through an operation. Components do not call one
another; within a component the parts interact by calls and shared members.
`PROJECT.json` lists every component with its status, and each hazard with its
line.

What makes each component correct: an analysis computes the solution of its
equations, neither more nor less, and ends; the session gives each name the
meaning of its last accepted definition and never calls code with the wrong
number of arguments; the parser agrees with the grammar and scopes are lexical;
the interpreter returns to the caller's frame; counters equal what was executed.

## Modules

| Component | Modules | Instance for TLC | Proofs |
|---|---|---|---|
| Live variables | `LiveVariable` | `MCLiveVariable` | `LiveVariable_proofs` |
| Session and JIT | `Repl`, which implements `Definitions` | `MCRepl` | `Repl_proofs` |
| Parser and lexer | `Syntax` (trees), `Lexer`, `Parser`, `Grammar` (how trees are written) | `MCParser` | `Kaleidoscope_proofs` |
| Code generation | `Syntax`, `CodeGen`, `Scopes` (what trees mean) | `MCScopes` | `Kaleidoscope_proofs` |
| Dataflow framework | `AnalysisPass`, for any analysis | `MCConstantProp`, `MCPasses` | `AnalysisPass_proofs` |
| The analyses on it | `Lattice`, `Instructions`, `ConstantProp`, `RangeAnalysis`, `PointerAnalysis`, `AvailableExpr` | `MCConstantProp` for constants, `MCPasses` for the others | `AnalysisPass_proofs` |
| AST interpreter | `Interpreter`, `SourceMeaning` (what C means) | `MCInterpreter` | `Interpreter_proofs` |
| Function pointers | `Callees` | `MCCallees` | `Callees_proofs` |
| Value ranges | `Instructions`, `ValueRange` | `MCValueRange` | `ValueRange_proofs` |
| Profiling | `Profiling` | `MCProfiling` | `Profiling_proofs` |

### LiveVariable

Values are the function's arguments and `<<block, index>>` for instructions;
bit vectors are sets of values. A turn of `performBackwardAnalysis` is
`TakeBlock` (pop, OUT from the successors and the recorded phi operands), one
`TransferInstr` for each instruction from the terminator up, and `CompareIn`
(update IN, queue predecessors). `Drained`, `Finalize` and `Calculate` are the
end of `runOnFunction` and the rest of `evalFunc`. The predecessors of a block
are met in any order, because LLVM's use lists fix none; an edge that a
terminator lists twice counts once. The operands of an instruction are data of
the function; names and printing are left out.

Liveness itself is defined apart from the solver: a value is live at a position
if every set of positions closed under "read here, or not redefined here and
read later" holds it (`ClosedFor`, `LiveSet`).

### Repl

A handler is one action with a case for each way it ends: `DefineFunction`,
`FailDefinition`, `HandleExtern`, `EvaluateExpression`, `FailExpression`.
`Found` is `getFunction`; `Asked` is the set of names for which
code generation calls it before it stops, which decides what stays declared in
the open module after an error. Because the success of one reference does not
depend on the others, a body is given by the references of each operand, in
order. Binary operators below the outermost are folded into it: the references
of their operands follow one another. A failing binary operator crashes
(`Crashes`): the code dereferences the prototype it moved.

The object layer of LLVM is external: a module is linked when the first address
in it is asked for, and every module it needs is linked with it (`Finalized`);
a name that is neither in the JIT nor exported by the host ends the process.
The anonymous module of an expression is added, linked, run and removed within
`EvaluateExpression`. Unary operators are ordinary calls with one argument;
text that does not parse is the matter of `Parser`; it changes no
table of the session but a precedence.

### Lexer, Parser and Grammar

A token is a string; `gettok` is the function `Lex` of `Lexer`, from characters
to lexemes, and `Parser` takes the tokens as its input. Each parse function is a
few actions, from its call or from the return of a callee to its next call: a
frame on `stack` has the place at which the function goes on, the node read so
far and the precedence it was called with, and `ret` is the value on its way up.
`ReturnNull` is every `if (!X) return nullptr`. `BinopPrecedence` is changed by
the definition of an operator and erased when its body fails. The handlers are
modelled as far as they read tokens; code generation succeeds or fails, and a
failed binary operator ends the process as in `Repl`. `read` keeps, for each
item, its stretch of the input, its tree and the precedences it was read under.

`Grammar` goes the other way: `Written` writes a tree with no more parentheses
than its precedences, left association and the reach of if, for and var demand.
The parser is compared with it on what it read.

### CodeGen and Scopes

`CodeGen` generates the blocks, instructions and phi nodes of a function. The
codegen methods call one another, so their activations are frames: a frame has the
node, the part generated last (`part`), the values of the parts (`vals`) and the
method's local variables. An action runs one method from its start, or from the
return of a part, to its next call or its end (`GenIf`, `GenFor`, `GenVar`, ...);
`ReturnNullptr` is every `if (!X) return nullptr`, which leaves NamedValues as the
error found it. `Generate` and `Finish` are `FunctionAST::codegen` before and after
the body. The table is handed from one function to the next; parameters, for and
var bind and unbind in it as the code does. The three blocks of an if are made
together; where LLVM inserts them in the function is left out. `CallFunction` and
`Execute` run the generated code one instruction at a time; this is LLVM's part,
external to the code. Numbers are integers modulo `Modulus`; a call writes its
arguments, so the order of evaluation can be observed.

What a body is made of and which names are visible where are the constants `Nodes`
and `Scoped`, because the definition of either is recursive. `NodesAssumption` says
what the parser delivers, and `ScopedAssumption` how the scope of a node is that of its
parts: a for adds its variable to all but the start, a var adds each name to what
comes after its initializer. TLC gives them the recursive definitions (`MCNodes`,
`Lexical`) and evaluates both assumptions on every body.

`Scopes` evaluates the tree under lexical scoping with an environment that is
passed down, and says which names are visible where.

### Callees

A module is a graph of values. The recursion of `getPhiNode`, `getArgFuncptr`,
`getLoadInst` and the others is a search over pairs of a procedure and a value
(`Task`, `Following`); where the search comes back to a pair the program
recurses for ever (`Endless`), and `Overflow` ends the model. `Resolve` is one
call site: the callees found are added to the lists, which the code never
clears, all of them are displayed, and a single one replaces the pointer, so
that later searches see a direct call. `MayBe` is the least solution of what
each value of the module can be, where a call with too few arguments passes
nothing; `Followed` says that every source of the callee is of a kind that the
pass looks at. A store through another pointer to the same place and the
initialiser of a global are sources that neither the pass nor `MayBe` knows; a
use of a function with fewer arguments than the parameter asked for, at which
`getArgOperand` would fail its assertion, is a use without a source.
`ModuleAssumption` says what LLVM keeps of a module: who has operands, and how
many.

`ReplacesRight` is what the code keeps of "if it is determined, replace it with direct
function call" (`function-pointer-analysis/README.md:5`): a call that may call
some function, all by sources that are followed, is replaced, if at all, by the only
one, and no other function was displayed for it. Of other calls it is not true: one for which
nothing is found, because its pointer is null or of a kind that `getFunc`
ignores, is rewritten to what an earlier call left on the list
(`LLVMAssignment.cpp:367`). The run has such calls: in `Callbacks`, where `t` is
loaded from a place that holds the second argument of `apply`, and that is null.

### ValueRange

`FindLoops` is the search for back edges by the order of the blocks. The turn of
the worklist for a block is `TakeFirst` or `TakeBlock`, then for each predecessor,
in the order in which LLVM lists them (any), `LearnFrom` (`handlePredIcmp`: what its
branch says on both edges) and, after all of these, `MergeFrom`; then `ComputeInstr`
for each instruction, which prints the line of a return, and `EndBlock`. The code's
join is never reached (`Liveness.h:88`), so `Merge` keeps the first range; an
operator on two numbers or two names outside +, - and * pushes uninitialised ends
(`Leftovers`). `processLoop` walks a set of block pointers in the order of their
addresses (`order`, any). `Crash` collects the dereferences of null pointers and the
division of numbers by zero.

When the pass is done, a function whose branches all go forward is executed, one
instruction at a time (`Call`, `ExecutePhi`, `ExecuteBinaryOp`, `ExecuteBranch`, ...,
`Trap`, `Return`), on all arguments between -Inf and Inf. The execution is external
to the code, and so is `trusted`, the names of each block whose ranges can be relied
on: the results of instructions that the pass computes as it should from such names
(`Reliable`), and what a block carries to the only block behind it (`Carried`,
`Entering`). `Sound` speaks of those.

### AnalysisPass and its analyses

`AnalysisPass` takes the analysis as constant operators, as the C++ class takes
it as virtual methods: `Merge`, `Flow` (the outgoing edge of an instruction) and
`EdgeTo` (`getOutgoingEdge` for one successor). `EnterBlock` merges the edges of
the predecessors, `AnalyseInstruction` makes one analysis, `CheckSuccessor` is
the call of `blockLoop` for a successor visited before, and `NextBlock` goes on
in layout order, or to the next function of the module. Four things of the code
decide the results, and are kept:

* `blockInstAnalysis` is indexed by block names and is not cleared between
  functions, so a block finds the analyses of an earlier function first;
* from the fourth predecessor on, the third edge is merged again;
* `blockLoop` keeps a pointer to the edge that it is about to recompute, so it
  always finds it unchanged and returns after the first instruction: `BlockLoop`
  is one update. It takes the first analysis kept under the name of the block,
  which in a later function is that of an earlier one: the loop gives it the
  edges of another function and prints the result (`Undisturbed` says of a
  function that no later one does this to it), or divides by zero
  (`LoopDividesByZero`);
* a conditional branch asked for the edge to a block that is not its successor
  returns no edge, which the merge dereferences (`crashed`).

An edge is computed from the instruction and its incoming edge when it is asked
for. In the code the outgoing edges are kept, and computed whenever the incoming
edge is set, which gives the same. A block without predecessors starts with the
same edge as one whose predecessor was not visited, `Bottom`.

Then the program runs: `Call`, `Execute`, `Jump` and `Return` are the execution
of the module that was analysed, external to the code, against which soundness
is stated. `Instructions` gives the meaning of stores, loads, comparisons and
the binary operators in two's complement, independently of what the analyses
compute.

An edge of an analysis (`Lattice`) maps names to facts and has the two flags
top and bottom. `ConstantProp`, `PointerAnalysis` (may and must) and
`AvailableExpr` merge by the common rule `MergeOf`, under which a bottom edge
says nothing; `RangeAnalysis` has a rule of its own, since the code keeps the
ranges that only one edge has. Each module has the flow function, the edges of a
branch, which instructions wake the loop visit, and what its facts say of a run
(`FactsHold`, `RangesHold`, `MustHold`, `MayHold`, `ExpressionsHold`). A
value that the code leaves uninitialised is `Garbage`, in ranges `Wild`: any
value, and any result computed from it. Where the code computes a wrong fact (a product of ranges as a sum, a store through a pointer), the
definition follows the code, and `FoldsRight`, `RangedRight` or `Direct` says
for which instructions the analysis can be trusted; `Reliable` keeps a run to
those. A division of a constant by zero traps the analysis (`DivideByZero`).

### Interpreter

A program is a tree for each function, and a node is known by its path, as the
code knows it by its address; `Nodes` are all the trees in it. The recursion of
the visitor is the sequence `todo`: `VisitNode` and `VisitCondition` put the
children of a node and then its handler on it, `Branch` and `Test` look at a
condition that was visited. Each handler of `Environment.h` is an action; a
declaration of several variables is one step for each. An operator that no
handler knows binds nothing, and what reads its value fails. A frame (`mStack`) keeps the values of variables and nodes
and the node at hand; the heap keeps `mBufs` and `mContents` in cells of four
bytes, wherever the external malloc puts a buffer (`Bases`). Assertions are
taken to be on: `Asserted` collects those of the handlers, and `Abort` is the
failure of one. A return in main reads the back of an empty vector and ends the
model (`RetFromMain`).

`SourceMeaning` evaluates the same trees as C does, with pointers that are no
numbers, variables of each call and returns that leave the function. A state of
it says whether all that was done is `defined`: no integer overflows, what is
read was assigned, memory is used where and as long as it is allocated, and no
pointer is taken for a number. `Supported` is the language for which the
interpreter works, as a grammar: expressions with the operators that have a
handler (`IsExpr`), without sums and differences of pointers and without
assignments, whose value the code keeps nowhere (`Environment.h:252`); `sizeof`
only as the size of an allocation (`IsSize`), since `sizeof(int)` is 8
(`Environment.h:546`); `PRINT`, `FREE` and assignments as statements; blocks as
branches and bodies of loops (`IsBlock`); one return, at the end of each function
(`ReturnsAtEnd`); variables of the function only, with names of their own
(`Scoped`). `PrintsWhatCPrints` says of supported programs, on inputs for which
they are defined in C and when malloc gives addresses that an int holds
(`AddressesFit`), that the interpreter prints what C prints and does not abort.

### Profiling

`InstrumentBlock` is the work of a pass on one block (`Counting`, `Biasing`);
then the program runs, with one action for each kind of instruction, external to
the code, and one for each function of `runtime.cpp`. The counters
(`instr_map`, `branch_count`) are shared by all activations on `stack`. `printed`
and `printedBranch` add up the reports; `executed` and `branched` are what the
program really did. The counts of instructions have `Width` bits, as `uint32_t`
has 32; those of branches, of type `int` in the code, are numbers without bound. The
condition of a branch is chosen when its block is entered.

## Runs

| Run | Question | Result |
|---|---|---|
| `live_variable` | Is the solver right on every order of the worklist? | all properties hold |
| `live_phi_lost` | Are phi operands met (`Dataflow.h:130`)? | no |
| `repl` | Do names keep their promise through failures and redefinitions? | all properties hold |
| `repl_calls` | Is every call made with the right number of arguments (`functional.cpp:809`)? | no |
| `parser` | Does the parser read what was written, under changing precedences, and get past errors? | all properties hold |
| `scopes` | Is the code of a function well-formed and what its tree means, whatever the functions before it left behind? | all properties hold |
| `constants` | Does a run ever contradict the constants printed before an instruction? | all properties hold |
| `passes` | The same for ranges, may and must pointers and available expressions | all properties hold |
| `value_range` | Do the printed ranges contain what the function computes? | all properties hold |
| `callees` | Are all functions that a call can reach displayed, and only the right one put in its place? | all properties hold |
| `interpreter` | Does the interpreter print what C prints, and keep its frames and heap? | all properties hold |
| `profiling` | Is everything that is executed counted and reported once? | all properties hold |

Bounds. The live variable runs take every control flow graph of three blocks in
which all blocks are reachable, which includes loops, self loops, branches that
join, and infinite loops, with two instructions in each block; uses are those
LLVM accepts. Two visits of a block with different OUT sets, late phi operands
and kills all occur there. The session runs take two functions, one of them also
a host function, and an operator, two parameter lists and four bodies (a
parameter beside a call of `g`, a call of each function, an operator), with two
accepted definitions (`MaxDefs`): a redefinition, a call between two functions,
recursion, and a host function that is later defined all occur; failed
definitions, externs and expressions are not bounded.

The parser reads every text of up to two tokens after six beginnings (an
expression to be continued, a definition, an operator, a for, a var, a call) and
of up to three after nothing, so every parse function fails at each of its
tests and recovery starts from each; every definition of an operator with each
kind of precedence, the one beyond 100 included; and, written by `Grammar`, all
expressions of two levels, many of three and every grouping of four operands,
after a definition that makes `@` bind below, between, like or above the
standard operators, or changes `*` itself.

The functions of `scopes` have one parameter and bodies of two levels of every
kind of expression over two names (three levels inside for and var), followed by
a use of either name; three values (`Modulus`) make every loop end or come
round, `MaxSteps` and `Fuel` bound loops that never end, and `cut` marks them.

The constant propagation run takes functions of two to four blocks with one
branch: two sides that meet, one side, a block with three predecessors, a loop
tested at its head and a loop of one block; and modules of two functions whose
blocks have the same names, or the same names in another order, or of which the
second has a loop where the first has a block of the same name. Each block may
store a constant, load, increment or double the one variable, or do nothing;
the branch may test the value loaded against a constant in either order.
Straight functions divide (signed or unsigned, by zero too) and use the bitwise
operators and a shift. Integers have two
bits, so every sum and product can overflow, and the variable starts with each
of their values. `Sound` and `Solved` speak of the functions on which the code
is right (`Analysable`, `Undisturbed`); the loops are there for what the stale
analyses of one function do to another.

The passes run the other three analyses with integers of three bits: ranges on
two tests in a row, with stores on one path, arithmetic of every kind and every
comparison in both orders; pointers on a diamond in which each block may set,
copy or store through pointers; expressions, equal and commuted, computed on one
side or both, in one function or in two with the same block names; and a loop
that two functions share, in which the null edge of `WeirdOnlyInLoops` occurs.

The functions of `value_range` have up to five blocks and two parameters, of
which every value up to `Inf` is tried when the function is executed; all
comparisons and operand orders, holes, and counting loops of every direction and
step. Integers have six bits and `Inf` is 5, so that sums and products of two ranges
leave -Inf..Inf, where nothing is promised, and products wrap too. The modules of `callees` have up to four
calls, visited in two orders: callbacks that are joined, stored, passed on,
returned, chosen by a phi node, kept in an aggregate, null or undefined, and
functions that pass their parameter to themselves.

The interpreter runs every pair of thirteen statements (nested calls, recursion,
comparisons of both outcomes, a loop with a branch inside, an array, allocation
with and without release, a buffer that a function returns) on two inputs,
pointers to pointers as in `test-malloc.c`, six programs that are not defined in
C and twelve that are not supported. Integers have twelve bits, and malloc has
four places, one of them beyond the integers, which stands for an address that a
32-bit int cannot hold.

The profiled programs have a loop in main around no call, one call or two, and a
function that branches, returns with or without a call of itself, or exits;
every outcome of every branch is run up to 22 instructions (`MaxExecuted`).
Nested reports in the middle of a block occur there, and counters of two bits
wrap.

Fairness. `Terminates` of the live variable analysis and of the parser need it:
both are sequential programs, so weak fairness of the next step says that the
program keeps running. Of the parser it says that recovery makes progress: no
text makes the loop or a parse function wait at one token for ever. Nothing else
is assumed.

## Proofs

`LiveVariable_proofs` proves for every set of functions and arguments, from
`FunctionAssumption` (a function is a finite graph of nonempty blocks):

* `TypeCorrect`, the type invariant;
* `NothingSpurious`: `OnlyLive` is an invariant. For each set `L` closed for a
  value, the solver's sets stay below `L`; the invariant is stated for every
  closed set, so it needs no fixpoint;
* `NoBlockForgotten`: `WorklistCovers` is an invariant. It is not inductive
  alone: the block in hand is consistent only below the instruction being
  transferred, and its OUT set covers its successors (`CoverInv`);
* `Exactness`: when the worklist is empty, every block visited and every phi
  operand met, the positions at which the solver has a value form a closed set,
  so the solver has it wherever it is live. It follows from `CoverInv`;
* `ExitReachingVisited`: the blocks visited are those from which an exit can be
  reached, by an invariant on the blocks queued and visited, and `CoverInv`;
* `OneLineDropped` (`OnlyLastCountDropped`), inductive as it stands;
* `NothingLostAgain` (`SetsGrow`): every visit computes a block anew, so a step
  loses nothing only if each set is at most what computing it again would give.
  That is the invariant `BelowRecomputed`, kept because the sets and edges a block
  is computed from grow as well (`RecomputedGrows`). `finalizeBackwardAnalysis`
  adds to the IN sets in the end, where they exceed what the instructions say.

`Repl_proofs` proves, for every set of names, parameter lists and bodies and any
number of definitions, from `NamesAssumption` and `TextAssumption` (what the
parser can deliver):

* `TypeCorrect`: between two handlers the JIT holds functions of the program
  only. It is the base of the others;
* `OperatorsAlwaysResolve`: `OperatorsResolve` is inductive with the types. A
  definition puts the prototype and the module in place together; a failed one
  would leave an operator without a module, but ends the session (`Crashes`);
* `LinkedCodeFrozen` and `LinkedCodeClosed`: the modules linked for an
  expression are the least set closed under its calls, so what is linked calls
  only linked modules, and never the module of the expression, which defines no
  name;
* `FixedArity`: every number of parameters kept anywhere was read for that name
  (`ProtosKnown`, `ModulesKnown`, `CallsKnown`); the calls by an operator need
  `OperatorsResolve`;
* `Implements`: each step of the session is a step of `Definitions`, or changes
  neither the newest definitions nor the last calls. The search for the newest
  module is related to one more module by `NewestAfterAdding`, and exists by
  `Greatest`, a well-founded argument on finite sets.

`Interpreter_proofs` proves `HeapStaysExact`: `HeapExact` is inductive as it
stands, because malloc takes new cells (`MallocKeepsExact`) and the cells of
different buffers are apart (`FreeKeepsExact`). It holds for every program, also
for those that go wrong. `TypeCorrect` (`TypeOK`) is what a handler relies on: a
frame is there, and whatever it finds there or in the memory is an int. `IInv`
adds that all the visitor has to do are nodes of the program. Each handler has
its values from `ReadsInts`, which needs the assertion that they were bound, and
`KidsGood` keeps the nodes. `FramesFollowCalls` (`OneFramePerCall`): what is to be
visited has as many returns as there are frames above the first, and no return is
below a statement (`Frames`, `Part`). Parts of the visitor's list are joined and
taken one by one (`PartsJoin`, `PartRest`), so each step is a sum of returns; a body
adds one (`PartOfBody`), which is where `ReturnsAtEnd` is needed. All hold from
`ProgramAssumption` (what clang accepts:
`IsNode` gives each kind of node its children), `HostAssumption` (the input and
malloc's addresses are integers) and `WidthAssumption` (as below).

`Kaleidoscope_proofs` proves for every vocabulary and every set of texts, from
`TokensAssumption` (characters, names, numbers and keywords are different, and
the program's own operators are characters):

* `TypeCorrect`: the position stays on the text or just past it, precedences
  stay between 0 and 100, whatever is defined and whatever fails, and the main
  loop's handler is at the bottom of the stack;
* `ReadsConsecutively`: `Consecutive` is an invariant: the stretches of the
  items that were read follow one another, overlap nowhere and lie behind the
  parser. It is not inductive alone: `Inv` adds that the item in progress began
  behind the last one and that no parse function moves backwards (`Frames`,
  `Started`, `ReadBefore`). One lemma for each parse function says how it moves.

It proves of code generation, for all bodies of any depth, parameter lists and
functions one after the other, from `CodeGenAssumption`, `NodesAssumption` and
`ScopedAssumption`:

* `BlocksAreWellFormed` (`WellFormed`) and `UnknownNamesRefused`
  (`RefusesUnknown`), which speak of a function that is finished;
* `CodeGenInvariance`, the inductive invariant `CodeGenInv`, which says what they
  mean half way, and was checked by TLC before it was proved. `TypeInv`: each
  activation is at a part of the one below and has the locals that its place in the
  method gives it (`LocalsOK`, `Place`). `Blocks`: every block is finished
  except the current one and those that an if waits to fill, which are empty; different
  activations wait for different blocks; the last block of an if is reached from the
  branches that ended and from nowhere else (`HeldOK`), which is what its phi will
  name, and no branch is made to a block that has its phi (`Phis`). Each way
  to change the builder has a lemma of its own (an instruction, a branch, a new block).
  `NamesOK`: as long as no part failed, all that was generated was in scope, the
  table has exactly the names visible to the activation on top, and the old bindings
  are those that its end must restore. From the first error on the table is
  anything, and what is kept is that the outermost activation that knows of the error
  has a part out of scope: a binary operator goes on with its right operand after its
  left one failed, so the activations above it say nothing any more.

`Profiling_proofs` proves, for every set of programs (recursive and exiting ones
included), runs of any length and counters of any width, from
`ProgramAssumption` (functions are finite lists of blocks, a block ends with its
only branch or return):

* `CountsAll` (`NothingLost`), `BranchesAll` (`BranchesCounted`) and `Reports`
  (`AllReported`). What an activation executed of its block and did not count yet,
  or counted and did not execute yet, depends only on where it is in the block
  (`Pend`, `Lead`, `Bound`). A step changes the share of the last activation of
  the stack, or pushes or pops it (`TogetherChanges`), and each action moves that
  share to or from the map, a report or what was executed. The counters wrap, so
  what is kept is equal modulo 2^Width (`SameWrap`). The reports are complete in
  the end because the last report of main comes after its last counts, and
  nothing but a return follows it (`Reported`);
* `TypeCorrect` (`TypeOK`), for which the passes must leave every instruction in
  its order (`OwnCounting`, `OwnBiasing`): the bias pass builds a block by
  flattening, and `FlattenAppend` says what one more piece adds;
* `Invariance`, the inductive invariant `IInv`: besides the properties it says which
  blocks are instrumented (`CodeShape`), and that every activation below the last
  one is just behind its call (`StackShape`).

`Callees_proofs` proves, for every set of modules and whatever a null callee is
taken for (`Leftovers`), from `ModuleAssumption`:

* `AllListed` (`ListsAll`) and `OnlyTheOne` (`ReplacesRight`: the replacing
  function is the only one the call may call, and was displayed alone or with
  null; of calls that may call none it says nothing, because the code replaces
  those too). Three sets are
  computed by adding until nothing is added: the tasks of the pass, `MayBe`, and
  the sources of a callee. `LeastSet` says that such a set is the least closed one:
  a growing sequence of subsets of a finite set stops within its size
  (`StopsGrowing`). So if what the pass finds for the sources it follows is closed
  under the sources of `MayBe`, it has all that the callee may be (`Finds`, from
  one lemma for each kind of value: `FollowsPhi`, `FollowsArg`, ...);
* `Invariance`, the inductive invariant `IInv`. The properties are not inductive
  alone: the pass reads calls as it replaced them, and finds the functions a phi
  node gives to a replaced call only because the node had no other
  (`CalleesRight`). The calls to come are still as they were read (`ToCome`), and
  for a call that was replaced nothing but its callee and null was displayed
  (`Shown`), which holds because what is on one list is on the other.

`AnalysisPass_proofs` proves for every module of any number of functions and
blocks, from `ModuleAssumption` (the functions are as LLVM keeps them):

* `TypeCorrect`, for any analysis whatever;
* `BranchesAskedRight` (`WeirdOnlyInLoops`) and `EquationsSolved` (`Solved`), for
  any analysis whose edges are `Closed` under its own operations. The invariant
  (`Facts`) says that every instruction analysed so far, in a function whose facts
  stand (`Good`), has one analysis, and that its edge is what the edges before it
  make it (`Fixed`). That needs to know which analysis is the last under a name
  (`Ends`: of the function at hand, because its names differ) and that an
  instruction still to come has none (`Fresh`). `AnalysesLooped` is where a loop
  is shown to leave such functions alone;
* `Soundness` (`Sound`), for any analysis that is `Lawful`: its flow follows the
  instructions it is trusted with, its edges the branches, and a merge says no more
  than each of its edges that is known. The invariant adds what holds of the run:
  the fact at hand is true, and known once the entry was left (`Known`), without
  which a merge might take the edge of another path.

The laws are assumptions of these theorems, and theorems about constant
propagation: the second part of the module proves it lawful (`ConstantsLawful`), for every
width of the integers and any names, so that `ConstantsSound` (`Sound`) and
`ConstantsSolved` (`Solved`) hold of every module made of stores, loads, binary
operators, branches on comparisons and instructions that assign nothing, whose
memory holds integers from the start. `ConstantPropagation` says which operators
the pass is given, as `constants.cfg` gives them. The edges of the theorem are
facts about any names, garbage included; what it takes is that folding means what
the program computes but for what `FoldsRight` leaves out (`FoldMeans`), that an
assignment forgets what was known (`AssignedHolds`) and that a branch is taken only
if what is learnt on its edge is true (`BranchFollows`). The provers know no powers:
`WidthAssumption` says of `Width` that 2^Width is twice 2^(Width - 1), and that the
bitwise operators leave integers; TLC evaluates it in the runs `constants` and
`passes`. Phi nodes and allocas are outside the theorem, as they assign a name that
the flow function does not forget: that is right only if the name was not assigned
before, which is so without loops but is not a law of single edges. For the same
reason pointers and expressions, whose facts name other names, are not lawful, and
ranges are not because their merge keeps the range of a name that only one edge has.
All these are checked by TLC.

`ValueRange_proofs` proves, for every width of the integers, every `Inf` below the
greatest of them, all functions as LLVM's verifier accepts them and whatever
uninitialised variables hold, from `RangeAssumption` and `WidthAssumption`:

* `RangesAreSound` (`Sound`): what a function without loops computes is in the
  ranges of the names that can be relied on, and what it returns is in the line
  printed for the return;
* `LoopsCountRight` (`CountsRight`): the line printed for a counting loop has the
  value at which it ends. The first number of steps for which a comparison fails
  is found by division (`FirstBeyond`), and of all that `processLoop` reads in such
  a loop only one operation answers (`WhileAnswer`);
* `Invariance`, the inductive invariant `IInv`, checked by TLC before it was proved.
  `Sound` speaks of a run long after the pass, so the invariant says of each block
  of a function without loops where its ranges came from: from the branch or the
  outgoing ranges of one predecessor (`EntriesLearnt`), which after the merge has
  every range that a predecessor had (`EntriesMerged`), or from an instruction
  (`RangesRight`: a name that can be relied on is explained by one of the two).
  Running (`ExecutionRight`), every name in sight that can be relied on is in its
  range: a block with one predecessor takes this over, because a branch is taken
  only if what was learnt on its edge is true (`RefinedHolds`, by the kinds of
  tests), and an instruction adds its result (`ComputesRight`; `ProductRight` is
  the lemma on products of ranges). That each name is assigned once
  (`AssignedOnce`) is what lets a range, once printed, stay right. `LoopPrinted`
  says that each line of a function with loops is an answer of `processLoop`.

Only model-checked: the liveness properties (out of the prover's reach); what the
parser makes of a text (`ReadsBack`, `ReadsAsWritten`, `ReadsLayout`),
`ComputesMeaning` of `Scopes` and `PrintsWhatCPrints` of `SourceMeaning`, whose
modules write or evaluate trees by recursive operators; and the analyses of
`RangeAnalysis`, `PointerAnalysis` and `AvailableExpr`.

The induction theorems of the library take an operator as a parameter, which no
installed prover can instantiate. Where an induction on numbers is needed
(sums and flattened sequences in `Profiling_proofs`, growing sets in
`Callees_proofs`), it is done on a set of numbers, by the least number that is
not in it (`Induct`).

## Disagreements found

The findings in `PROJECT.json` quote the lines.

* Live variables: phi operands recorded after their block was processed are
  lost; blocks of infinite loops keep empty sets; the last line of the
  statistics is not printed.
* Session: a failed definition leaves its prototype, so a call is checked
  against a function that does not exist; the error path of a binary operator
  uses a moved prototype; a declaration in the open module overrides the
  parameters of a definition.
* Parser and code generation: any character but `(` and `,` starts a unary
  expression, so an error can swallow the token that would end it; an assignment
  to something that is no name is not refused; a repeated name in a var
  expression stays bound after it.
* CSE231: a loop keeps facts that are no fixed point; a branch of another
  function is asked about a block that is not its successor; a loop overwrites
  and prints the analysis of an earlier function's block; from the fourth
  predecessor on edges are not merged; a shift of constants is an uninitialised
  constant or range; products of ranges are sums, and some ends of ranges are
  uninitialised; a range that only one path has is kept; stores through pointers
  change nothing but the pointer's own facts.
* Interpreter: branches that are no blocks are not executed, a return does not
  end its function, global variables are never found, pointer arithmetic is not
  scaled, an assignment has no value, and `sizeof(int)` is 8. `Supported` leaves
  all of these out, so `PrintsWhatCPrints` says nothing of them.
* Value ranges: the join of two predecessors is never computed; a number minus a
  name has its sign wrong; operators other than sums and products keep a range
  of an operand; unsigned comparisons refine as signed ones; the upper part of a
  range with a hole is dropped; `processLoop` reads uninitialised variables,
  depends on the addresses of blocks and dereferences null; functions that
  return nothing, or branch on no comparison, end the process.
* Function pointers: the callees of one call stay on the list of the next, so
  that a call for which nothing is found is rewritten to an earlier callee; a
  cyclic phi node or a recursive parameter never ends; null brings an
  uninitialised function; elements of aggregates are compared with the type of
  one of them only.
* Profiling: the counts are printed, and cleared, by each function that returns
  and not only at the end of main, and a block that exits is not counted.

## Plan

1. Laws of `AnalysisPass` that speak of the names assigned so far, under which
   pointers, expressions and phi nodes are sound in functions that assign each
   name once.
2. The chapters of Kaleidoscope that write object files and debug information,
   for what they add to the session.

## Not modelled

The chapters of Kaleidoscope that repeat the same handlers without a JIT,
without operators, or with an object file or debug information as output
(`jit.cpp`, `gen-ir.cpp`, `parser.cpp`, `target-triple.cpp`, `dbg_info.cpp`);
`functional.cpp` is the largest of them. `compBackwardDataflow` of the value
ranges and the forward branch of `live-variable-analysis/Dataflow.h`, which
nothing calls. The counting passes of `ucsd-cse231/`, one loop each, and copies
of the profiling passes. The documents, exercises and snippets that have no
program of their own. LLVM itself: its passes (mem2reg between two functions of
the function pointer pass included), LoopInfo, use lists and the object layer
are external and appear as what the code may be given.

Left out of modelled components: printing; the address-of operator of the
interpreter (its value is the address of a syntax node), sizeof of other types,
and the reading of an array's size from the text of its type; constants wider
than 64 bits and calls in constant propagation; the grouping of available
expressions in the output by a comparison that is no strict weak order;
the statistics of several functions in one array.
