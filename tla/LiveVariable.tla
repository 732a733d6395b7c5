---------------------------- MODULE LiveVariable ----------------------------
(***************************************************************************)
(* The live variable analysis of live-variable-analysis/: the backward     *)
(* worklist solver of Dataflow.h run with the transfer function of         *)
(* LiveVariable.cpp on one function.                                       *)
(*                                                                         *)
(* A function is a record                                                  *)
(*   block : the basic blocks, numbered in function order                  *)
(*   succ  : the successors of each block                                  *)
(*   len   : the number of instructions of each block (the last one is     *)
(*           its terminator)                                               *)
(*   op    : the instructions and arguments that an instruction reads      *)
(*   phis  : the instructions that are phi nodes                           *)
(*   inc   : for each phi node its incoming <<block, value>> pairs         *)
(* Instruction i of block b is named <<b, i>>, and so is the value it      *)
(* defines; the other values are the function's arguments.                 *)
(*                                                                         *)
(* One step of the specification is one basic action of the solver: taking *)
(* a block off the worklist, transferring one instruction, comparing the   *)
(* new IN set with the old one.                                            *)
(***************************************************************************)
EXTENDS Naturals, Sequences, FiniteSets, Functions

CONSTANTS
  Function,  \* the functions that may be analysed
  Arg        \* the values that are function arguments

VARIABLES
  fn,        \* the function under analysis
  in, out,   \* IN and OUT set of each block
  nbr,       \* neighbourSpecificValues: phi operands live out of a block
  instrIn,   \* instrInSet: the values live before each instruction
  visited,   \* the blocks taken off the worklist at least once
  worklist,  \* the sequence of blocks still to be processed
  pc,        \* where the analysis is
  cur, ii,   \* the block and the instruction being transferred or counted
  dump, n    \* live_dump on the counts seen so far, and the bound of its printing

solver == <<in, out, nbr, instrIn, visited, worklist>>
stats == <<dump, n>>
vars == <<fn, solver, pc, cur, ii, stats>>

-----------------------------------------------------------------------------
(* The function under analysis.                                            *)

Instr(f) == UNION {{b} \X (1..f.len[b]) : b \in f.block}
Value(f) == Instr(f) \cup Arg
Pred(f, b) == {p \in f.block : b \in f.succ[p]}
Exit(f) == {b \in f.block : f.succ[b] = {}}

\* isDefinition: every instruction but a terminator defines itself.
Def(f, b, i) == IF i = f.len[b] THEN {} ELSE {<<b, i>>}

\* The values an instruction reads at its own place: a phi node reads none.
Use(f, b, i) == IF <<b, i>> \in f.phis THEN {} ELSE f.op[<<b, i>>]

\* The operands a phi node reads at the end of block p.
PhiUse(f, b, i, p) ==
  IF <<b, i>> \in f.phis THEN {v \in Value(f) : <<p, v>> \in f.inc[<<b, i>>]}
  ELSE {}

IsFunction(f) ==
  /\ f.block \in SUBSET Nat /\ IsFiniteSet(f.block) /\ IsFiniteSet(Value(f))
  /\ f.block # {}
  /\ f.succ \in [f.block -> SUBSET f.block]
  /\ f.len \in [f.block -> Nat \ {0}]
  /\ f.op \in [Instr(f) -> SUBSET Value(f)]
  /\ f.phis \in SUBSET Instr(f)
  /\ f.inc \in [Instr(f) -> SUBSET (f.block \X Value(f))]

ASSUME FunctionAssumption == \A f \in Function : IsFunction(f)

\* The orders in which the elements of S can be listed.  The predecessors of a
\* block are met in the order of LLVM's use lists, which the code does not fix.
Listings(S) == {s \in [1..Cardinality(S) -> S] : Range(s) = S}
Increasing(s) == \A i, j \in DOMAIN s : i < j => s[i] < s[j]

-----------------------------------------------------------------------------
\* evalFunc and runOnFunction before the loop: empty sets, and the blocks
\* without successors on the worklist in function order (initializeWorklist).
Init ==
  /\ fn \in Function
  /\ in = [b \in fn.block |-> {}]
  /\ out = [b \in fn.block |-> {}]
  /\ nbr = [b \in fn.block |-> {}]
  /\ instrIn = [p \in Instr(fn) |-> {}]
  /\ visited = {}
  /\ worklist \in {s \in Listings(Exit(fn)) : Increasing(s)}
  /\ pc = "loop"
  /\ cur = 0
  /\ ii = 0
  /\ dump = <<>>
  /\ n = 0

\* The OUT set computed from the successors, the phi operands recorded for the
\* block so far, and the boundary condition of a block without successors.
NewOut(b) ==
  IF fn.succ[b] = {} THEN {}
  ELSE (UNION {in[s] : s \in fn.succ[b]}) \cup nbr[b]

\* Faulty variant: the iterator starts at bb.end().
TakeBlockFromEnd ==
  /\ pc = "loop"
  /\ worklist # <<>>
  /\ worklist' = Tail(worklist)
  /\ cur' = Head(worklist)
  /\ ii' = fn.len[Head(worklist)] + 1
  /\ visited' = visited \cup {Head(worklist)}
  /\ out' = [out EXCEPT ![Head(worklist)] = NewOut(Head(worklist))]
  /\ pc' = "transfer"
  /\ UNCHANGED <<fn, in, nbr, instrIn, stats>>

\* performBackwardAnalysis up to the call of transferFunc.
TakeBlock ==
  /\ pc = "loop"
  /\ worklist # <<>>
  /\ worklist' = Tail(worklist)
  /\ cur' = Head(worklist)
  /\ ii' = fn.len[Head(worklist)]
  /\ visited' = visited \cup {Head(worklist)}
  /\ out' = [out EXCEPT ![Head(worklist)] = NewOut(Head(worklist))]
  /\ pc' = "transfer"
  /\ UNCHANGED <<fn, in, nbr, instrIn, stats>>

\* The set inherited from the next instruction, or from OUT at the terminator.
OutNowIn(b, i) == IF i = fn.len[b] THEN out[b] ELSE instrIn[<<b, i + 1>>]

\* Faulty variants: definitions stay live; operands are flipped, not set.
TransferredNoKill(b, i) == OutNowIn(b, i) \cup Use(fn, b, i)
TransferredFlip(b, i) ==
  LET o == OutNowIn(b, i) \ Def(fn, b, i)
  IN  (o \ Use(fn, b, i)) \cup (Use(fn, b, i) \ o)

Transferred(b, i) == (OutNowIn(b, i) \ Def(fn, b, i)) \cup Use(fn, b, i)

\* One turn of the loop of transferFunc, which runs from the terminator up.
TransferInstr ==
  /\ pc = "transfer"
  /\ instrIn' = [instrIn EXCEPT ![<<cur, ii>>] = Transferred(cur, ii)]
  /\ nbr' = [p \in fn.block |-> nbr[p] \cup PhiUse(fn, cur, ii, p)]
  /\ ii' = ii - 1
  /\ pc' = IF ii = 1 THEN "compare" ELSE "transfer"
  /\ UNCHANGED <<fn, in, out, visited, worklist, cur, stats>>

Changed == instrIn[<<cur, 1>>] # in[cur]

\* Faulty variants: one of the two conditions for queueing is forgotten.
RequeuedUnvisited == {p \in Pred(fn, cur) : p \notin visited}
RequeuedChanged == {p \in Pred(fn, cur) : Changed}

\* The predecessors to process again.
Requeued == {p \in Pred(fn, cur) : Changed \/ p \notin visited}

\* performBackwardAnalysis after the call of transferFunc.
CompareIn ==
  /\ pc = "compare"
  /\ in' = [in EXCEPT ![cur] = instrIn[<<cur, 1>>]]
  /\ \E again \in Listings(Requeued) : worklist' = worklist \o again
  /\ pc' = "loop"
  /\ UNCHANGED <<fn, out, nbr, instrIn, visited, cur, ii, stats>>

\* Faulty variant: the loop also waits until every block was visited.
DrainedAllVisited ==
  /\ pc = "loop"
  /\ worklist = <<>>
  /\ visited = fn.block
  /\ pc' = "finalize"
  /\ UNCHANGED <<fn, solver, cur, ii, stats>>

\* runOnFunction leaves its loop.
Drained ==
  /\ pc = "loop"
  /\ worklist = <<>>
  /\ pc' = "finalize"
  /\ UNCHANGED <<fn, solver, cur, ii, stats>>

\* The block that follows b in function order, as a set.
NextBlock(b) ==
  {c \in fn.block : c > b /\ \A d \in fn.block : d > b => c <= d}

\* finalizeBackwardAnalysis: the phi operands recorded for a block are met into
\* the IN set of every successor.  evalFunc then starts at the first instruction.
Finalize ==
  /\ pc = "finalize"
  /\ in' = [b \in fn.block |-> in[b] \cup UNION {nbr[p] : p \in Pred(fn, b)}]
  /\ \E first \in fn.block :
       /\ \A b \in fn.block : first <= b
       /\ cur' = first
  /\ ii' = 1
  /\ pc' = "calculate"
  /\ UNCHANGED <<fn, out, nbr, instrIn, visited, worklist, stats>>

\* Faulty variant: the bound is the largest count, not one more.
BoundNoIncrement(c) == IF c > n THEN c ELSE n

\* calculate: the bound of the printing loop after a point with c live values.
Bound(c) == IF c > n THEN c + 1 ELSE n

\* live_dump with one more point at which c values are live; an entry that is
\* not in its domain is one that fill_n set to 0.
Recorded(c) ==
  [d \in DOMAIN dump \cup {c} |->
     (IF d \in DOMAIN dump THEN dump[d] ELSE 0) + (IF d = c THEN 1 ELSE 0)]

\* calculate and the loop of evalFunc that calls it on each instruction; a phi
\* node is not counted.
Calculate ==
  /\ pc = "calculate"
  /\ IF <<cur, ii>> \in fn.phis THEN UNCHANGED stats
     ELSE LET count == Cardinality(instrIn[<<cur, ii>>])
          IN  /\ n' = Bound(count)
              /\ dump' = Recorded(count)
  /\ \/ /\ ii < fn.len[cur]
        /\ ii' = ii + 1
        /\ UNCHANGED <<cur, pc>>
     \/ /\ ii = fn.len[cur]
        /\ cur' \in NextBlock(cur)
        /\ ii' = 1
        /\ UNCHANGED pc
     \/ /\ ii = fn.len[cur]
        /\ NextBlock(cur) = {}
        /\ pc' = "done"
        /\ UNCHANGED <<cur, ii>>
  /\ UNCHANGED <<fn, solver>>

Terminated == pc = "done" /\ UNCHANGED vars

Next ==
  \/ TakeBlock
  \/ TransferInstr
  \/ CompareIn
  \/ Drained
  \/ Finalize
  \/ Calculate
  \/ Terminated

Spec == Init /\ [][Next]_vars

\* The analysis is one sequential loop that nothing interrupts, so a step that
\* stays enabled is taken.
FairSpec == Spec /\ WF_vars(Next)

-----------------------------------------------------------------------------
(* What liveness means, independently of the solver.  Position             *)
(* <<b, len[b] + 1>> is the end of block b.  A set of positions is closed  *)
(* for v if it holds every position from which v is read before it is      *)
(* redefined; v is live at the positions that every closed set holds.      *)

Position(f) == UNION {{b} \X (1..(f.len[b] + 1)) : b \in f.block}

ClosedFor(f, v, L) ==
  /\ \A b \in f.block : \A i \in 1..f.len[b] :
       \/ v \in Use(f, b, i)
       \/ <<b, i + 1>> \in L /\ v \notin Def(f, b, i)
       => <<b, i>> \in L
  /\ \A b \in f.block : \A s \in f.succ[b] :
       <<s, 1>> \in L => <<b, f.len[b] + 1>> \in L
  /\ \A b \in f.block : \A i \in 1..f.len[b] : \A p \in f.block :
       v \in PhiUse(f, b, i, p) => <<p, f.len[p] + 1>> \in L

\* The positions at which v is live: those in every closed set.
LiveSet(f, v) ==
  LET Closed == {L \in SUBSET Position(f) : ClosedFor(f, v, L)}
  IN  {q \in Position(f) : \A L \in Closed : q \in L}


-----------------------------------------------------------------------------
(* Properties.                                                             *)

\* The type invariant: every set the solver keeps holds values of the function
\* it analyses, and the loop of transferFunc stays inside the block.
TypeOK ==
  /\ fn \in Function
  /\ in \in [fn.block -> SUBSET Value(fn)]
  /\ out \in [fn.block -> SUBSET Value(fn)]
  /\ nbr \in [fn.block -> SUBSET Value(fn)]
  /\ instrIn \in [Instr(fn) -> SUBSET Value(fn)]
  /\ visited \in SUBSET fn.block
  /\ worklist \in Seq(fn.block)
  /\ pc \in {"loop", "transfer", "compare", "finalize", "calculate", "done"}
  /\ pc \in {"transfer", "compare"} => cur \in visited
  /\ pc \in {"transfer", "calculate"} => <<cur, ii>> \in Instr(fn)
  /\ DOMAIN dump \in SUBSET Nat /\ dump \in [DOMAIN dump -> Nat \ {0}]
  /\ n \in Nat

\* Until finalizeBackwardAnalysis runs, no set claims a value live where it is
\* not: the iterates of the worklist loop stay below the least solution of the
\* equations in the header of LiveVariable.cpp, whatever order blocks come in.
OnlyLive ==
  pc \notin {"calculate", "done"} =>
    \A v \in Value(fn) :
      LET live == LiveSet(fn, v)
      IN  /\ \A q \in Instr(fn) : v \in instrIn[q] => q \in live
          /\ \A b \in fn.block :
               /\ v \in in[b] => <<b, 1>> \in live
               /\ v \in out[b] \cup nbr[b] => <<b, fn.len[b] + 1>> \in live

\* The instructions of block b after position i satisfy the equation
\* in = use \cup (out \ def), and their phi operands are recorded.
SolvedAfter(b, i) ==
  \A j \in 1..fn.len[b] : j > i =>
    /\ instrIn[<<b, j>>] = Transferred(b, j)
    /\ \A p \in fn.block : PhiUse(fn, b, j, p) \subseteq nbr[p]

\* The block in hand between TakeBlock and CompareIn.
InHand == IF pc \in {"transfer", "compare"} THEN {cur} ELSE {}

\* What the worklist guarantees in the middle of the iteration: a visited block
\* that is neither queued nor in hand is consistent with its successors' current
\* IN sets and with its own instructions; a block is unvisited and not queued
\* only if none of its successors has been finished and it is not an exit.
WorklistCovers ==
  pc \notin {"calculate", "done"} =>
    \A b \in fn.block \ (Range(worklist) \cup InHand) :
      IF b \in visited
      THEN /\ \A s \in fn.succ[b] : in[s] \subseteq out[b]
           /\ SolvedAfter(b, 0)
           /\ in[b] = instrIn[<<b, 1>>]
      ELSE /\ fn.succ[b] # {}
           /\ fn.succ[b] \cap visited \subseteq InHand

\* A phi operand reached the OUT set of its incoming block.
PhiOperandsMet == \A p \in fn.block : nbr[p] \subseteq out[p]

\* "For phi node. meet the variables that are live from this specific block"
\* (Dataflow.h:130): once the worklist is empty the phi operands recorded for a
\* visited block are in its OUT set.  The code breaks it: the operands are
\* recorded while a successor is transferred, and the block is queued again only
\* if that successor's IN set changed.
PhiOperandsMetAtEnd ==
  pc = "finalize" => \A p \in visited : nbr[p] \subseteq out[p]

\* When the worklist is empty, every block has been visited and no phi operand
\* arrived too late, the analysis is exact: the values before each instruction
\* are those from which a read can be reached.
ExactWhenDrained ==
  (pc = "finalize" /\ visited = fn.block /\ PhiOperandsMet) =>
    \A v \in Value(fn) : \A q \in LiveSet(fn, v) \cap Instr(fn) : v \in instrIn[q]

\* Blocks from which an exit of the function can be reached.
ReachesExit(f) ==
  {b \in f.block :
     \A R \in SUBSET f.block :
       (Exit(f) \subseteq R /\ \A c \in R : Pred(f, c) \subseteq R) => b \in R}

\* The solver visits exactly the blocks from which an exit can be reached: none
\* is dropped because it was queued or skipped at the wrong moment.
VisitsExitReaching ==
  /\ visited \subseteq ReachesExit(fn)
  /\ pc = "finalize" => ReachesExit(fn) \subseteq visited

\* The statistics lose at most their last line: every count recorded is at most
\* the bound n of the printing loop, which is one above some recorded count.
OnlyLastCountDropped ==
  /\ \A c \in DOMAIN dump : c <= n
  /\ n > 0 => n - 1 \in DOMAIN dump

\* No step removes a value from a set: recomputing a block never loses what an
\* earlier visit found, which is why the loop stops.
SetsGrow ==
  [][/\ \A b \in fn.block : /\ in[b] \subseteq in'[b]
                            /\ out[b] \subseteq out'[b]
                            /\ nbr[b] \subseteq nbr'[b]
     /\ \A q \in Instr(fn) : instrIn[q] \subseteq instrIn'[q]]_vars

\* The worklist drains and the results are printed, for every function.
Terminates == <>(pc = "done")
=============================================================================
