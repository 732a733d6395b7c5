---------------------------- MODULE AnalysisPass ----------------------------
(***************************************************************************)
(* The forward dataflow pass of dataflow-analysis/llvm/src/lib/CSE231/     *)
(* AnalysisPass.h, for any of its analyses, and the programs it is run on. *)
(*                                                                         *)
(* A function is a record                                                  *)
(*   name  : the name of each block; the blocks are 1, 2, ... in layout    *)
(*           order, and two blocks of one function have different names    *)
(*   succ  : the successors of each block, in the order of its terminator  *)
(*   preds : the predecessors of each block, in the order of LLVM's lists  *)
(*   code  : the instructions of each block, the last its terminator       *)
(* and a module is a sequence of functions.  An analysis object is the     *)
(* instruction it is made for and its incoming edge; its outgoing edges    *)
(* are computed from the two whenever the incoming edge is set.            *)
(*                                                                         *)
(* After the pass the module runs: one function, from any initial store.   *)
(***************************************************************************)
EXTENDS Naturals, Sequences, Functions

CONSTANTS
  Module,            \* the modules that may be analysed
  Bottom,            \* the edge of a block that was not visited
  Merge(_, _),       \* T::merge of two edges
  Flow(_, _),        \* the edge after an instruction, from the one before it
  EdgeTo(_, _, _),   \* the edge to the n-th successor; n = 0 for another block
  Null,              \* no edge, and no store
  Wakes(_),          \* the instruction makes every edge known
  Trusted(_, _),     \* the instruction is one that Flow and EdgeTo get right
  Holds(_, _),       \* what an edge says is true of a store
  InitStore,         \* the stores a function may start in
  Stores(_, _),      \* the stores after an instruction
  Branches(_, _)     \* the successors a terminator may choose in a store

IsSequence(s) == s \in Seq(Range(s))

\* The functions are as LLVM keeps them: named blocks, each with instructions, and
\* predecessors that are those of the successors.
ASSUME ModuleAssumption ==
  \A m \in Module :
    /\ IsSequence(m) /\ m # <<>>
    /\ \A k \in DOMAIN m :
         LET blocks == DOMAIN m[k].name
         IN  /\ IsSequence(m[k].name) /\ m[k].name # <<>> /\ IsInjective(m[k].name)
             /\ {DOMAIN m[k].succ, DOMAIN m[k].preds, DOMAIN m[k].code} = {blocks}
             /\ \A b \in blocks :
                  /\ IsSequence(m[k].code[b]) /\ m[k].code[b] # <<>>
                  /\ m[k].succ[b] \in Seq(blocks)
                  /\ IsSequence(m[k].preds[b])
                  /\ Range(m[k].preds[b]) = {p \in blocks : b \in Range(m[k].succ[p])}

VARIABLES
  module,             \* the functions of the module
  blockInstAnalysis,  \* the analyses of each block name
  visitedBlocks,      \* the blocks of the function at hand visited so far
  incomingEdge,       \* the edge into the instruction at hand
  pos,                \* the instruction or successor at hand
  pc,                 \* the phase
  store               \* the store of the function that runs, Null before

vars == <<module, blockInstAnalysis, visitedBlocks, incomingEdge, pos, pc, store>>

BlockName == UNION {UNION {Range(m[k].name) : k \in DOMAIN m} : m \in Module}

Position(k, b, i) == [fn |-> k, block |-> b, i |-> i]

Init ==
  /\ module \in Module
  /\ blockInstAnalysis = [n \in BlockName |-> <<>>]
  /\ visitedBlocks = {}
  /\ incomingEdge = Bottom
  /\ pos = Position(1, 1, 1)
  /\ pc = "block"
  /\ store = Null

-----------------------------------------------------------------------------
(* Edges.                                                                  *)

NameOf(k, b) == module[k].name[b]
Instr(p) == module[p.fn].code[p.block][p.i]

\* Faulty variant: the second successor of a branch is not looked for.
FirstSide(p, k, b) ==
  IF p.fn = k /\ Len(module[k].succ[p.block]) > 0 /\ module[k].succ[p.block][1] = b THEN 1 ELSE 0

\* getOutgoingEdge(toSuccessor): which successor of a terminator a block is.
Side(p, k, b) ==
  LET succ == module[p.fn].succ[p.block]
      sides == {n \in DOMAIN succ : p.fn = k /\ succ[n] = b}
  IN  IF sides = {} THEN 0 ELSE CHOOSE n \in sides : \A o \in sides : n <= o

\* Faulty variant: the analysis of the first instruction is taken.
FirstEdge(k, p, b) ==
  LET analyses == blockInstAnalysis[NameOf(k, p)]
  IN  IF analyses = <<>> THEN Bottom
      ELSE EdgeTo(Instr(Head(analyses).at), Head(analyses).in, Side(Head(analyses).at, k, b))

\* The edge from block p of function k to its block b: that of the last analysis
\* kept under the name of p, which need not be one of function k.
EdgeFrom(k, p, b) ==
  LET analyses == blockInstAnalysis[NameOf(k, p)]
      last == analyses[Len(analyses)]
  IN  IF analyses = <<>> THEN Bottom
      ELSE EdgeTo(Instr(last.at), last.in, Side(last.at, k, b))

Edges(k, b) ==
  LET preds == module[k].preds[b] IN [n \in DOMAIN preds |-> EdgeFrom(k, preds[n], b)]

\* Faulty variant: only the first two edges are merged.
MergedTwo(edges) ==
  CASE Len(edges) = 0 -> Bottom
    [] Len(edges) = 1 -> edges[1]
    [] OTHER -> Merge(edges[1], edges[2])

\* The merge of all edges; from the third turn on the code takes the third edge
\* again (AnalysisPass.h:80).
Merged(edges) ==
  CASE Len(edges) = 0 -> Bottom
    [] Len(edges) = 1 -> edges[1]
    [] OTHER ->
         LET merged[n \in 2..Len(edges)] ==
               IF n = 2 THEN Merge(edges[1], edges[2]) ELSE Merge(merged[n - 1], edges[3])
         IN  merged[Len(edges)]

-----------------------------------------------------------------------------
(* runOnFunction.                                                          *)

\* The predecessors of the next block are merged.  An edge that does not exist
\* is dereferenced.
EnterBlock ==
  /\ pc = "block"
  /\ LET edges == Edges(pos.fn, pos.block)
     IN  \/ /\ Null \in Range(edges)
            /\ pc' = "crashed"
            /\ UNCHANGED <<incomingEdge, visitedBlocks>>
         \/ /\ Null \notin Range(edges)
            /\ incomingEdge' = Merged(edges)
            /\ visitedBlocks' = visitedBlocks \cup {pos.block}
            /\ pc' = "instructions"
  /\ UNCHANGED <<module, blockInstAnalysis, pos, store>>

\* One instruction is analysed; its outgoing edge is the next incoming one.  An
\* analysis that divides by zero ends the pass.
AnalyseInstruction ==
  /\ pc = "instructions"
  /\ Flow(Instr(pos), incomingEdge) # Null
  /\ blockInstAnalysis' =
       [blockInstAnalysis EXCEPT ![NameOf(pos.fn, pos.block)] =
          Append(@, [at |-> pos, in |-> incomingEdge])]
  /\ incomingEdge' = Flow(Instr(pos), incomingEdge)
  /\ IF pos.i < Len(module[pos.fn].code[pos.block])
     THEN pos' = [pos EXCEPT !.i = @ + 1] /\ UNCHANGED pc
     ELSE pos' = [pos EXCEPT !.i = 1] /\ pc' = "successors"
  /\ UNCHANGED <<module, visitedBlocks, store>>

DivideByZero ==
  /\ pc = "instructions"
  /\ Flow(Instr(pos), incomingEdge) = Null
  /\ pc' = "crashed"
  /\ UNCHANGED <<module, blockInstAnalysis, visitedBlocks, incomingEdge, pos, store>>

\* blockLoop(start, end).  The first analysis under the name of start gets the
\* edges merged anew; they exist, or EnterBlock would have crashed for start.  The
\* loop then compares its outgoing edge with itself, both pointers being to the
\* same lattice (AnalysisPass.h:170-175), finds it fixed and returns: the rest of
\* blockLoop is never reached.
BlockLoop(start) ==
  blockInstAnalysis' =
    [blockInstAnalysis EXCEPT ![NameOf(pos.fn, start)][1].in = Merged(Edges(pos.fn, start))]

\* The instruction that is analysed anew may divide by zero.
LoopTraps(start) ==
  Flow(Instr(blockInstAnalysis[NameOf(pos.fn, start)][1].at), Merged(Edges(pos.fn, start))) = Null

\* One successor: a block visited before closes a loop.
CheckSuccessor ==
  /\ pc = "successors"
  /\ LET succ == module[pos.fn].succ[pos.block]
     IN  /\ pos.i \in DOMAIN succ
         /\ \/ /\ succ[pos.i] \in visitedBlocks
               /\ ~LoopTraps(succ[pos.i])
               /\ BlockLoop(succ[pos.i])
            \/ /\ succ[pos.i] \notin visitedBlocks
               /\ UNCHANGED blockInstAnalysis
  /\ pos' = [pos EXCEPT !.i = @ + 1]
  /\ UNCHANGED <<module, visitedBlocks, incomingEdge, pc, store>>

LoopDividesByZero ==
  /\ pc = "successors"
  /\ LET succ == module[pos.fn].succ[pos.block]
     IN  /\ pos.i \in DOMAIN succ
         /\ succ[pos.i] \in visitedBlocks
         /\ LoopTraps(succ[pos.i])
  /\ pc' = "crashed"
  /\ UNCHANGED <<module, blockInstAnalysis, visitedBlocks, incomingEdge, pos, store>>

\* Faulty variant: visitedBlocks is not new for each function.
NextBlockKeepsVisited ==
  /\ pc = "successors"
  /\ pos.i \notin DOMAIN module[pos.fn].succ[pos.block]
  /\ IF pos.block < Len(module[pos.fn].name)
     THEN pos' = Position(pos.fn, pos.block + 1, 1) /\ pc' = "block"
     ELSE IF pos.fn < Len(module)
          THEN pos' = Position(pos.fn + 1, 1, 1) /\ pc' = "block"
          ELSE pc' = "done" /\ UNCHANGED pos
  /\ UNCHANGED <<module, blockInstAnalysis, visitedBlocks, incomingEdge, store>>

\* The next block, or the next function, for which visitedBlocks is a new map and
\* blockInstAnalysis is still the old one; after the last function the pass ends.
NextBlock ==
  /\ pc = "successors"
  /\ pos.i \notin DOMAIN module[pos.fn].succ[pos.block]
  /\ \/ /\ pos.block < Len(module[pos.fn].name)
        /\ pos' = Position(pos.fn, pos.block + 1, 1)
        /\ pc' = "block"
        /\ UNCHANGED visitedBlocks
     \/ /\ pos.block = Len(module[pos.fn].name)
        /\ visitedBlocks' = {}
        /\ IF pos.fn < Len(module)
           THEN pos' = Position(pos.fn + 1, 1, 1) /\ pc' = "block"
           ELSE pc' = "done" /\ UNCHANGED pos
  /\ UNCHANGED <<module, blockInstAnalysis, incomingEdge, store>>

-----------------------------------------------------------------------------
(* The program that was analysed.                                          *)

Call ==
  /\ pc = "done"
  /\ \E k \in DOMAIN module : pos' = Position(k, 1, 1)
  /\ store' \in InitStore
  /\ pc' = "run"
  /\ UNCHANGED <<module, blockInstAnalysis, visitedBlocks, incomingEdge>>

Execute ==
  /\ pc = "run"
  /\ pos.i < Len(module[pos.fn].code[pos.block])
  /\ store' \in Stores(Instr(pos), store)
  /\ pos' = [pos EXCEPT !.i = @ + 1]
  /\ UNCHANGED <<module, blockInstAnalysis, visitedBlocks, incomingEdge, pc>>

\* A division by zero, or an access through no pointer, ends the run.
Trap ==
  /\ pc = "run"
  /\ pos.i < Len(module[pos.fn].code[pos.block])
  /\ Stores(Instr(pos), store) = {}
  /\ pc' = "returned"
  /\ UNCHANGED <<module, blockInstAnalysis, visitedBlocks, incomingEdge, pos, store>>

Jump ==
  /\ pc = "run"
  /\ pos.i = Len(module[pos.fn].code[pos.block])
  /\ \E n \in DOMAIN module[pos.fn].succ[pos.block] \cap Branches(Instr(pos), store) :
       pos' = Position(pos.fn, module[pos.fn].succ[pos.block][n], 1)
  /\ UNCHANGED <<module, blockInstAnalysis, visitedBlocks, incomingEdge, pc, store>>

Return ==
  /\ pc = "run"
  /\ pos.i = Len(module[pos.fn].code[pos.block])
  /\ module[pos.fn].succ[pos.block] = <<>>
  /\ pc' = "returned"
  /\ UNCHANGED <<module, blockInstAnalysis, visitedBlocks, incomingEdge, pos, store>>

Stopped == pc \in {"crashed", "returned"} /\ UNCHANGED vars

Next ==
  \/ EnterBlock \/ AnalyseInstruction \/ DivideByZero
  \/ CheckSuccessor \/ LoopDividesByZero \/ NextBlock
  \/ Call \/ Execute \/ Trap \/ Jump \/ Return \/ Stopped

Spec == Init /\ [][Next]_vars

-----------------------------------------------------------------------------
(* Properties.                                                             *)

\* The functions on which the analysis can be trusted: no block is entered from
\* itself or a later one, no block has more than three predecessors or two equal
\* successors, and an instruction of the entry makes the edge known, which it is
\* not when a function starts.
Analysable(m, k) ==
  LET f == m[k]
  IN  /\ \A b \in DOMAIN f.succ : \A s \in Range(f.succ[b]) : b < s
      /\ \A b \in DOMAIN f.preds : Len(f.preds[b]) <= 3
      /\ \A b \in DOMAIN f.succ : \A n, o \in DOMAIN f.succ[b] :
           f.succ[b][n] = f.succ[b][o] => n = o
      /\ \E i \in 1..(Len(f.code[1]) - 1) : Wakes(f.code[1][i])

\* No function after function k has a loop that begins at a block with the name of
\* one of its blocks: blockLoop would give the analysis of that block the edges of
\* the loop, and print what comes of it.
Undisturbed(m, k) ==
  \A j \in DOMAIN m : j > k =>
    \A b \in DOMAIN m[j].succ : \A s \in Range(m[j].succ[b]) :
      s <= b => m[j].name[s] \notin Range(m[k].name)

\* The analyses of an instruction.
Analyses(p) ==
  {a \in Range(blockInstAnalysis[NameOf(p.fn, p.block)]) : a.at = p}

\* The state has its types: the position is one of the module, the blocks before it
\* are visited, and the analyses of a name are whole blocks with that name, each
\* from its first instruction on.
TypeOK ==
  /\ pos.fn \in DOMAIN module /\ pos.block \in DOMAIN module[pos.fn].name
  /\ pc \in {"block", "instructions", "successors", "done", "crashed", "run", "returned"}
  /\ pc \in {"block", "run"} => pos.i \in DOMAIN module[pos.fn].code[pos.block]
  /\ pc = "block" => visitedBlocks = 1..(pos.block - 1)
  /\ pc = "crashed" => visitedBlocks \in {1..(pos.block - 1), 1..pos.block}
  /\ pc \in {"instructions", "successors"} => visitedBlocks = 1..pos.block
  /\ \A n \in BlockName : \A i \in DOMAIN blockInstAnalysis[n] :
       LET p == blockInstAnalysis[n][i].at
       IN  /\ NameOf(p.fn, p.block) = n
           /\ i > 1 => \/ p.i = 1
                       \/ blockInstAnalysis[n][i - 1].at = Position(p.fn, p.block, p.i - 1)

\* The analysis gets every instruction of function k right.
Reliable(k) ==
  \A b \in DOMAIN module[k].code : \A i \in DOMAIN module[k].code[b] :
    \A a \in Analyses(Position(k, b, i)) : Trusted(module[k].code[b][i], a.in)

\* What the analysis prints before an instruction is true whenever a run of the
\* function gets there, in a module of several functions whose blocks have the
\* same names too, if the analysis gets each instruction of the function right.
Sound ==
  (pc = "run" /\ Analysable(module, pos.fn) /\ Undisturbed(module, pos.fn) /\ Reliable(pos.fn)) =>
     /\ Analyses(pos) # {}
     /\ \A a \in Analyses(pos) : Holds(a.in, store)

\* The edges of function k satisfy its equations.
FixedFacts(k) ==
  \A b \in DOMAIN module[k].code : \A i \in DOMAIN module[k].code[b] :
    \A a \in Analyses(Position(k, b, i)) :
      a.in = IF i > 1
             THEN LET before == CHOOSE c \in Analyses(Position(k, b, i - 1)) : TRUE
                  IN  Flow(Instr(before.at), before.in)
             ELSE LET preds == module[k].preds[b]
                      last(p) == CHOOSE c \in Analyses(Position(k, p, Len(module[k].code[p]))) : TRUE
                  IN  Merged([n \in DOMAIN preds |->
                                EdgeTo(Instr(last(preds[n]).at), last(preds[n]).in,
                                       Side(last(preds[n]).at, k, b))])

\* At the end of the pass the edges of every function without loops, and without a
\* loop in a later function that it shares names with, solve its equations: no edge is that of another function or of an earlier visit.
Solved ==
  pc = "done" => \A k \in DOMAIN module :
    Analysable(module, k) /\ Undisturbed(module, k) => FixedFacts(k)

\* Only in a function with a loop can a branch be asked for the edge to a block
\* that is not its successor ("the world is weird", ConstantPropAnalysis.cpp:68).
WeirdOnlyInLoops ==
  (pc = "crashed" /\ pos.block \notin visitedBlocks) => ~Analysable(module, pos.fn)

-----------------------------------------------------------------------------
(* What an analysis must be for its facts to be true of every run.         *)

\* The modules are made of the instructions in I, each block ends with one of those
\* in T, and its successors have their numbers in N.
MadeOf(I, T, N) ==
  /\ T \subseteq I
  /\ N \subseteq Nat \ {0}
  /\ \A m \in Module : \A k \in DOMAIN m : \A b \in DOMAIN m[k].code :
       /\ m[k].code[b] \in Seq(I)
       /\ m[k].code[b][Len(m[k].code[b])] \in T
       /\ DOMAIN m[k].succ[b] \subseteq N

\* The edges in E are closed under the analysis, and the stores in S under the program.
Closed(I, T, N, E, S) ==
  /\ Bottom \in E /\ Null \notin E
  /\ \A d, e \in E : Merge(d, e) \in E
  /\ \A i \in I, e \in E : Flow(i, e) \in E \cup {Null}
  /\ \A i \in T, e \in E, n \in N : EdgeTo(i, e, n) \in E
  /\ InitStore \subseteq S
  /\ \A i \in I, s \in S : Stores(i, s) \subseteq S

\* The flow follows the instructions it is trusted with, an edge to a successor the
\* branches to it, and a merge says no more than each of two edges that are known.
FollowsRuns(I, T, N, E, S) ==
  /\ \A s \in InitStore : Holds(Bottom, s)
  /\ \A i \in I, e \in E, s \in S :
       Trusted(i, e) /\ Holds(e, s) /\ Flow(i, e) # Null =>
         \A t \in Stores(i, s) : Holds(Flow(i, e), t)
  /\ \A i \in T, e \in E, s \in S :
       Trusted(i, e) /\ Holds(e, s) =>
         \A n \in N \cap Branches(i, s) : Holds(EdgeTo(i, e, n), s)
  /\ \A d, e \in E, s \in S :
       d # Bottom /\ Holds(d, s) => Holds(Merge(d, e), s) /\ Holds(Merge(e, d), s)

\* An edge that is known stays known, and an instruction that wakes makes it known.
StaysKnown(I, T, N, E) ==
  /\ \A i \in I, e \in E : e # Bottom \/ Wakes(i) => Flow(i, e) # Bottom
  /\ \A i \in T, e \in E, n \in N : e # Bottom => EdgeTo(i, e, n) # Bottom
  /\ \A d, e \in E : d # Bottom => Merge(d, e) # Bottom /\ Merge(e, d) # Bottom

Lawful(I, T, N, E, S) ==
  MadeOf(I, T, N) /\ Closed(I, T, N, E, S) /\ FollowsRuns(I, T, N, E, S) /\ StaysKnown(I, T, N, E)
=============================================================================
