--------------------------- MODULE PointerAnalysis ---------------------------
(***************************************************************************)
(* The may and must pointer analyses of PointerAnalysis.cpp.  An edge      *)
(* gives some names the set of names of the values that were stored to     *)
(* them.  Instructions are                                                 *)
(*   "storep" and "loadp" : through args[1], a pointer to a pointer, of    *)
(*                          args[2], and into to                           *)
(*   "store", "load"      : the same through a pointer to anything else    *)
(* The value of an allocated name is the name itself, its address; that of *)
(* another name is what was assigned to it.                                *)
(***************************************************************************)
EXTENDS Lattice, Sequences

CONSTANTS
  Pointer,     \* the names of pointers, in memory or loaded
  Allocated,   \* the names of allocas and globals
  Unset        \* the value of a pointer that was never stored to

\* handleStoreInst: a store overwrites the set of its pointer operand's name.
StoredTo(facts, instr) ==
  LET erased == Erase(facts, instr.args[1].name)
  IN  IF instr.op = "storep"
      THEN Put(erased, instr.args[1].name, {instr.args[2].name})
      ELSE erased

\* handleLoadInst: the set is copied if the name loaded from has one.
LoadedFrom(facts, instr) ==
  LET erased == Erase(facts, instr.to)
      from == instr.args[1].name
  IN  IF instr.op = "loadp" /\ from \in DOMAIN erased
      THEN Put(erased, instr.to, erased[from]) ELSE erased

\* applyFlowFunction.
FlowPointers(instr, edge) ==
  CASE instr.op \in {"store", "storep"} -> Edge(StoredTo(edge.facts, instr))
    [] instr.op \in {"load", "loadp"} -> Edge(LoadedFrom(edge.facts, instr))
    [] OTHER -> edge

\* getOutgoingEdge(toSuccessor): the same edge to every successor.
PointersTo(instr, edge, n) == FlowPointers(instr, edge)

\* MustPointerAnalysis::merge.
MergeMust(e1, e2) == MergeOf(e1, e2, KeptByBoth(e1.facts, e2.facts))

UnionOfSets(f, g) ==
  [x \in DOMAIN f \cup DOMAIN g |->
     (IF x \in DOMAIN f THEN f[x] ELSE {}) \cup (IF x \in DOMAIN g THEN g[x] ELSE {})]

\* MayPointerAnalysis::merge.
MergeMay(e1, e2) == MergeOf(e1, e2, UnionOfSets(e1.facts, e2.facts))

SetsPointers(instr) == instr.op \in {"store", "storep", "load", "loadp"}

-----------------------------------------------------------------------------
(* What the instructions do, and what the sets say.                        *)

PointerValue(x, s) == IF x \in Allocated THEN x ELSE s[x]

\* The stores after an instruction; one through a pointer that was never set has
\* none.
PointerStores(instr, s) ==
  LET at == PointerValue(instr.args[1].name, s)
  IN  CASE instr.op = "storep" ->
             {[s EXCEPT ![a] = PointerValue(instr.args[2].name, s)] : a \in {at} \ {Unset}}
        [] instr.op = "loadp" -> {[s EXCEPT ![instr.to] = s[a]] : a \in {at} \ {Unset}}
        [] OTHER -> {s}

\* In the must analysis a name holds the value of the name in its set.
MustHold(edge, s) ==
  \A x \in DOMAIN edge.facts : \E y \in edge.facts[x] : s[x] = PointerValue(y, s)

\* In the may analysis every pointer that was set holds the value of one of the
\* names in its set.
MayHold(edge, s) ==
  \A x \in Pointer : s[x] # Unset =>
    x \in DOMAIN edge.facts /\ \E y \in edge.facts[x] : s[x] = PointerValue(y, s)

\* The analysis has no aliases: it follows accesses by the name of their operand.
Direct(instr, edge) ==
  instr.op \in {"storep", "loadp"} => instr.args[1].name \in Allocated
=============================================================================
