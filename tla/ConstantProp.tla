---------------------------- MODULE ConstantProp ----------------------------
(***************************************************************************)
(* The constant propagation of ConstantPropAnalysis.cpp.  An edge says of  *)
(* some names that they hold a constant.                                   *)
(***************************************************************************)
EXTENDS Lattice, Instructions

\* merge: the facts of both.
MergeConstants(e1, e2) == MergeOf(e1, e2, KeptByBoth(e1.facts, e2.facts))

-----------------------------------------------------------------------------
(* The flow functions.                                                     *)

\* handleBinaryOp computes with 64 bits and keeps the low ones.  It divides
\* unsigned numbers as signed ones, and a shift leaves the result uninitialised.
Fold(op, a, b) ==
  CASE Garbage \in {a, b} \/ op \in Shift -> Garbage
    [] Garbage \notin {a, b} /\ op \in {"sdiv", "udiv"} -> Signed(Quotient(a, b))
    [] Garbage \notin {a, b} /\ op \in {"srem", "urem"} -> Signed(Remainder(a, b))
    [] OTHER -> Meaning(op, a, b)

\* tryGetConstantValue: the constant an operand is known to be, or none.
Constant(facts, o) ==
  CASE "const" \in DOMAIN o -> {o.const}
    [] "const" \notin DOMAIN o /\ o.name \in DOMAIN facts -> {facts[o.name]}
    [] OTHER -> {}

\* The facts after an instruction that sets the name x to one of the constants
\* in C, which is empty if the constant is not known.
Assigned(facts, x, C) ==
  IF C = {} THEN Erase(facts, x) ELSE Put(facts, x, CHOOSE c \in C : TRUE)

\* handleStoreInst, handleLoadInst, handleBinaryOp; other instructions copy the
\* incoming edge.  A division of constants by zero ends the pass: no edge.
FlowConstants(instr, edge) ==
  LET known(n) == Constant(edge.facts, instr.args[n])
  IN  CASE instr.op \in {"store", "load"} -> Edge(Assigned(edge.facts, instr.to, known(1)))
        [] instr.op \in BinaryOp ->
             IF instr.op \in Division /\ known(1) # {} /\ known(2) = {0} THEN NoEdge
             ELSE Edge(Assigned(edge.facts, instr.to,
                                {Fold(instr.op, a, b) : a \in known(1), b \in known(2)}))
        [] OTHER -> edge

\* The edge on which a comparison with a constant tells the other operand.
Learns(test, n) == (test = "eq" /\ n = 1) \/ (test = "ne" /\ n = 2)

\* getOutgoingEdge(toSuccessor) and handleConditionalBranchInst.
ConstantsTo(instr, edge, n) ==
  LET known(m) == Constant(edge.facts, instr.args[m])
      learnt(x, c) == Edge(Put(edge.facts, instr.args[x].name, CHOOSE v \in known(c) : TRUE))
  IN  CASE instr.op = "br" /\ n = 0 -> NoEdge
        [] instr.op = "br" /\ n # 0 /\ instr.test # "none" /\ Learns(instr.test, n)
             /\ known(1) = {} /\ known(2) # {} -> learnt(1, 2)
        [] instr.op = "br" /\ n # 0 /\ instr.test # "none" /\ Learns(instr.test, n)
             /\ known(1) # {} /\ known(2) = {} -> learnt(2, 1)
        [] OTHER -> FlowConstants(instr, edge)

SetsFacts(instr) == instr.op \in {"store", "load"} \cup BinaryOp

\* What an edge says is true of a store.
FactsHold(edge, s) == \A x \in DOMAIN edge.facts : s[x] = edge.facts[x]

\* The instructions that are folded as they mean: all but shifts of constants, and
\* unsigned division of constants one of which is negative.
FoldsRight(instr, edge) ==
  LET known(n) == Constant(edge.facts, instr.args[n])
  IN  /\ instr.op \in Shift => {} \in {known(1), known(2)}
      /\ instr.op \in {"udiv", "urem"} => \A c \in known(1) \cup known(2) : c >= 0
=============================================================================
