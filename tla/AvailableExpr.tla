---------------------------- MODULE AvailableExpr ----------------------------
(***************************************************************************)
(* The available expressions of AvailableExprAnalysis.cpp, Expression.cpp  *)
(* and ExpressionContainer.cpp.  An edge gives some names the expression   *)
(* that they were computed from, the operator and the two operands.        *)
(***************************************************************************)
EXTENDS Lattice, Instructions

Commutative == {"add", "mul"} \cup Bitwise

ExpressionOf(instr) == [op |-> instr.op, left |-> instr.args[1], right |-> instr.args[2]]

\* Expression::isEqual, a constant being named by its number.
IsEqual(e, f) ==
  /\ e.op = f.op
  /\ \/ e.left = f.left /\ e.right = f.right
     \/ e.op \in Commutative /\ e.left = f.right /\ e.right = f.left

\* applyFlowFunction, handleBinaryOp, addExpression.
FlowExpressions(instr, edge) ==
  IF instr.op \in BinaryOp THEN Edge(Put(edge.facts, instr.to, ExpressionOf(instr))) ELSE edge

\* getOutgoingEdge(toSuccessor): the same edge to every successor.
ExpressionsTo(instr, edge, n) == FlowExpressions(instr, edge)

EqualInBoth(f, g) ==
  [x \in {y \in DOMAIN f \cap DOMAIN g : IsEqual(f[y], g[y])} |-> f[x]]

\* merge: the names for which both edges have equal expressions.
MergeExpressions(e1, e2) == MergeOf(e1, e2, EqualInBoth(e1.facts, e2.facts))

SetsExpressions(instr) == instr.op \in BinaryOp

\* getVariablesFor: the names that hold the value of an expression.
VariablesFor(edge, e) == {x \in DOMAIN edge.facts : IsEqual(e, edge.facts[x])}

-----------------------------------------------------------------------------
(* What the expressions say: each was computed, and an equal one computed  *)
(* now would have the value of each of its names.                          *)

ExpressionsHold(edge, s) ==
  \A x \in DOMAIN edge.facts :
    LET e == edge.facts[x]
    IN  /\ s[x] # Undefined
        /\ \A y \in VariablesFor(edge, e) :
             s[y] = Meaning(e.op, ValueOf(e.left, s), ValueOf(e.right, s))
=============================================================================
