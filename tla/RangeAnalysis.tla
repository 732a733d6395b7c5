---------------------------- MODULE RangeAnalysis ----------------------------
(***************************************************************************)
(* The range analysis of RangeAnalysis.cpp.  An edge says of some names    *)
(* that they lie in a range <<min, max>>.  The empty vector is no range,   *)
(* and Wild one whose ends are uninitialised: they may be anything, and so *)
(* may what is computed from them.                                         *)
(***************************************************************************)
EXTENDS Lattice, Instructions

Full == <<Least, Greatest>>
NoRange == <<>>
Wild == <<Garbage>>

Smaller(a, b) == IF a <= b THEN a ELSE b
Larger(a, b) == IF a >= b THEN a ELSE b

\* Faulty variant: the ends of join, which intersects.
Overlap(r, q) ==
  IF Wild \in {r, q} THEN Wild ELSE <<Larger(r[1], q[1]), Smaller(r[2], q[2])>>

Hull(r, q) ==
  IF Wild \in {r, q} THEN Wild ELSE <<Smaller(r[1], q[1]), Larger(r[2], q[2])>>

\* intersect: no range if there is no common value.
Intersect(r, q) ==
  CASE NoRange \in {r, q} -> NoRange
    [] NoRange \notin {r, q} /\ Wild \in {r, q} -> Wild
    [] OTHER -> LET low == Larger(r[1], q[1])
                    high == Smaller(r[2], q[2])
                IN  IF low <= high THEN <<low, high>> ELSE NoRange

\* merge: the hull of the ranges both edges have, and the ranges only one has.
MergeRanges(e1, e2) ==
  LET f == e1.facts
      g == e2.facts
  IN  CASE e1.top \/ e2.top -> TopEdge
        [] ~e1.top /\ ~e2.top /\ e1.bottom /\ e2.bottom -> BottomEdge
        [] OTHER -> Edge([x \in DOMAIN f \cup DOMAIN g |->
                            CASE x \notin DOMAIN g -> f[x]
                              [] x \notin DOMAIN f -> g[x]
                              [] OTHER -> Hull(f[x], g[x])])

-----------------------------------------------------------------------------
(* The flow functions.                                                     *)

\* tryGetRange; a constant has none.
RangeOf(facts, o) ==
  IF ~IsConst(o) /\ o.name \in DOMAIN facts THEN facts[o.name] ELSE NoRange

\* The facts after x was set to a value in range r.
Ranged(facts, x, r) == IF r = NoRange THEN Erase(facts, x) ELSE Put(facts, x, r)

\* An end of the result, from an end of each operand: products are added.
End(op, a, b) ==
  Signed(CASE op \in {"add", "mul"} -> a + b
           [] op = "sub" -> a - b
           [] op \in {"sdiv", "udiv"} -> Quotient(a, b)
           [] op \in {"srem", "urem"} -> Remainder(a, b))

\* The ends of the result, exchanged by some operators if they are in the wrong
\* order.
Ends(op, r, q) ==
  LET low == End(op, r[1], q[1])
      high == End(op, r[2], q[2])
  IN  IF op \in {"mul"} \cup Division /\ low > high THEN <<high, low>> ELSE <<low, high>>

Exchanged(op, r, q) ==
  op \in {"mul"} \cup Division /\ End(op, r[1], q[1]) > End(op, r[2], q[2])

\* handleBinaryOp for two constants.
FoldedRange(op, a, b) ==
  CASE op \in Shift -> Wild
    [] op \in {"sdiv", "udiv"} -> <<Signed(Quotient(a, b)), Signed(Quotient(a, b))>>
    [] op \in {"srem", "urem"} -> <<Signed(Remainder(a, b)), Signed(Remainder(a, b))>>
    [] OTHER -> <<Meaning(op, a, b), Meaning(op, a, b)>>

\* handleBinaryOp for other operands.  Only a range on the left of a constant
\* yields its ends; otherwise both ends are the temporary of the exchange, which is
\* set only if there was one.  Bitwise operators and shifts set neither.
ComputedRange(op, left, right, r, q) ==
  CASE op \in Bitwise \cup Shift \/ Wild \in {r, q} -> Wild
    [] op \notin Bitwise \cup Shift /\ Wild \notin {r, q} /\ ~IsConst(left) /\ IsConst(right) ->
         Ends(op, r, q)
    [] OTHER -> IF Exchanged(op, r, q) THEN <<Ends(op, r, q)[2], Ends(op, r, q)[2]>> ELSE Wild

\* The divisions that end the pass: by zero, and of two int the least by -1.
Traps(op, left, right, r, q) ==
  /\ op \in Division /\ Wild \notin {r, q}
  /\ \/ 0 \in {q[1], q[2]}
     \/ /\ ~IsConst(left) /\ ~IsConst(right)
        /\ \E n \in 1..2 : r[n] = Least /\ q[n] = -1

FlowBinary(instr, facts) ==
  LET left == instr.args[1]
      right == instr.args[2]
      range(o) == IF IsConst(o) THEN <<o.const, o.const>> ELSE RangeOf(facts, o)
      r == range(left)
      q == range(right)
      known == NoRange \notin {r, q}
      result == IF IsConst(left) /\ IsConst(right)
                THEN FoldedRange(instr.op, left.const, right.const)
                ELSE ComputedRange(instr.op, left, right, r, q)
  IN  CASE ~known -> Edge(Erase(facts, instr.to))
        [] known /\ Traps(instr.op, left, right, r, q) -> NoEdge
        [] OTHER -> Edge(Put(facts, instr.to, result))

\* applyFlowFunction.  A store of an unknown value keeps the flags of the edge.
FlowRanges(instr, edge) ==
  LET facts == edge.facts
      o == instr.args[1]
      stored == IF IsConst(o) THEN <<o.const, o.const>> ELSE RangeOf(facts, o)
  IN  CASE instr.op = "alloca" -> Edge(Put(facts, instr.to, Full))
        [] instr.op = "store" /\ stored = NoRange -> [edge EXCEPT !.facts = Erase(@, instr.to)]
        [] instr.op = "store" /\ stored # NoRange -> Edge(Put(facts, instr.to, stored))
        [] instr.op = "load" -> Edge(Ranged(facts, instr.to, RangeOf(facts, o)))
        [] instr.op \in BinaryOp -> FlowBinary(instr, facts)
        [] OTHER -> edge

-----------------------------------------------------------------------------
(* handleConditionalBranchInst.  Unsigned comparisons count as signed.     *)

Greater == {"sgt", "ugt"}
GreaterEqual == {"sge", "uge"}
Less == {"slt", "ult"}
LessEqual == {"sle", "ule"}

\* The comparison seen from a variable that is its left or right operand, or both.
SeenFrom(test, isLeft, isRight) ==
  CASE test \in {"eq", "ne"} -> test
    [] test \in Greater \cup Less ->
         IF (test \in Greater /\ isLeft) \/ (test \in Less /\ isRight) THEN "gt" ELSE "lt"
    [] test \in GreaterEqual \cup LessEqual ->
         IF (test \in GreaterEqual /\ isLeft) \/ (test \in LessEqual /\ isRight) THEN "ge" ELSE "le"

\* Faulty variant: the false edge of a comparison takes the wrong end of the range.
AllowedWrongEnd(rel, true, q) ==
  CASE (rel = "gt" /\ true) \/ (rel = "le" /\ ~true) -> <<Signed(q[1] + 1), Greatest>>
    [] (rel = "ge" /\ true) \/ (rel = "lt" /\ ~true) -> <<q[1], Greatest>>
    [] (rel = "gt" /\ ~true) \/ (rel = "le" /\ true) -> <<Least, q[1]>>
    [] (rel = "ge" /\ ~true) \/ (rel = "lt" /\ true) -> <<Least, Signed(q[2] - 1)>>
    [] (rel = "eq" /\ true) \/ (rel = "ne" /\ ~true) -> q
    [] OTHER -> Full

\* The values X may have on the true or the false edge of "X rel Y", Y in q.
Allowed(rel, true, q) ==
  CASE (rel = "gt" /\ true) \/ (rel = "le" /\ ~true) -> <<Signed(q[1] + 1), Greatest>>
    [] (rel = "ge" /\ true) \/ (rel = "lt" /\ ~true) -> <<q[1], Greatest>>
    [] (rel = "gt" /\ ~true) \/ (rel = "le" /\ true) -> <<Least, q[2]>>
    [] (rel = "ge" /\ ~true) \/ (rel = "lt" /\ true) -> <<Least, Signed(q[2] - 1)>>
    [] (rel = "eq" /\ true) \/ (rel = "ne" /\ ~true) -> q
    [] OTHER -> Full

\* The facts of one edge after the variable o was compared with a value in q.
Refined(facts, o, r, rel, true, q) ==
  IF (rel = "eq" /\ ~true) \/ (rel = "ne" /\ true) THEN facts
  ELSE Ranged(facts, o.name,
              IF NoRange = r \/ Wild \in {r, q} THEN Intersect(r, q)
              ELSE Intersect(Allowed(rel, true, q), r))

\* The edge to the n-th successor; both operands are refined if both have ranges,
\* from the facts before the branch.
RangesTo(instr, edge, n) ==
  LET left == instr.args[1]
      right == instr.args[2]
      range(o) == IF IsConst(o) THEN <<o.const, o.const>> ELSE RangeOf(edge.facts, o)
      r == range(left)
      q == range(right)
      nothing == \/ IsConst(left) /\ IsConst(right)
                 \/ {RangeOf(edge.facts, left), RangeOf(edge.facts, right)} = {NoRange}
      leftRefined == IF IsConst(left) \/ q = NoRange THEN edge.facts
                     ELSE Refined(edge.facts, left, r,
                                  SeenFrom(instr.test, TRUE, right = left), n = 1, q)
      rightRefined == IF IsConst(right) \/ r = NoRange THEN leftRefined
                      ELSE Refined(leftRefined, right, q,
                                   SeenFrom(instr.test, right = left, TRUE), n = 1, r)
  IN  CASE instr.op = "br" /\ n = 0 -> NoEdge
        [] instr.op = "br" /\ n # 0 /\ (instr.test = "none" \/ nothing) -> edge
        [] instr.op = "br" /\ n # 0 /\ instr.test # "none" /\ ~nothing -> Edge(rightRefined)
        [] OTHER -> FlowRanges(instr, edge)

SetsRanges(instr) == instr.op \in {"alloca", "store", "load"} \cup BinaryOp

-----------------------------------------------------------------------------
(* What the ranges say.                                                    *)

RangesHold(edge, s) ==
  \A x \in DOMAIN edge.facts :
    s[x] # Undefined => edge.facts[x] # Wild /\ s[x] \in edge.facts[x][1]..edge.facts[x][2]

\* The instructions that are computed right: operands whose range is known, two
\* constants, or a constant added to, subtracted from or dividing a range whose
\* ends do not overflow; unsigned operators and comparisons of nonnegative numbers.
RangedRight(instr, edge) ==
  LET range(o) == IF IsConst(o) THEN <<o.const, o.const>> ELSE RangeOf(edge.facts, o)
      known(n) == range(instr.args[n]) \notin {NoRange, Wild}
      r == range(instr.args[1])
      q == range(instr.args[2])
  IN  /\ instr.op \in {"store", "load"} => known(1)
      /\ instr.op \in BinaryOp =>
           /\ known(1) /\ known(2) /\ instr.op \notin Shift
           /\ instr.op \in {"udiv", "urem"} => r[1] >= 0 /\ q[1] >= 0
           /\ \/ IsConst(instr.args[1]) /\ IsConst(instr.args[2])
              \/ /\ IsConst(instr.args[2])
                 /\ \/ instr.op = "add" /\ {r[1] + q[1], r[2] + q[1]} \subseteq Integer
                    \/ instr.op = "sub" /\ {r[1] - q[1], r[2] - q[1]} \subseteq Integer
                    \/ instr.op \in {"sdiv", "udiv"} /\ ~(r[1] = Least /\ q[1] = -1)
      /\ instr.test \in Unsigns =>
           \A n \in 1..2 : known(n) => range(instr.args[n])[1] >= 0
=============================================================================
