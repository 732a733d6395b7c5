--------------------------- MODULE MCLiveVariable ---------------------------
(***************************************************************************)
(* Small functions for the live variable analysis: three blocks of two     *)
(* instructions (one value, one terminator), block 1 the entry, every      *)
(* control flow graph in which all blocks are reachable, and the operands  *)
(* that LLVM's verifier accepts (a definition dominates its uses).         *)
(***************************************************************************)
EXTENDS LiveVariable

CONSTANT a      \* the argument of the function

Blocks == 1..3

Reachable(succ, without) ==
  LET R[k \in Nat] ==
        IF k = 0 THEN {1} \ without
        ELSE R[k - 1] \cup ((UNION {succ[b] : b \in R[k - 1]}) \ without)
  IN  R[Cardinality(Blocks)]

Graph ==
  {g \in [Blocks -> SUBSET (Blocks \ {1})] : Reachable(g, {}) = Blocks}

\* d dominates b: b cannot be reached without d.
Dominates(g, d, b) == b \notin Reachable(g, {d})

MakeFn(g, op, phis, inc) ==
  [block |-> Blocks, succ |-> g, len |-> [b \in Blocks |-> 2],
   op |-> [p \in Blocks \X (1..2) |-> op[p[1]][p[2]]],
   phis |-> {<<b, 1>> : b \in phis},
   inc |-> [p \in Blocks \X (1..2) |->
              IF p[2] = 1 /\ p[1] \in phis THEN inc[p[1]] ELSE {}]]

val(b) == <<b, 1>>

\* What the terminator of block b may read.
TermOps(g, b) ==
  {{}} \cup {{val(d)} : d \in {e \in Blocks : e = b \/ (e = 1 /\ Dominates(g, e, b))}}

\* Functions without phi nodes.
ScalarFunctions ==
  UNION {{MakeFn(g, <<<<{a}, t1>>, <<{}, t2>>, <<{}, t3>>>>, {}, <<>>) :
            t1 \in {{}, {val(1)}}, t2 \in TermOps(g, 2), t3 \in TermOps(g, 3)} :
         g \in Graph}

\* A phi node of block b: the argument or the value of the predecessor, from
\* each predecessor.
Incoming(g, b) ==
  {{<<p, m[p]>> : p \in Pred([block |-> Blocks, succ |-> g], b)} :
     m \in {h \in [Pred([block |-> Blocks, succ |-> g], b) -> {a} \cup (Blocks \X {1})] :
              \A p \in DOMAIN h : h[p] \in {a, val(p)}}}

\* Functions whose block 2 starts with a phi node.
PhiFunctions ==
  UNION {{MakeFn(g, <<<<{a}, {}>>, <<{}, t2>>, <<{}, t3>>>>, {2}, <<{}, i2, {}>>) :
            t2 \in {{}, {val(2)}}, t3 \in {{}, {val(3)}}, i2 \in Incoming(g, 2)} :
         g \in Graph}

\* Both families.
SmallFunctions == ScalarFunctions \cup PhiFunctions
=============================================================================
