------------------------------- MODULE Lattice -------------------------------
(***************************************************************************)
(* The edges of the CSE231 analyses (Lattice.h): facts about names, and    *)
(* the two flags.  The facts of an edge are a function from some names to  *)
(* what is known of them.                                                  *)
(***************************************************************************)
EXTENDS Functions

Edge(facts) == [top |-> FALSE, bottom |-> FALSE, facts |-> facts]
NoFacts == [x \in {} |-> 0]
BottomEdge == [top |-> FALSE, bottom |-> TRUE, facts |-> NoFacts]
TopEdge == [top |-> TRUE, bottom |-> FALSE, facts |-> NoFacts]

\* The null pointer: no edge at all.
NoEdge == [facts |-> "null"]

Erase(facts, x) == Restrict(facts, DOMAIN facts \ {x})
Put(facts, x, c) == [y \in DOMAIN facts \cup {x} |-> IF y = x THEN c ELSE facts[y]]

\* Faulty variant: a fact that only one edge has is kept, as in a union.
KeptByOne(f, g) ==
  [x \in {y \in DOMAIN f : y \in DOMAIN g => f[y] = g[y]} |-> f[x]]

\* The facts that both edges have.
KeptByBoth(f, g) == [x \in {y \in DOMAIN f \cap DOMAIN g : f[y] = g[y]} |-> f[x]]

\* The merge of the analyses in which a bottom edge says nothing; two others
\* have the facts both.
MergeOf(e1, e2, both) ==
  CASE e1.top \/ e2.top -> TopEdge
    [] e1.bottom /\ e2.bottom -> BottomEdge
    [] ~e1.top /\ ~e2.top /\ e1.bottom /\ ~e2.bottom -> Edge(e2.facts)
    [] ~e1.top /\ ~e2.top /\ ~e1.bottom /\ e2.bottom -> Edge(e1.facts)
    [] OTHER -> Edge(both)
=============================================================================
