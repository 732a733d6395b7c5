------------------------------- MODULE Syntax -------------------------------
(***************************************************************************)
(* The nodes of kaleidoscope/functional_programming_language/              *)
(* functional.cpp, ExprAST and its subclasses: a type, the name, number or *)
(* operator of the node, and its parts in the order of the members.  The   *)
(* names of a var expression are parts of the type "name", each before its *)
(* initializer.                                                            *)
(***************************************************************************)
EXTENDS Sequences

Node(type, name, of) == [type |-> type, name |-> name, of |-> of]

\* A step or an initializer left out.
Absent == Node("absent", "", <<>>)

\* Faulty variant: a part goes before those already read.
Before(node, kid) == [node EXCEPT !.of = <<kid>> \o @]

\* One more part of a node.
With(node, kid) == [node EXCEPT !.of = Append(@, kid)]
=============================================================================
