------------------------------ MODULE MCScopes ------------------------------
(***************************************************************************)
(* Functions of one parameter whose bodies nest two levels of every kind   *)
(* of expression over two names, with a third level inside for and var.    *)
(***************************************************************************)
EXTENDS Scopes

MCName    == {"x", "y"}
MCParams  == {<<"x">>}
MCArity   == [f \in {"f", "@", "!"} |-> CASE f = "f" -> 1 [] f = "@" -> 2 [] f = "!" -> 1]
MCVal     == [n \in {"1", "2"} |-> IF n = "1" THEN 1 ELSE 2]

N(type, name, of) == Node(type, name, of)
V(n) == N("variable", n, <<>>)
One  == N("number", "1", <<>>)
Bin(op, l, r) == N("binary", op, <<l, r>>)
Set(n, e) == Bin("=", V(n), e)

Atoms == {V("x"), V("y"), One, N("call", "g", <<One>>)}

\* g is not declared.  The second operand is fixed to keep the number of expressions small.
Over(S) ==
  {Bin(op, a, V("x")) : op \in {"-", "@"}, a \in S}
  \cup {Bin("<", V("x"), a) : a \in S}
  \cup {Set(n, a) : n \in MCName, a \in S}
  \cup {N("call", "f", <<a>>) : a \in S} \cup {N("unary", "!", <<a>>) : a \in S}
  \cup {N("if", "", <<V("x"), a, V("x")>>) : a \in S}
  \cup {N("if", "", <<a, N("call", "f", <<One>>), a>>) : a \in S}
  \cup {N("for", n, <<a, Bin("<", V(n), One), Absent, N("call", "f", <<V(n)>>)>>) :
          n \in MCName, a \in S}
  \cup {N("for", n, <<One, Bin("<", V("x"), One), s, a>>) :
          n \in MCName, a \in S, s \in {Absent, V("x")}}
  \cup {N("var", "", <<N("name", n, <<>>), i, a>>) :
          n \in MCName, a \in S, i \in {Absent, V("x")}}
  \cup {N("var", "", <<N("name", "y", <<>>), a, N("name", "x", <<>>), V("y"), V("x")>>) : a \in S}

\* A part, and after it what is left in the table.
Then(S) == {Bin("@", a, b) : a \in S, b \in {V("x"), V("y")}}

Two == Atoms \cup Over(Atoms)

\* The expressions in a body.
RECURSIVE MCNodes(_)
MCNodes(n) == {n} \cup UNION {MCNodes(n.of[i]) : i \in Parts(n)}

MCBodies == Two \cup Over(Over(Atoms)) \cup Then(Over(Atoms)) \cup Then(Over(Over(Atoms)))
=============================================================================
