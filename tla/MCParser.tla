------------------------------ MODULE MCParser ------------------------------
(***************************************************************************)
(* Three families of texts for Grammar.                                    *)
(*   - Sentences: every expression of two levels over the builtin          *)
(*     operators, many of three and every grouping of four operands, after *)
(*     a definition of the operator @ with a precedence below, between,    *)
(*     equal to and above the builtin ones, or of * anew, which changes    *)
(*     its precedence;                                                     *)
(*   - Fragments: every text of up to MaxLength tokens, after an           *)
(*     expression to be continued, or the beginnings of a definition, a    *)
(*     call, a for and a var; and one more after nothing;                  *)
(*   - Definitions of operators with every precedence.                     *)
(***************************************************************************)
EXTENDS Grammar

MCIdent  == {"x", "f1"}
MCNumber == {"1", "15", "20", "30", "101"}
MCValueIn == [n \in MCNumber |->
                CASE n = "1" -> 1 [] n = "15" -> 15 [] n = "20" -> 20
                  [] n = "30" -> 30 [] n = "101" -> 101]
MCChar   == {"=", "<", "+", "-", "*", "(", ")", ",", ";", "@", "!"}

X == Node("variable", "x", <<>>)

BinaryOf(ops, S, T) == {Node("binary", op, <<a, b>>) : op \in ops, a \in S, b \in T}
Binary(S, T) == BinaryOf({"<", "+", "-", "*", "@"}, S, T)
Rest(S) ==
  {Node("unary", "!", <<a>>) : a \in S}
  \cup {Node("call", "f1", <<a, a>>) : a \in S}
  \cup {Node("if", "", <<a, X, a>>) : a \in S}
  \cup {Node("for", "x", <<X, a, s, a>>) : a \in S, s \in {X, Absent}}
  \cup {Node("var", "", <<Node("name", "x", <<>>), s, Node("name", "f1", <<>>), a, a>>) :
          a \in S, s \in {X, Absent}}

One == {X}
Two == Binary(One, One) \cup Rest(One)
Three == Two \cup Binary(Two, Two) \cup Rest(Two)

\* Three operators in a row, in every grouping.
Few(S, T) == BinaryOf({"+", "*", "@"}, S, T)
Pairs == Few(One, One)
Triples == Few(Pairs, One) \cup Few(One, Pairs)
Chains == Few(Triples, One) \cup Few(One, Triples) \cup Few(Pairs, Pairs)

\* The line before, and the operators it leaves.
Lines == {<<"@", "1">>, <<"@", "15">>, <<"@", "20">>, <<"@", "">>, <<"*", "1">>}
Line(l) ==
  <<"def", "binary", l[1]>> \o (IF l[2] = "" THEN <<>> ELSE <<l[2]>>)
    \o <<"(", "x", "f1", ")", "x", ";">>
TableAfter(l) ==
  [Standard EXCEPT ![l[1]] = IF l[2] = "" THEN 30 ELSE MCValueIn[l[2]]]

Uses(node, op) == \E i \in 1..Len(Written(Standard, node)) :
                    Written(Standard, node)[i] = op

Sentences ==
  UNION {{Line(l) \o Written(TableAfter(l), node) :
            node \in {n \in Three \cup Chains : l[1] = "@" \/ ~Uses(n, "@")}} : l \in Lines}

MaxLength == 2
Tokens == {"x", "1", "101", "(", ")", ",", ";", "=", "+", "@", "def", "extern", "binary",
           "unary", "if", "then", "else", "for", "var", "in"}
Starts == {<<"x", "+">>, <<"def", "f1", "(", "x">>, <<"def", "binary", "@">>,
           <<"for", "x", "=">>, <<"var", "x", "=", "1">>, <<"f1", "(", "x">>}
Fragments ==
  {s \o t : s \in Starts, t \in BoundedSeq(Tokens, MaxLength)}
    \cup BoundedSeq(Tokens, MaxLength + 1)

\* No fragment is as long as the shortest sentence.
MCSentence(text) == Len(text) >= 10

Definitions ==
  {<<"def", kind, op, n, "(", "x", "f1", ")", "1">> :
     kind \in {"unary", "binary"}, op \in MCChar \cup {"x"}, n \in MCNumber}

MCTexts == Definitions \cup Sentences \cup Fragments

-----------------------------------------------------------------------------
(* Spelling.                                                               *)

MCLetter  == {"x", "d", "e", "f", "t", "r", "n", "b", "i", "a", "y", "u", "h", "l", "s", "o", "v"}
MCDigit   == {"0", "1", "2", "3", "5"}
MCSpace   == {" ", "\n"}
MCNewLine == {"\n"}

MCSpelling == [t \in MCIdent \cup MCNumber \cup MCChar \cup Tokens |->
  CASE t = "f1" -> <<"f", "1">> [] t = "15" -> <<"1", "5">> [] t = "20" -> <<"2", "0">>
    [] t = "30" -> <<"3", "0">> [] t = "101" -> <<"1", "0", "1">>
    [] t = "def" -> <<"d", "e", "f">> [] t = "extern" -> <<"e", "x", "t", "e", "r", "n">>
    [] t = "binary" -> <<"b", "i", "n", "a", "r", "y">>
    [] t = "unary" -> <<"u", "n", "a", "r", "y">>
    [] t = "if" -> <<"i", "f">> [] t = "then" -> <<"t", "h", "e", "n">>
    [] t = "else" -> <<"e", "l", "s", "e">> [] t = "for" -> <<"f", "o", "r">>
    [] t = "var" -> <<"v", "a", "r">> [] t = "in" -> <<"i", "n">>
    [] OTHER -> <<t>>]
=============================================================================
