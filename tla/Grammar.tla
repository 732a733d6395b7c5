------------------------------ MODULE Grammar -------------------------------
(***************************************************************************)
(* The grammar of Kaleidoscope, from the other side than Parser: how an    *)
(* expression is written with no more parentheses than its operators need. *)
(* A binary operator groups to the left and binds its operands by its      *)
(* precedence; if, for and var extend as far to the right as they can; a   *)
(* unary operator binds tighter than any binary one.                       *)
(***************************************************************************)
EXTENDS Parser, Lexer

CONSTANT Spelling     \* the characters of each token
CONSTANT Sentence(_)  \* a text has been written without a needless parenthesis

\* The last part of the node is written without parentheses and could take in
\* an operator that follows.
RECURSIVE Open(_, _)
Open(table, node) ==
  CASE node.type \in {"if", "for", "var"} -> TRUE
    [] node.type = "unary" -> node.of[1].type # "binary" /\ Open(table, node.of[1])
    [] node.type = "binary" ->
         /\ node.of[2].type = "binary" => table[node.of[2].name] > table[node.name]
         /\ Open(table, node.of[2])
    [] OTHER -> FALSE

\* The operand on the left of a binary operator needs parentheses.
Loose(table, op, left) ==
  \/ left.type = "binary" /\ table[left.name] < table[op]
  \/ Open(table, left)

\* The operand on its right does.
LooseRight(table, op, right) == right.type = "binary" /\ table[right.name] <= table[op]

Bracketed(needed, text) == IF needed THEN <<"(">> \o text \o <<")">> ELSE text

\* The text of an expression.
RECURSIVE Written(_, _)
Written(table, node) ==
  LET kid(i) == Written(table, node.of[i])
      optional(sep, i) == IF node.of[i] = Absent THEN <<>> ELSE <<sep>> \o kid(i)
      size == Len(node.of)
  IN  CASE node.type \in {"number", "variable", "name"} -> <<node.name>>
        [] node.type = "unary" ->
             <<node.name>> \o Bracketed(node.of[1].type = "binary", kid(1))
        [] node.type = "binary" ->
             Bracketed(Loose(table, node.name, node.of[1]), kid(1))
               \o <<node.name>>
               \o Bracketed(LooseRight(table, node.name, node.of[2]), kid(2))
        [] node.type = "call" ->
             <<node.name, "(">>
               \o FlattenSeq([i \in 1..size |-> (IF i = 1 THEN <<>> ELSE <<",">>) \o kid(i)])
               \o <<")">>
        [] node.type = "if" ->
             <<"if">> \o kid(1) \o <<"then">> \o kid(2) \o <<"else">> \o kid(3)
        [] node.type = "for" ->
             <<"for", node.name, "=">> \o kid(1) \o <<",">> \o kid(2)
               \o optional(",", 3) \o <<"in">> \o kid(4)
        [] node.type = "var" ->
             <<"var">>
               \o FlattenSeq([j \in 1..((size - 1) \div 2) |->
                    (IF j = 1 THEN <<>> ELSE <<",">>)
                      \o kid(2 * j - 1) \o optional("=", 2 * j)])
               \o <<"in">> \o kid(size)

-----------------------------------------------------------------------------
(* Properties.                                                             *)

\* The text that was read for an expression, and for the body of a definition.
Stretch(item) == SubSeq(input, item.from, item.to - 1)

NoParens(text) == SelectSeq(text, LAMBDA tok : tok \notin {"(", ")"})

\* The parser drops, invents and reorders nothing: but for the parentheses, the
\* tokens of what was read are those of the expression it made of them, whatever
\* the text was and whatever operators were defined before.
ReadsBack ==
  \A i \in DOMAIN read :
    read[i].kind # "extern" =>
      IsSuffix(NoParens(Written(read[i].table, read[i].body)), NoParens(Stretch(read[i])))

\* A program is the same with the fewest spaces between its tokens and with
\* comments before them: gettok finds the tokens again.
ReadsLayout ==
  pc = "ended" =>
    LET lexemes == [i \in DOMAIN input |-> Spelling[input[i]]]
    IN  /\ Lex(Tight(lexemes)) = lexemes
        /\ Lex(Commented(lexemes)) = lexemes

\* Operator precedence, associativity and the reach of if, for and var: a text
\* without a needless parenthesis is read as the expression that is written so,
\* also with an operator and a precedence that the line before has defined.
ReadsAsWritten ==
  (pc = "ended" /\ Sentence(input)) =>
    /\ read # <<>>
    /\ Stretch(Last(read)) = Written(Last(read).table, Last(read).body)
=============================================================================
