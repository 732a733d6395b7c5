------------------------------- MODULE Lexer --------------------------------
(***************************************************************************)
(* gettok of kaleidoscope/functional_programming_language/functional.cpp:  *)
(* how the characters of the input fall into lexemes.  A lexeme is the     *)
(* sequence of its characters; a keyword is an identifier of that text.    *)
(***************************************************************************)
EXTENDS Naturals, SequencesExt

CONSTANTS Letter, Digit, Space, NewLine  \* isalpha, isdigit, isspace, \n and \r

\* The first position from i on whose character is none of the class C.
EndOf(chars, i, C) ==
  Min({j \in i..(Len(chars) + 1) : j = Len(chars) + 1 \/ chars[j] \notin C})

\* Faulty variant: an identifier has no digits.
Letters == Letter

\* The characters of an identifier after the first.
AlNum == Letter \cup Digit

\* gettok with LastChar at i: the lexeme, <<>> for tok_eof, and where LastChar is
\* afterwards.  A comment lasts until the end of its line.
RECURSIVE gettok(_, _)
gettok(chars, i) ==
  LET a == EndOf(chars, i, Space)
      to(b) == [lexeme |-> SubSeq(chars, a, b - 1), next |-> b]
      line == Min({b \in a..(Len(chars) + 1) : b = Len(chars) + 1 \/ chars[b] \in NewLine})
  IN  CASE a > Len(chars) -> to(a)
        [] a <= Len(chars) /\ chars[a] \in Letter -> to(EndOf(chars, a + 1, AlNum))
        [] a <= Len(chars) /\ chars[a] \in Digit \cup {"."} ->
             to(EndOf(chars, a + 1, Digit \cup {"."}))
        [] a <= Len(chars) /\ chars[a] = "#" -> gettok(chars, line)
        [] OTHER -> to(a + 1)

RECURSIVE LexFrom(_, _)
LexFrom(chars, i) ==
  LET got == gettok(chars, i)
  IN  IF got.lexeme = <<>> THEN <<>> ELSE <<got.lexeme>> \o LexFrom(chars, got.next)

\* What repeated calls of gettok read.
Lex(chars) == LexFrom(chars, 1)

\* Two lexemes that would be read as one without a space between them.
Runs(left, right) ==
  \/ left[1] \in Letter /\ right[1] \in Letter \cup Digit
  \/ left[1] \in Digit \cup {"."} /\ right[1] \in Digit \cup {"."}

\* The characters of the lexemes with the fewest spaces, and with a comment
\* before each one.
Tight(lexemes) ==
  IF lexemes = <<>> THEN <<>>
  ELSE lexemes[1]
         \o FlattenSeq([i \in 1..(Len(lexemes) - 1) |->
              (IF Runs(lexemes[i], lexemes[i + 1]) THEN <<" ">> ELSE <<>>) \o lexemes[i + 1]])
Commented(lexemes) == FlattenSeq([i \in DOMAIN lexemes |-> <<"#", "x", "\n">> \o lexemes[i]])
=============================================================================
