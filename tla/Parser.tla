------------------------------- MODULE Parser -------------------------------
(***************************************************************************)
(* The recursive descent parser of                                         *)
(* kaleidoscope/functional_programming_language/functional.cpp and the     *)
(* loop that drives it.                                                    *)
(*                                                                         *)
(* A token is a string: a keyword, an identifier, a number or one          *)
(* character.  The functions call each other, so their activations are     *)
(* frames on a stack: a frame holds the place at which its function goes   *)
(* on (at), the node it has read so far (node) and the precedence it was   *)
(* called with (prec); ret is the value on its way to the frame on top, or *)
(* Nothing while a function is starting.  One action runs one function     *)
(* from a call or a return to the next.                                    *)
(*                                                                         *)
(* Code generation is left to the modules Repl and Scopes: here it         *)
(* succeeds or fails, and a failed binary operator ends the process.       *)
(***************************************************************************)
EXTENDS Syntax, Integers, SequencesExt

CONSTANTS
  Ident,    \* the tokens that are identifiers
  Number,   \* the tokens that are numbers
  ValueIn,  \* the value of a number
  Char,     \* the tokens that are characters; no keyword is one
  Texts,    \* the inputs, sequences of tokens
  Eof       \* the end of the input

VARIABLES
  input,            \* the tokens gettok finds on the standard input
  pos,              \* the token the parser is looking at
  BinopPrecedence,  \* the precedence of each operator, 0 if it has none
  stack,            \* the activations of the parse functions
  ret,              \* the value being returned
  read,             \* what the main loop has read
  pc                \* whether the main loop is still running

vars == <<input, pos, BinopPrecedence, stack, ret, read, pc>>

ASSUME TokensAssumption ==
  /\ Char \cap (Ident \cup Number) = {} /\ Ident \cap Number = {}
  /\ Eof \notin Char \cup Ident \cup Number \cup {"if", "for", "var", "def", "extern"}
  /\ {"=", "<", "+", "-", "*", "(", ")", ",", ";"} \subseteq Char
  /\ ValueIn \in [Number -> Nat]
  /\ \A text \in Texts : text \in Seq(STRING)

\* The empty pointer, and no value at all.
Null    == Node("null", "", <<>>)
Nothing == Node("nothing", "", <<>>)

-----------------------------------------------------------------------------
(* The token buffer.                                                       *)

\* gettok: past the end of the input it keeps answering tok_eof.
TokenAt(p) == IF p \in DOMAIN input THEN input[p] ELSE Eof
CurTok == TokenAt(pos)

\* The token that n calls of getNextToken reach.
After(n) == IF pos + n <= Len(input) THEN pos + n ELSE Len(input) + 1
Follows(n, T) == TokenAt(After(n)) \in T

\* GetTokPrecedence.
GetTokPrecedence(tok) ==
  IF tok \in Char /\ BinopPrecedence[tok] > 0 THEN BinopPrecedence[tok] ELSE -1

\* main: the standard binary operators.
Standard ==
  [c \in Char |-> CASE c = "=" -> 2 [] c = "<" -> 10 [] c \in {"+", "-"} -> 20
                    [] c = "*" -> 40 [] OTHER -> 0]

Init ==
  /\ input \in Texts
  /\ pos = 1
  /\ BinopPrecedence = Standard
  /\ stack = <<>> /\ ret = Nothing
  /\ read = <<>>
  /\ pc = "ready"

-----------------------------------------------------------------------------
(* Activations.                                                            *)

Frame(at, node, prec) == [at |-> at, node |-> node, prec |-> prec]

Calling(at) == pc = "ready" /\ stack # <<>> /\ ret = Nothing /\ Last(stack).at = at
Returned(at) ==
  pc = "ready" /\ stack # <<>> /\ ret \notin {Nothing, Null} /\ Last(stack).at = at

\* The function on top goes on as frame without another call.
Become(frame) == stack' = Append(Front(stack), frame) /\ ret' = Nothing

\* The function on top calls another one and goes on as frame afterwards.
Call(callee, frame) ==
  stack' = Append(Append(Front(stack), frame), Frame(callee, Absent, 0)) /\ ret' = Nothing

Return(value) == stack' = Front(stack) /\ ret' = value

\* A test of CurTok decides between a step and an error.
Expect(n, T, step) ==
  IF Follows(n, T) THEN pos' = After(n + 1) /\ step ELSE pos' = After(n) /\ Return(Null)

Unchanged == UNCHANGED <<input, BinopPrecedence, read, pc>>

\* if (!X) return nullptr, wherever a function is waiting.
ReturnNull ==
  /\ pc = "ready" /\ Len(stack) > 1 /\ ret = Null
  /\ Return(Null)
  /\ UNCHANGED pos /\ Unchanged

-----------------------------------------------------------------------------
(* Primary expressions.                                                    *)

\* Faulty variant: the number is not consumed.
ParseNumberAgain ==
  /\ Calling("primary") /\ CurTok \in Number
  /\ UNCHANGED pos
  /\ Return(Node("number", CurTok, <<>>))
  /\ Unchanged

ParseNumberExpr ==
  /\ Calling("primary") /\ CurTok \in Number
  /\ pos' = After(1)
  /\ Return(Node("number", CurTok, <<>>))
  /\ Unchanged

ParseParenExpr ==
  /\ Calling("primary") /\ CurTok = "("
  /\ pos' = After(1)
  /\ Call("expression", Frame("paren", Absent, 0))
  /\ Unchanged

CloseParen ==
  /\ Returned("paren")
  /\ Expect(0, {")"}, Return(ret))
  /\ Unchanged

\* ParseIdentifierExpr up to the first argument.
ParseIdentifierExpr ==
  /\ Calling("primary") /\ CurTok \in Ident
  /\ LET call == Node("call", CurTok, <<>>)
     IN  IF ~Follows(1, {"("})
         THEN pos' = After(1) /\ Return(Node("variable", CurTok, <<>>))
         ELSE IF Follows(2, {")"})
              THEN pos' = After(3) /\ Return(call)
              ELSE pos' = After(2) /\ Call("expression", Frame("args", call, 0))
  /\ Unchanged

ReadArgument ==
  /\ Returned("args")
  /\ LET call == With(Last(stack).node, ret)
     IN  Expect(0, {")", ","},
                IF CurTok = ")" THEN Return(call)
                ELSE Call("expression", Frame("args", call, 0)))
  /\ Unchanged

ParseIfExpr ==
  /\ Calling("primary") /\ CurTok = "if"
  /\ pos' = After(1)
  /\ Call("expression", Frame("cond", Node("if", "", <<>>), 0))
  /\ Unchanged

\* A part of an expression is followed by a keyword and the next part.
Part(at, T, next) ==
  /\ Returned(at)
  /\ Expect(0, T, Call("expression", Frame(next, With(Last(stack).node, ret), 0)))
  /\ Unchanged

\* The last part of an expression.
LastPart(at) ==
  /\ Returned(at)
  /\ Return(With(Last(stack).node, ret))
  /\ UNCHANGED pos /\ Unchanged

ReadCond == Part("cond", {"then"}, "then")
ReadThen == Part("then", {"else"}, "else")
ReadElse == LastPart("else")

ParseForExpr ==
  /\ Calling("primary") /\ CurTok = "for"
  /\ LET loop == Node("for", TokenAt(After(1)), <<>>)
     IN  IF Follows(1, Ident)
         THEN Expect(2, {"="}, Call("expression", Frame("start", loop, 0)))
         ELSE pos' = After(1) /\ Return(Null)
  /\ Unchanged

ReadStart == Part("start", {","}, "end")

\* The step value is optional.
ReadEnd ==
  /\ Returned("end")
  /\ LET loop == With(Last(stack).node, ret)
     IN  Expect(0, {",", "in"},
                Call("expression",
                     IF CurTok = "," THEN Frame("step", loop, 0)
                     ELSE Frame("body", With(loop, Absent), 0)))
  /\ Unchanged

ReadStep == Part("step", {"in"}, "body")
ReadBody == LastPart("body")

-----------------------------------------------------------------------------
(* var: a name and its initializer at a time.                              *)

ParseVarExpr ==
  /\ Calling("primary") /\ CurTok = "var"
  /\ IF Follows(1, Ident)
     THEN Become(Frame("name", Node("var", "", <<>>), 0))
     ELSE Return(Null)
  /\ pos' = After(1)
  /\ Unchanged

\* What follows a name with its initializer, n tokens ahead.
NextName(n, var) ==
  CASE Follows(n, {","}) ->
         /\ pos' = After(n + 1)
         /\ IF Follows(n + 1, Ident) THEN Become(Frame("name", var, 0)) ELSE Return(Null)
    [] OTHER -> Expect(n, {"in"}, Call("expression", Frame("body", var, 0)))

ReadName ==
  /\ Calling("name")
  /\ LET var == With(Last(stack).node, Node("name", CurTok, <<>>))
     IN  IF Follows(1, {"="})
         THEN pos' = After(2) /\ Call("expression", Frame("init", var, 0))
         ELSE NextName(1, With(var, Absent))
  /\ Unchanged

ReadInit ==
  /\ Returned("init")
  /\ NextName(0, With(Last(stack).node, ret))
  /\ Unchanged

\* ParsePrimary, the default case.
RefuseToken ==
  /\ Calling("primary")
  /\ CurTok \notin Ident \cup Number \cup {"(", "if", "for", "var"}
  /\ Return(Null)
  /\ UNCHANGED pos /\ Unchanged

-----------------------------------------------------------------------------
(* Operators.                                                              *)

\* ParseUnary: any character but ( and , is read as a unary operator.
ParseUnary ==
  /\ Calling("unary")
  /\ IF CurTok \in Char \ {"(", ","}
     THEN pos' = After(1) /\ Call("unary", Frame("operand", Node("unary", CurTok, <<>>), 0))
     ELSE UNCHANGED pos /\ Become(Frame("primary", Absent, 0))
  /\ Unchanged

ReadUnaryOperand == LastPart("operand")

ParseExpression ==
  /\ Calling("expression")
  /\ Call("unary", Frame("lhs", Absent, 0))
  /\ UNCHANGED pos /\ Unchanged

ReadLHS ==
  /\ Returned("lhs")
  /\ Become(Frame("rhs", ret, 0))
  /\ UNCHANGED pos /\ Unchanged

\* ParseBinOpRHS: node is LHS, prec is ExprPrec.
ParseBinOpRHS ==
  /\ Calling("rhs")
  /\ LET lhs == Last(stack).node
         prec == Last(stack).prec
     IN  IF GetTokPrecedence(CurTok) < prec
         THEN UNCHANGED pos /\ Return(lhs)
         ELSE /\ pos' = After(1)
              /\ Call("unary", Frame("right", Node("binary", CurTok, <<lhs>>), prec))
  /\ Unchanged

\* BinOp binds less tightly with RHS than the operator after RHS.
Tighter(op, next) == GetTokPrecedence(op) < GetTokPrecedence(next)

\* Faulty variant: the pending operator takes every operator after it.
RightPrecedenceOf(op) == GetTokPrecedence(op)

\* The least precedence of the operators that the right side may take.
RightPrecedence(op) == GetTokPrecedence(op) + 1

ReadRHS ==
  /\ Returned("right")
  /\ LET node == Last(stack).node
         prec == Last(stack).prec
     IN  IF Tighter(node.name, CurTok)
         THEN /\ stack' = Append(Append(Front(stack), Frame("merge", node, prec)),
                                 Frame("rhs", ret, RightPrecedence(node.name)))
              /\ ret' = Nothing
         ELSE Become(Frame("rhs", With(node, ret), prec))
  /\ UNCHANGED pos /\ Unchanged

MergeRHS ==
  /\ Returned("merge")
  /\ Become(Frame("rhs", With(Last(stack).node, ret), Last(stack).prec))
  /\ UNCHANGED pos /\ Unchanged

-----------------------------------------------------------------------------
(* Prototypes.                                                             *)

NoProto(next) == [proto |-> Null, next |-> next]

\* The parameter list from the token n ahead on: the names up to the first token
\* that is none.
Parameters(kind, name, prec, n) ==
  LET last == Min({k \in n..(n + Len(input) + 1) : ~Follows(k + 1, Ident)})
      args == [k \in 1..(last - n) |-> Node("name", TokenAt(After(n + k)), <<>>)]
  IN  IF ~Follows(n, {"("}) THEN NoProto(n)
      ELSE IF ~Follows(last + 1, {")"}) THEN NoProto(last + 1)
      ELSE IF kind > 0 /\ Len(args) # kind THEN NoProto(last + 2)
      ELSE [proto |-> [type |-> "proto", name |-> name, of |-> args, kind |-> kind,
                       prec |-> prec],
            next |-> last + 2]

\* Faulty variant: any number will do.
AnyPrecedence(number) == TRUE

\* The precedences that a definition may give.
ValidPrecedence(number) == ValueIn[number] \in 1..100

\* ParsePrototype from the token n ahead on: the prototype and the first token it
\* leaves.  A binary operator has the precedence 30 if the text gives none.
ParsePrototype(n) ==
  LET first == TokenAt(After(n))
      op == TokenAt(After(n + 1))
      third == TokenAt(After(n + 2))
  IN  CASE first \in Ident -> Parameters(0, first, 0, n + 1)
        [] first \in {"unary", "binary"} /\ op \notin Char -> NoProto(n + 1)
        [] first = "unary" /\ op \in Char -> Parameters(1, op, 0, n + 2)
        [] first = "binary" /\ op \in Char /\ third \notin Number ->
             Parameters(2, op, 30, n + 2)
        [] first = "binary" /\ op \in Char /\ third \in Number ->
             IF ValidPrecedence(third)
             THEN Parameters(2, op, ValueIn[third], n + 3)
             ELSE NoProto(n + 2)
        [] OTHER -> NoProto(n)

-----------------------------------------------------------------------------
(* The handlers.                                                           *)

Waiting == pc = "ready" /\ stack = <<>> /\ ret = Nothing

\* What the main loop read, between two positions and with which operators.
Item(kind, proto, body, from, to) ==
  [kind |-> kind, proto |-> proto, body |-> body, from |-> from, to |-> to,
   table |-> BinopPrecedence]

\* Faulty variant: a handler that fails leaves the token where it is.
SkipNothing(n) == After(n)

\* Skip token for error recovery: the one that a failed parse stopped at, n ahead.
SkipToken(n) == After(n + 1)

\* HandleDefinition, ParseDefinition up to the body.
HandleDefinition ==
  /\ Waiting /\ CurTok = "def"
  /\ LET def == ParsePrototype(1)
     IN  IF def.proto = Null
         THEN pos' = SkipToken(def.next) /\ UNCHANGED <<stack, ret>>
         ELSE /\ pos' = After(def.next)
              /\ stack' = <<Frame("define", def.proto, pos), Frame("expression", Absent, 0)>>
              /\ UNCHANGED ret
  /\ Unchanged

\* Faulty variant: an operator that has a precedence keeps it.
InstalledOnce(proto) ==
  IF proto.kind = 2 /\ BinopPrecedence[proto.name] = 0
  THEN [BinopPrecedence EXCEPT ![proto.name] = proto.prec] ELSE BinopPrecedence

\* FunctionAST::codegen installs an operator before it generates the body.
Installed(proto) ==
  IF proto.kind = 2 THEN [BinopPrecedence EXCEPT ![proto.name] = proto.prec]
  ELSE BinopPrecedence

\* HandleDefinition, the body was read.  If it is not generated, the operator
\* would be removed, but its name is read through the pointer that was moved from.
FinishDefinition ==
  /\ Returned("define") /\ Len(stack) = 1
  /\ \E generated \in BOOLEAN :
       LET proto == Last(stack).node
       IN  /\ BinopPrecedence' = Installed(proto)
           /\ pc' = IF ~generated /\ proto.kind = 2 THEN "crashed" ELSE pc
           /\ read' = Append(read, Item("definition", proto, ret, Last(stack).prec, pos))
  /\ stack' = <<>> /\ ret' = Nothing
  /\ UNCHANGED <<input, pos>>

\* HandleExtern.
HandleExtern ==
  /\ Waiting /\ CurTok = "extern"
  /\ LET extern == ParsePrototype(1)
     IN  IF extern.proto = Null
         THEN pos' = SkipToken(extern.next) /\ UNCHANGED read
         ELSE /\ pos' = After(extern.next)
              /\ read' = Append(read, Item("extern", extern.proto, Absent, pos,
                                           After(extern.next)))
  /\ UNCHANGED <<input, BinopPrecedence, stack, ret, pc>>

\* HandleTopLevelExpression, ParseTopLevelExpr.
HandleTopLevelExpression ==
  /\ Waiting /\ CurTok \notin {Eof, ";", "def", "extern"}
  /\ stack' = <<Frame("evaluate", Absent, pos), Frame("expression", Absent, 0)>>
  /\ UNCHANGED <<pos, ret>> /\ Unchanged

\* HandleTopLevelExpression, the expression was read.
FinishExpression ==
  /\ Returned("evaluate") /\ Len(stack) = 1
  /\ read' = Append(read, Item("expression", Absent, ret, Last(stack).prec, pos))
  /\ stack' = <<>> /\ ret' = Nothing
  /\ UNCHANGED <<input, pos, BinopPrecedence, pc>>

\* Either handler, the expression was not read.
Recover ==
  /\ pc = "ready" /\ Len(stack) = 1 /\ ret = Null
  /\ pos' = SkipToken(0)
  /\ stack' = <<>> /\ ret' = Nothing
  /\ Unchanged

\* MainLoop: top-level semicolons are ignored.
IgnoreSemicolon ==
  /\ Waiting /\ CurTok = ";"
  /\ pos' = After(1)
  /\ UNCHANGED <<stack, ret>> /\ Unchanged

\* MainLoop: tok_eof.
End ==
  /\ Waiting /\ CurTok = Eof
  /\ pc' = "ended"
  /\ UNCHANGED <<input, pos, BinopPrecedence, stack, ret, read>>

Stopped == pc # "ready" /\ UNCHANGED vars

Primary ==
  \/ ParseNumberExpr \/ ParseParenExpr \/ CloseParen \/ ParseIdentifierExpr
  \/ ReadArgument \/ ParseIfExpr \/ ReadCond \/ ReadThen \/ ReadElse
  \/ ParseForExpr \/ ReadStart \/ ReadEnd \/ ReadStep \/ ReadBody
  \/ ParseVarExpr \/ ReadName \/ ReadInit \/ RefuseToken

Operators ==
  \/ ParseUnary \/ ReadUnaryOperand \/ ParseExpression \/ ReadLHS
  \/ ParseBinOpRHS \/ ReadRHS \/ MergeRHS \/ ReturnNull

MainLoop ==
  \/ HandleDefinition \/ FinishDefinition \/ HandleExtern
  \/ HandleTopLevelExpression \/ FinishExpression \/ Recover
  \/ IgnoreSemicolon \/ End

Next == Primary \/ Operators \/ MainLoop \/ Stopped

\* The program is sequential: it goes on as long as it is running.
Spec == Init /\ [][Next]_vars /\ WF_vars(Next)

-----------------------------------------------------------------------------
(* Properties.                                                             *)

\* The type invariant: precedences are 1 to 100 or none, a waiting loop returns
\* nothing, and a handler is at the bottom of the stack and nowhere else.
TypeOK ==
  /\ input \in Seq(STRING)
  /\ pos \in 1..(Len(input) + 1)
  /\ BinopPrecedence \in [Char -> 0..100]
  /\ stack = <<>> => ret = Nothing
  /\ \A i \in DOMAIN stack :
       /\ stack[i].at \in {"define", "evaluate"} <=> i = 1
       /\ stack[i].prec \in Nat
  /\ pc \in {"ready", "ended", "crashed"}

\* No token is read twice and nothing is read without a token: through every
\* error and its recovery (the getNextToken of the handlers), what the main loop
\* reads are non-empty stretches of the input, one after the other.
Consecutive ==
  \A i \in DOMAIN read :
    /\ read[i].from < read[i].to /\ read[i].to <= pos
    /\ i > 1 => read[i - 1].to <= read[i].from

\* Whatever the text, the main loop comes to its end, or the process does: no
\* token makes a parse function or the error recovery of a handler go on for ever.
Terminates == <>(pc # "ready")
=============================================================================
