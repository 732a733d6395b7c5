---------------------------- MODULE MCInterpreter ----------------------------
(***************************************************************************)
(* Small C programs for the interpreter: main reads a number into a, does  *)
(* two of a list of things with a, b, a pointer and two functions, and     *)
(* prints a and b.  Some of the things do not work, or are not defined.    *)
(***************************************************************************)
EXTENDS SourceMeaning

Tree(kind, op, name, val, declared, kids) ==
  [kind |-> kind, op |-> op, name |-> name, val |-> val, vars |-> declared, kids |-> kids]

Num(n) == Tree("int", "", "", n, <<>>, <<>>)
Ref(x) == Tree("ref", "object", x, 0, <<>>, <<>>)
Cst(e) == Tree("cast", "", "", 0, <<>>, <<e>>)
Var(x) == Cst(Ref(x))
Bin(op, l, r) == Tree("binary", op, "", 0, <<>>, <<l, r>>)
Un(op, e) == Tree("unary", op, "", 0, <<>>, <<e>>)
Index(a, i) == Tree("index", "", "", 0, <<>>, <<Var(a), i>>)
SizeOf(type) == Tree("sizeof", type, "", 0, <<>>, <<>>)
SizeOfInt == SizeOf("int")
CallOf(f, args) ==
  Tree("call", "", f, 0, <<>>, <<Cst(Tree("ref", "function", f, 0, <<>>, <<>>))>> \o args)

Set(l, e) == Tree("assign", "=", "", 0, <<>>, <<l, e>>)
Let(x, e) == Set(Ref(x), e)
Block(stmts) == Tree("block", "", "", 0, <<>>, stmts)
If(c, t) == Tree("if", "", "", 0, <<>>, <<c, t>>)
IfElse(c, t, e) == Tree("if", "", "", 0, <<>>, <<c, t, e>>)
While(c, b) == Tree("while", "", "", 0, <<>>, <<c, b>>)
Give(e) == Tree("return", "", "", 0, <<>>, <<e>>)
Show(e) == CallOf("PRINT", <<e>>)
Declare(vs, inits) == Tree("decl", "", "", 0, vs, inits)
Plain(x) == [name |-> x, size |-> 0, init |-> 0]
Deref(x) == Un("*", Var(x))

-----------------------------------------------------------------------------
(* Functions and statements.                                               *)

Names == {"main", "f", "g", "h"}
Params == [n \in Names |-> CASE n = "main" -> <<>> [] n = "f" -> <<"x">> [] n = "g" -> <<"n">>
                             [] n = "h" -> <<"z", "k">>]

\* f gives a value through a variable of its own, g calls itself, h gives a buffer
\* with two elements.
Bodies(main) ==
  [n \in Names |->
     CASE n = "main" -> main
       [] n = "f" -> Block(<<Declare(<<[name |-> "y", size |-> 0, init |-> 1]>>,
                                     <<Bin("+", Var("x"), Num(1))>>),
                             Show(Var("y")), Give(Var("y"))>>)
       [] n = "g" -> Block(<<Declare(<<Plain("r")>>, <<>>), Let("r", Num(0)),
                             If(Bin(">", Var("n"), Num(0)),
                                Block(<<Let("r", Bin("+", Var("n"),
                                               CallOf("g", <<Bin("-", Var("n"), Num(1))>>)))>>)),
                             Give(Var("r"))>>)
       [] n = "h" -> Block(<<Declare(<<[name |-> "m", size |-> 0, init |-> 1]>>,
                                     <<CallOf("MALLOC", <<Cst(Bin("*", SizeOfInt, Cst(Num(2))))>>)>>),
                             Set(Index("m", Var("k")), Var("z")),
                             Set(Index("m", Bin("-", Num(1), Var("k"))), Num(3)), Give(Var("m"))>>)]

Compare(op) == IfElse(Bin(op, Var("a"), Var("b")), Block(<<Let("b", Num(5))>>),
                      Block(<<Show(Un("-", Var("a")))>>))

Statements == {
  Let("a", CallOf("f", <<CallOf("f", <<Var("a")>>)>>)),
  Let("b", Bin("-", CallOf("f", <<Var("a")>>), CallOf("g", <<Var("a")>>))),
  Let("b", Bin("*", CallOf("g", <<Num(2)>>), Un("+", Var("a")))),
  Compare("<"), Compare("<="), Compare("=="), Compare(">="), Compare("!="),
  While(Bin(">", Var("a"), Num(0)),
        Block(<<Let("a", Bin("-", Var("a"), Num(1))), Show(CallOf("f", <<Var("b")>>)),
                If(Bin("==", Var("a"), Num(1)), Block(<<Let("b", Var("a"))>>))>>)),
  Block(<<Declare(<<[name |-> "i", size |-> 0, init |-> 1], [name |-> "v", size |-> 2, init |-> 0]>>, <<Num(0)>>),
          Set(Index("v", Num(0)), Var("a")), Set(Index("v", Num(1)), Var("b")),
          Let("b", Index("v", Var("i")))>>),
  Block(<<Let("p", CallOf("MALLOC", <<SizeOfInt>>)), Set(Deref("p"), Var("a")),
          Let("b", Bin("+", Deref("p"), Var("b"))), CallOf("FREE", <<Var("p")>>)>>),
  Block(<<Let("p", CallOf("h", <<Var("b"), Bin("<", Var("a"), Num(1))>>)), Show(Deref("p")),
          Let("b", Index("p", Num(1)))>>),
  Block(<<Let("p", CallOf("MALLOC", <<Num(1)>>)), Let("a", CallOf("GET", <<>>)),
          CallOf("FREE", <<Var("p")>>)>>)}

\* A pointer to a pointer, as in test-malloc.c.
Pointers ==
  Block(<<Let("p", CallOf("MALLOC", <<SizeOfInt>>)), Declare(<<Plain("d")>>, <<>>),
          Let("d", CallOf("MALLOC", <<SizeOf("pointer")>>)), Set(Deref("d"), Var("p")),
          Set(Un("*", Cst(Deref("d"))), Var("a")), Let("b", Un("*", Cst(Deref("d"))))>>)

\* What C leaves undefined: overflow, values that were never assigned, memory that
\* is too small or was freed.
NotDefined == {
  Let("b", Bin("+", Var("b"), Num(2047))),
  Block(<<Declare(<<Plain("u")>>, <<>>), Let("b", Var("u"))>>),
  Block(<<Let("p", CallOf("MALLOC", <<SizeOfInt>>)), Let("b", Deref("p"))>>),
  Block(<<Let("p", CallOf("MALLOC", <<SizeOfInt>>)), Set(Index("p", Num(1)), Num(7)), Let("b", Index("p", Num(1)))>>),
  Block(<<Let("p", CallOf("MALLOC", <<SizeOfInt>>)), CallOf("FREE", <<Var("p")>>), CallOf("FREE", <<Var("p")>>)>>),
  Block(<<Let("p", CallOf("MALLOC", <<SizeOfInt>>)), Show(Var("p"))>>)}

\* Statements that are written and do not work: a branch, or a loop, that is no block,
\* a return before the end, an operator without a handler, arithmetic on a pointer,
\* an assignment that is used, a size that is.
Unsupported == {
  IfElse(Bin(">", Var("a"), Num(1)), Let("b", Num(7)), Let("b", Num(8))),
  If(Bin(">", Var("a"), Num(1)), Block(<<Give(Num(0))>>)),
  Let("b", Bin("/", Var("a"), Num(2))), Let("b", Un("!", Var("a"))),
  Let("b", Tree("paren", "", "", 0, <<>>, <<Var("a")>>)),
  Block(<<Let("p", CallOf("MALLOC", <<Num(2)>>)), Set(Un("*", Bin("ptr+", Var("p"), Num(1))), Num(1))>>),
  Block(<<Let("p", CallOf("h", <<Var("a"), Num(1)>>)),
          Let("b", Un("*", Bin("ptr-", Bin("ptr+", Var("p"), Num(2)), Num(1))))>>),
  Let("a", Set(Ref("b"), Num(1))), If(Set(Ref("b"), Num(0)), Block(<<Show(Num(1))>>)),
  Tree("assign", "+=", "", 0, <<>>, <<Ref("a"), Num(1)>>),
  Show(SizeOfInt), Let("b", Bin("-", SizeOfInt, Num(4)))}

Main(first, second) ==
  Block(<<Declare(<<Plain("a"), Plain("b")>>, <<>>), Declare(<<Plain("p")>>, <<>>),
          Let("a", CallOf("GET", <<>>)), Let("b", Num(1)), first, second, Show(Var("a")), Show(Var("b"))>>)

ProgramsOf(firsts, seconds) ==
  {[bodies |-> Bodies(Main(s, t)), params |-> Params] : s \in firsts, t \in seconds}

SmallPrograms ==
  ProgramsOf(Statements, Statements) \cup ProgramsOf({Pointers}, {Compare("<"), Pointers})
    \cup ProgramsOf(Unsupported \cup NotDefined, {Compare("<")})

NodesOf(p) == UNION {Within(p.bodies[f]) : f \in DOMAIN p.bodies}

Typed == {<<0>>, <<2, 1>>}
\* Room for three buffers, and an address that is 64 when it is kept as an int.
SomeAddresses == {64, 256, 512, 4160}
=============================================================================
