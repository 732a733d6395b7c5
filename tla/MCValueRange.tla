---------------------------- MODULE MCValueRange ----------------------------
(***************************************************************************)
(* Straight code, triangles, diamonds and trees of branches over one or    *)
(* two parameters, counting loops, and the functions the pass cannot read. *)
(***************************************************************************)
EXTENDS ValueRange

num(c) == [const |-> c]
var(n) == [name |-> n]
x == var("x")
y == var("y")

ins(op, to, args, test, at) == [op |-> op, to |-> to, args |-> args, test |-> test, at |-> at]
compute(to, op, a, b) == ins(op, to, <<a, b>>, "none", <<>>)
branch(test, a, b, at) == ins("br", "", <<a, b>>, test, at)
goto(b) == ins("goto", "", <<>>, "none", <<b>>)
ret(o) == ins("ret", "", <<o>>, "none", <<>>)
phi(to, args, at) == ins("phi", to, args, "none", at)
fun(params, headers, blocks) == [params |-> params, headers |-> headers, blocks |-> blocks]

\* One instruction, of every kind of operator and operand.
Straight ==
  {fun(<<"x", "y">>, {}, <<<<compute("a", op, a, b), ret(var("a"))>>>>) :
     op \in {"add", "sub", "mul", "sdiv", "udiv", "xor"},
     a \in {x, num(-3), num(4)}, b \in {x, y, num(0), num(2)}}
  \cup {fun(<<"x">>, {}, <<<<ret(num(3))>>>>),
        fun(<<"x">>, {}, <<<<ins("ret", "", <<>>, "none", <<>>)>>>>)}

\* A comparison, and two operators, one below the other, where it holds.
Triangles ==
  {fun(<<"x", "y">>, {},
       <<<<branch(test, a, b, at)>>,
         <<compute("a", op, x, num(2)), compute("b", op2, var("a"), c), goto(3)>>,
         <<phi("r", <<var("b"), x>>, <<2, 1>>), compute("s", "add", x, num(1)), ret(o)>>>>) :
     test \in {"eq", "ne", "sgt", "sle", "ult"}, a \in {x, num(1)}, b \in {x, y, num(2)},
     at \in {<<2, 3>>, <<3, 2>>}, op \in {"add", "mul"}, op2 \in {"sub", "mul"},
     c \in {var("a"), y}, o \in {var("r"), var("s")}}

\* Two operators on the sides of a comparison, joined by a phi node.
Diamonds ==
  {fun(<<"x", "y">>, {},
       <<<<compute("c", op, x, num(-2)), branch(test, var("c"), b, <<2, 3>>)>>,
         <<compute("a", "sub", var("c"), num(1)), goto(4)>>,
         <<compute("b", "add", b, var("c")), goto(4)>>,
         <<phi("r", <<var("a"), o>>, <<2, 3>>), ret(var("r"))>>>>) :
     op \in {"add", "mul"}, test \in {"eq", "ne", "slt", "sge", "ugt"},
     b \in {y, num(-2), num(0)}, o \in {var("b"), num(1), var("c")}}

\* A comparison below a comparison.
Trees ==
  {fun(<<"x", "y">>, {},
       <<<<branch(t1, x, num(1), <<2, 5>>)>>, <<branch(t2, a, b, at)>>,
         <<compute("a", "add", x, y), ret(var("a"))>>, <<ret(x)>>, <<ret(x)>>>>) :
     t1 \in {"eq", "ne", "sgt", "sle"}, t2 \in {"eq", "ne", "slt", "uge", "sge"},
     a \in {x, num(-1)}, b \in {y, num(-1), num(2)}, at \in {<<3, 4>>, <<4, 3>>, <<4, 4>>}}

MCLoops ==
  [start : {-1, 0, 3}, op : {"add", "sub"}, step : {1, 2, 3},
   test : {"slt", "sle", "sgt", "sge"}, bound : {0, 3}, turned : BOOLEAN]
  \cup [start : {0}, op : {"mul"}, step : {2}, test : {"ne", "ult"}, bound : {2}, turned : {FALSE}]

\* A loop that tests what it counted.
DoWhile ==
  {fun(<<"x">>, {2},
       <<<<goto(2)>>,
         <<phi("i", <<x, var("j")>>, <<1, 2>>), compute("j", "add", num(2), var("i")),
           branch(test, a, b, <<2, 3>>)>>,
         <<ret(var("j"))>>>>) :
     test \in {"slt", "eq"}, a \in {var("j"), num(1)}, b \in {num(3), x}}

\* A branch on something that is no comparison.
NoComparison == {fun(<<"x">>, h, <<<<ins("br", "", <<>>, "none", <<2, 2>>)>>, <<ret(x)>>>>) : h \in {{}, {2}}}

\* The result of a call is compared and joined.
Calling ==
  {fun(<<"x">>, {},
       <<<<ins("call", "c", <<x>>, "none", <<>>), compute("a", "add", x, num(1)),
           branch(test, var("a"), var("c"), <<2, 3>>)>>,
         <<compute("b", "sub", var("a"), num(2)), ret(var("b"))>>,
         <<phi("r", <<o>>, <<1>>), ret(var("r"))>>>>) :
     test \in {"sge", "ule"}, o \in {var("a"), var("c")}}

MCFunction ==
  Straight \cup Triangles \cup Diamonds \cup Trees \cup DoWhile \cup NoComparison \cup Calling
  \cup {While(l) : l \in MCLoops}
=============================================================================
