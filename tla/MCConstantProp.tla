--------------------------- MODULE MCConstantProp ---------------------------
(***************************************************************************)
(* Small modules for constant propagation: one variable, which each block  *)
(* may store to, load, or change, with branches on the values loaded.      *)
(***************************************************************************)
EXTENDS AnalysisPass, ConstantProp, SequencesExt

CONSTANTS
  x        \* the variable

num(c) == [const |-> c]
var(v) == [name |-> v]
ins(op, to, args, test) == [op |-> op, to |-> to, args |-> args, test |-> test]

\* The values that block b loads and computes.
t(b) == b
u(b) == 10 + b

\* What a block does before its terminator.
Nothing == <<>>
StoreOne == <<ins("store", x, <<num(1)>>, "none")>>
StoreLeast == <<ins("store", x, <<num(-2)>>, "none")>>
Load(b) == <<ins("load", t(b), <<var(x)>>, "none")>>
Change(b, op, args) ==
  Load(b) \o <<ins(op, u(b), args, "none"), ins("store", x, <<var(u(b))>>, "none")>>
Increment(b) == Change(b, "add", <<var(t(b)), num(1)>>)
Double(b) == Change(b, "mul", <<num(2), var(t(b))>>)

Bodies(b) == {Nothing, StoreOne, StoreLeast, Load(b), Increment(b), Double(b)}

\* The terminators of a block with this body and two successors.
Terminators(b, body) ==
  {ins("br", t(b), <<var(t(b))>>, "none")} \cup
  (IF body \in {Load(b), Increment(b), Double(b)}
   THEN {ins("br", t(b), args, test) :
           args \in {<<var(t(b)), num(1)>>, <<num(1), var(t(b))>>}, test \in {"eq", "ne"}}
   ELSE {})

\* The functions of a shape in which at most one block has two successors.  The
\* predecessors of a block are listed upward or downward.
Functions(names, succ, bodies) ==
  LET blocks == DOMAIN succ
      forks == {b \in blocks : Len(succ[b]) = 2}
      contents == {h \in [blocks -> UNION Range(bodies)] : \A b \in blocks : h[b] \in bodies[b]}
      ends(h) == IF forks = {} THEN {ins("jump", x, <<>>, "none")}
                 ELSE UNION {Terminators(b, h[b]) : b \in forks}
      from(b) == SetToSortSeq({p \in blocks : b \in Range(succ[p])}, <)
  IN  UNION {{[name |-> names, succ |-> succ,
               preds |-> [b \in blocks |-> IF up THEN from(b) ELSE Reverse(from(b))],
               code |-> [b \in blocks |->
                           Append(h[b], IF b \in forks THEN e ELSE ins("jump", x, <<>>, "none"))]] :
                e \in ends(h), up \in BOOLEAN} : h \in contents}

\* Shapes: two branches that meet, one branch around a block, a block with three
\* predecessors, a loop tested at its head, and a loop of one block.
Diamond == <<<<2, 3>>, <<4>>, <<4>>, <<>>>>
IfThen == <<<<2, 3>>, <<3>>, <<>>>>
Switch == <<<<2, 3, 4>>, <<4>>, <<4>>, <<>>>>
While == <<<<2>>, <<3, 4>>, <<2>>, <<>>>>
DoWhile == <<<<2>>, <<2, 3>>, <<>>>>

Names == <<"entry", "a", "b", "c">>
Swapped == <<"entry", "b", "a">>
Simple(b) == {Nothing, StoreOne, StoreLeast}
Short(s, n) == SubSeq(s, 1, n)

\* Operators on two constants, one of which was stored: they divide by zero, and
\* unsigned and signed division differ.
Straight ==
  Functions(<<"entry">>, <<<<>>>>,
    <<{<<ins("store", x, <<num(c)>>, "none")>> \o Change(1, op, <<num(d), var(t(1))>>) \o Load(2) :
         c \in -2..1, d \in -2..1, op \in Division \cup Bitwise \cup {"sub", "shl"}}>>)

Single ==
  Straight \cup UNION {
    Functions(Names, Diamond, <<Bodies(1), Bodies(2), Simple(3), {Increment(4)}>>),
    Functions(Names, Switch, <<Bodies(1), Simple(2), Simple(3), {Load(4)}>>),
    Functions(Short(Names, 3), IfThen, <<Bodies(1), Bodies(2), {Double(3)}>>),
    Functions(Names, While, <<{StoreOne}, {Load(2)}, Bodies(3), {Nothing}>>),
    Functions(Short(Names, 3), DoWhile, <<Simple(1), Bodies(2), {Nothing}>>)}

Pairs ==
  {<<f, g>> :
     f \in Functions(Short(Names, 3), IfThen, <<{Load(1)}, {StoreOne}, {Load(3)}>>),
     g \in UNION {Functions(names, IfThen, <<{StoreLeast, Increment(1)}, {StoreOne, Nothing}, {Load(3)}>>) :
                    names \in {Short(Names, 3), Swapped}}}

TwoLoops ==
  {<<f, f>> : f \in Functions(Short(Names, 3), DoWhile, <<{StoreOne}, {Increment(2)}, {Nothing}>>)}

\* The second function has a loop where the first has a block of the same name.
LoopSecond ==
  {<<f, g>> :
     f \in Functions(Short(Names, 3), IfThen, <<{Load(1)}, {StoreOne, Increment(2)}, {Load(3)}>>),
     g \in Functions(Short(Names, 3), DoWhile, <<Simple(1), {StoreLeast, Increment(2)}, {Nothing}>>)}

\* What the loop of the third analyses anew, of the first, divides by a variable that
\* is zero in the second and the third.
Zero == <<ins("store", x, <<num(0)>>, "none")>> \o Load(1)
TrapThird ==
  {<<f, g, h>> :
     f \in Functions(Short(Names, 3), IfThen,
            <<{Load(1)}, {<<ins("sdiv", u(2), <<num(1), var(t(1))>>, "none")>>}, {Nothing}>>),
     g \in Functions(Short(Names, 2), <<<<2>>, <<>>>>, <<{Zero}, {Load(2)}>>),
     h \in Functions(Short(Names, 3), DoWhile, <<{Zero}, {Load(2)}, {Nothing}>>)}

SmallModules == {<<f>> : f \in Single} \cup Pairs \cup TwoLoops \cup LoopSecond \cup TrapThird

\* The variable starts with any value; nothing was loaded or computed.
AnyStore ==
  {[v \in {x} \cup (1..4) \cup (11..14) |-> IF v = x THEN c ELSE 0] : c \in -2..1}
=============================================================================
