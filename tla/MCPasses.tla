------------------------------ MODULE MCPasses ------------------------------
(***************************************************************************)
(* The range, pointer and available expression passes on small modules.    *)
(* Each instruction carries the pass that its module is given to, and each *)
(* edge the pass it belongs to.                                            *)
(***************************************************************************)
EXTENDS AnalysisPass, RangeAnalysis, PointerAnalysis, AvailableExpr, SequencesExt

Of(pass, e) ==
  IF e = NoEdge THEN e
  ELSE [top |-> e.top, bottom |-> e.bottom, facts |-> e.facts, of |-> pass]

PassBottom == Of("none", BottomEdge)

PassMerge(e1, e2) ==
  LET pass == IF e1.of = "none" THEN e2.of ELSE e1.of
  IN  Of(pass, CASE pass = "none" -> BottomEdge
                 [] pass = "range" -> MergeRanges(e1, e2)
                 [] pass = "must" -> MergeMust(e1, e2)
                 [] pass = "may" -> MergeMay(e1, e2)
                 [] pass = "avail" -> MergeExpressions(e1, e2))

PassFlow(instr, e) ==
  Of(instr.pass, CASE instr.pass = "range" -> FlowRanges(instr, e)
                   [] instr.pass \in {"must", "may"} -> FlowPointers(instr, e)
                   [] instr.pass = "avail" -> FlowExpressions(instr, e))

PassEdgeTo(instr, e, n) ==
  Of(instr.pass, CASE instr.pass = "range" -> RangesTo(instr, e, n)
                   [] instr.pass \in {"must", "may"} -> PointersTo(instr, e, n)
                   [] instr.pass = "avail" -> ExpressionsTo(instr, e, n))

PassWakes(instr) ==
  CASE instr.pass = "range" -> SetsRanges(instr)
    [] instr.pass \in {"must", "may"} -> SetsPointers(instr)
    [] instr.pass = "avail" -> SetsExpressions(instr)

PassTrusted(instr, e) ==
  CASE instr.pass = "range" -> RangedRight(instr, e)
    [] instr.pass \in {"must", "may"} -> Direct(instr, e)
    [] instr.pass = "avail" -> TRUE

PassHolds(e, s) ==
  CASE e.of = "none" -> TRUE
    [] e.of = "range" -> RangesHold(e, s)
    [] e.of = "must" -> MustHold(e, s)
    [] e.of = "may" -> MayHold(e, s)
    [] e.of = "avail" -> ExpressionsHold(e, s)

PassStores(instr, s) ==
  IF instr.pass \in {"must", "may"} THEN PointerStores(instr, s) ELSE StoresAfter(instr, s)

-----------------------------------------------------------------------------
(* Functions.                                                              *)

num(c) == [const |-> c]
var(v) == [name |-> v]
ins(op, to, args, test) == [op |-> op, to |-> to, args |-> args, test |-> test]
Jump_ == ins("jump", "-", <<var("-"), var("-")>>, "none")
Fork == ins("br", "-", <<var("-"), var("-")>>, "none")

\* The function of a shape with the code of each block, its terminator included.
Function(pass, succ, code) ==
  LET names == <<"entry", "a", "b", "c", "d">>
  IN  [name |-> SubSeq(names, 1, Len(succ)), succ |-> succ,
       preds |-> [b \in DOMAIN succ |->
                    SetToSortSeq({p \in DOMAIN succ : b \in Range(succ[p])}, <)],
       code |-> [b \in DOMAIN succ |-> [i \in DOMAIN code[b] |-> code[b][i] @@ [pass |-> pass]]]]

Diamond == <<<<2, 3>>, <<4>>, <<4>>, <<>>>>
TwoTests == <<<<2, 3>>, <<3>>, <<4, 5>>, <<5>>, <<>>>>
DoWhile == <<<<2>>, <<2, 3>>, <<>>>>

\* Ranges: x is stored to on one path or both, then loaded, computed with and
\* compared; the names are refined on the two edges of the comparison.
StoreX(o) == <<ins("store", "x", <<o>>, "none")>>
LoadX(t) == <<ins("load", t, <<var("x")>>, "none")>>
Compute(to, op, left, right) == <<ins(op, to, <<left, right>>, "none")>>
Start == {<<>>, StoreX(num(-3)), StoreX(num(1))}
Other == {StoreX(num(2)), StoreX(num(-1)), StoreX(var("n"))}
Computed ==
  {Compute("u", op, var("t"), num(2)) : op \in {"add", "sub", "mul"}} \cup
  {Compute("u", "sdiv", var("t"), num(-2)), Compute("u", "udiv", var("t"), num(2)),
   Compute("u", "add", var("t"), var("t")), Compute("u", "sdiv", num(3), var("t")),
   Compute("u", "xor", num(3), num(1)), Compute("u", "srem", num(-3), num(2))}
Compared ==
  {<<var("t"), num(1)>>, <<num(-2), var("u")>>, <<var("t"), var("u")>>, <<var("n"), var("t")>>}

RangeFunctions ==
  {Function("range", TwoTests,
     <<<<ins("alloca", "x", <<>>, "none")>> \o start \o <<Fork>>,
       other \o <<Jump_>>,
       LoadX("t") \o computed \o <<ins("br", "-", compared, test)>>,
       Compute("w", "sub", var("t"), num(1)) \o StoreX(var("w")) \o <<Jump_>>,
       LoadX("r") \o <<Jump_>>>>) :
     start \in Start, other \in Other, computed \in Computed, compared \in Compared, test \in Tests}

\* The same with one value compared with itself, and a loop.
SelfCompared ==
  {Function("range", Diamond,
     <<<<ins("alloca", "x", <<>>, "none")>> \o LoadX("t") \o
         <<ins("br", "-", <<var("t"), var("t")>>, test)>>,
       Compute("w", "sdiv", var("t"), num(2)) \o StoreX(var("w")) \o <<Jump_>>,
       <<Jump_>>, LoadX("r") \o <<Jump_>>>>) : test \in Tests}
RangeLoop ==
  Function("range", DoWhile,
     <<<<ins("alloca", "x", <<>>, "none")>> \o StoreX(num(0)) \o <<Jump_>>,
       LoadX("t") \o Compute("u", "add", var("t"), num(1)) \o StoreX(var("u")) \o
         <<ins("br", "-", <<var("u"), num(2)>>, "slt")>>,
       <<Jump_>>>>)

\* Pointers: p and q may point to a or b, and pp to p or q.
Point(p, to) == <<ins("storep", "-", <<var(p), var(to)>>, "none")>>
Follow(p, t) == <<ins("loadp", t, <<var(p)>>, "none")>>
PointerBodies(t) ==
  {<<>>, Point("p", "a"), Point("p", "b"), Follow("p", t) \o Point("q", t),
   Point("pp", "p") \o Follow("pp", t) \o <<ins("storep", "-", <<var(t), var("b")>>, "none")>>,
   <<ins("store", "-", <<var("a"), var("n")>>, "none")>>}

PointerFunctions ==
  {Function(pass, Diamond, <<Point("q", "b") \o one \o <<Fork>>, two \o <<Jump_>>,
                             three \o <<Jump_>>, four \o Follow("p", "t5") \o <<Jump_>>>>) :
     pass \in {"may", "must"}, one \in PointerBodies("t1"), two \in PointerBodies("t2"),
     three \in PointerBodies("t3"), four \in PointerBodies("t4")}

\* Expressions of the two arguments, and of a value that two paths bring.
Expressions(e) ==
  {<<>>, Compute(e, "add", var("m"), var("n")), Compute(e, "add", var("n"), var("m")),
   Compute(e, "sub", var("m"), var("n"))}

AvailFunctions ==
  {Function("avail", Diamond,
     <<Compute("e1", "mul", var("m"), num(2)) \o <<Fork>>, two \o <<Jump_>>, three \o <<Jump_>>,
       (IF {} = {two, three} \cap {<<>>}
        THEN <<ins("phi", "r", <<var("e2"), var("e3")>>, "none")>>
             \o Compute("e4", "add", var("r"), var("e1"))
        ELSE Compute("e4", "mul", num(2), var("m"))) \o <<Jump_>>>>) :
     two \in Expressions("e2"), three \in Expressions("e3")}

SmallModules ==
  {<<f>> : f \in RangeFunctions \cup SelfCompared \cup PointerFunctions \cup AvailFunctions}
  \cup {<<f, g>> : f, g \in AvailFunctions}
  \cup {<<RangeLoop, RangeLoop>>}

IntNames == {"x", "t", "u", "w", "r", "m", "n", "e1", "e2", "e3", "e4"}
PointerNames == {"p", "q", "pp", "t1", "t2", "t3", "t4", "t5"}
AllocatedNames == {"a", "b", "p", "q", "pp"}

\* The arguments have some values; nothing was stored, loaded or computed.
AnyStore ==
  {[v \in IntNames \cup PointerNames |->
      CASE v = "m" -> c
        [] v = "n" -> d
        [] v \in PointerNames -> "unset"
        [] OTHER -> Undefined] : c \in {-1}, d \in {-2, 1}}
=============================================================================
