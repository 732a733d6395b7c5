---------------------------- MODULE MCProfiling ----------------------------
(***************************************************************************)
(* Small programs for the profiling tools: a main with a loop around a     *)
(* block that may call f, which branches and may call itself or exit.      *)
(***************************************************************************)
EXTENDS Profiling

OpsUsed == {"add", "load", "call", "br", "ret"}

Ins(op) == [op |-> op, callee |-> 0, counts |-> Empty]
CallTo(f) == [op |-> "call", callee |-> f, counts |-> Empty]
BlockOf(instrs, succ) == [code |-> instrs, succ |-> succ]

Middles == {<<>>, <<Ins("add"), Ins("load"), Ins("add")>>, <<Ins("add"), CallTo(2), Ins("load")>>,
            <<CallTo(2), CallTo(2)>>}

MainOf(middle) ==
  <<BlockOf(<<Ins("load"), Ins("br")>>, <<2>>),
    BlockOf(middle \o <<Ins("br")>>, <<2, 3>>),
    BlockOf(<<Ins("ret")>>, <<>>)>>

\* The last block of f returns, calls f again, or ends the program.
Ends == {<<>>, <<CallTo(2)>>, <<CallTo(0)>>}

CalleeOf(middle, end) ==
  <<BlockOf(middle \o <<Ins("br")>>, <<2, 3>>),
    BlockOf(<<Ins("add"), Ins("ret")>>, <<>>),
    BlockOf(<<Ins("load")>> \o end \o <<Ins("ret")>>, <<>>)>>

SmallPrograms ==
  {<<MainOf(m), CalleeOf(n, e)>> : m \in Middles, n \in {<<>>, <<Ins("add")>>}, e \in Ends}
=============================================================================
