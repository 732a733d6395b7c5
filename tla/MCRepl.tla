------------------------------- MODULE MCRepl -------------------------------
(***************************************************************************)
(* A small session: two functions, one of them exported by the host, and a *)
(* user-defined operator; two parameter names.                             *)
(***************************************************************************)
EXTENDS Repl

CONSTANTS f, g, at,   \* two functions and an operator
          x, y        \* parameter names

read(v) == [kind |-> "read", name |-> v, args |-> 0]
call(h, n) == [kind |-> "call", name |-> h, args |-> n]
body(operands, op) == [operands |-> operands, op |-> op]

SmallParams == {<<x>>, <<x, y>>}

\* A parameter that need not be there beside a call, a call of each function,
\* and a use of the operator.
SmallBody ==
  {body({<<read(y)>>, <<call(g, 1)>>}, Builtin),
   body({<<call(f, 2)>>}, Builtin),
   body({<<call(g, 1)>>}, Builtin),
   body({<<>>}, at)}
=============================================================================
