------------------------------- MODULE Scopes -------------------------------
(***************************************************************************)
(* What the expressions of Kaleidoscope mean, without any code: a variable *)
(* is visible in the body of the for or var that introduces it and nowhere *)
(* else, an inner one hides an outer one of its name, and what is hidden   *)
(* is visible again where the inner one ends.  CodeGen has one table that  *)
(* it changes and repairs; here an environment is passed down.             *)
(***************************************************************************)
EXTENDS CodeGen

CONSTANT Fuel  \* bound: the rounds of one loop

\* Every variable is visible where it is named, and every function is declared.
RECURSIVE Lexical(_, _)
RECURSIVE LexicalFrom(_, _, _)
Lexical(node, seen) ==
  CASE node.type \in {"number", "absent"} -> TRUE
    [] node.type = "variable" -> node.name \in seen
    [] node.type \in {"call", "unary"} ->
         Declared(node.name, Len(node.of)) /\ \A i \in DOMAIN node.of : Lexical(node.of[i], seen)
    [] node.type \in {"binary", "if"} -> \A i \in DOMAIN node.of : Lexical(node.of[i], seen)
    [] node.type = "for" ->
         /\ Lexical(node.of[1], seen)
         /\ \A i \in 2..4 : Lexical(node.of[i], seen \cup {node.name})
    [] node.type = "var" -> LexicalFrom(node, 1, seen)
LexicalFrom(node, i, seen) ==
  IF i = Len(node.of) THEN Lexical(node.of[i], seen)
  ELSE Lexical(node.of[i + 1], seen) /\ LexicalFrom(node, i + 2, seen \cup {node.of[i].name})

-----------------------------------------------------------------------------
(* Evaluation: env maps the visible names to cells; m has the cells, what  *)
(* was written and the value; it is stuck when a loop runs out of Fuel.    *)

Value(m, v) == [m EXCEPT !.value = v]
Cell(m) == Len(m.cells) + 1
NewCell(m) == [m EXCEPT !.cells = Append(@, m.value)]
Visible(env, name, cell) == [n \in DOMAIN env \cup {name} |-> IF n = name THEN cell ELSE env[n]]

RECURSIVE Eval(_, _, _)
RECURSIVE Loop(_, _, _, _)
RECURSIVE EvalVar(_, _, _, _)
RECURSIVE EvalArgs(_, _, _, _)

\* The arguments from left to right: the values and the state after them.
EvalArgs(nodes, env, m, values) ==
  IF nodes = <<>> THEN [m |-> m, values |-> values]
  ELSE LET first == Eval(nodes[1], env, m)
       IN  EvalArgs(Tail(nodes), env, first, Append(values, first.value))

\* The body, the step, the end; then the variable grows by the step.
Loop(node, env, m, fuel) ==
  LET body == Eval(node.of[4], env, m)
      step == IF node.of[3] = Absent THEN Value(body, 1) ELSE Eval(node.of[3], env, body)
      end  == Eval(node.of[2], env, step)
      next == [end EXCEPT !.cells[env[node.name]] = (@ + step.value) % Modulus]
  IN  IF fuel = 0 THEN [m EXCEPT !.stuck = TRUE]
      ELSE IF end.value # 0 THEN Loop(node, env, next, fuel - 1)
      ELSE Value(next, 0)

EvalVar(node, i, env, m) ==
  LET init == IF node.of[i + 1] = Absent THEN Value(m, 0) ELSE Eval(node.of[i + 1], env, m)
  IN  IF i = Len(node.of) THEN Eval(node.of[i], env, m)
      ELSE EvalVar(node, i + 2, Visible(env, node.of[i].name, Cell(init)), NewCell(init))

Eval(node, env, m) ==
  LET args == EvalArgs(node.of, env, m, <<>>)
      assigned == Eval(node.of[2], env, m)
      cond == Eval(node.of[1], env, m)
  IN  CASE node.type = "number" -> Value(m, Val[node.name])
        [] node.type = "variable" -> Value(m, m.cells[env[node.name]])
        [] node.type = "binary" /\ node.name = "=" ->
             [assigned EXCEPT !.cells[env[node.of[1].name]] = assigned.value]
        [] node.type = "binary" /\ node.name \in {"+", "-", "*", "<"} ->
             Value(args.m, Operate(node.name, args.values[1], args.values[2]))
        [] \/ node.type \in {"call", "unary"}
           \/ node.type = "binary" /\ node.name \notin {"=", "+", "-", "*", "<"} ->
             [args.m EXCEPT !.value = Last(args.values),
                            !.out = Append(@, <<node.name, args.values>>)]
        [] node.type = "if" -> Eval(node.of[IF cond.value # 0 THEN 2 ELSE 3], env, cond)
        [] node.type = "for" ->
             Loop(node, Visible(env, node.name, Cell(cond)), NewCell(cond), Fuel)
        [] node.type = "var" -> EvalVar(node, 1, env, m)

\* The meaning of a function called with these arguments.
Meaning(params, body, args) ==
  Eval(body, [n \in ToSet(params) |-> CHOOSE i \in DOMAIN params : params[i] = n],
       [cells |-> args, out |-> <<>>, value |-> 0, stuck |-> FALSE])

-----------------------------------------------------------------------------
(* Properties.                                                             *)

\* The generated blocks compute what the expression means: the value returned and
\* what is written on the way, under shadowing, assignment and loops.
ComputesMeaning ==
  (phase = "returned" /\ Distinct(fn.body) /\ Lexical(fn.body, ToSet(fn.params))) =>
    LET m == Meaning(fn.params, fn.body, fn.args)
    IN  ~m.stuck /\ regs = <<m.value>> /\ out = m.out
=============================================================================
