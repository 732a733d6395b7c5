---------------------------- MODULE SourceMeaning ----------------------------
(***************************************************************************)
(* What the programs of Interpreter mean in C, by evaluation of their      *)
(* trees from left to right, and the programs for which ast-interpreter    *)
(* works.  The types are int and pointers.                                 *)
(*                                                                         *)
(* A state of the evaluation is a record: the variables of the function,   *)
(* the cells of memory, the buffers that are allocated, how many were so   *)
(* far, what is still to be typed, what was printed, the value of the last *)
(* expression, whether the function has returned, and whether all that was *)
(* done is defined in C and takes no pointer for a number (comparisons of  *)
(* pointers are left out).  A pointer is a number that is no int, and a    *)
(* cell a pointer and an index.                                            *)
(***************************************************************************)
EXTENDS Interpreter, SequencesExt

Pointer(n) == n * 2^Width

\* What a variable or a cell has before it is assigned.
NoValue == -(2^Width)

Undefined(s) == [s EXCEPT !.defined = FALSE]
Gives(s, v) == [s EXCEPT !.val = v]
GivesInt(s, v) == IF v \in IntRange THEN Gives(s, v) ELSE Undefined(s)
GivesStored(s, f, x) ==
  IF x \in DOMAIN f /\ f[x] # NoValue THEN Gives(s, f[x]) ELSE Undefined(s)

-----------------------------------------------------------------------------
(* Expressions.                                                            *)

RECURSIVE Eval(_, _, _), Exec(_, _, _)

Meant(op, a, b) ==
  LET truth(p) == IF p THEN 1 ELSE 0
  IN  CASE op = "<" -> truth(a < b)
        [] op = ">" -> truth(a > b)
        [] op = "<=" -> truth(a <= b)
        [] op = ">=" -> truth(a >= b)
        [] op = "==" -> truth(a = b)
        [] op = "!=" -> truth(a # b)
        [] op = "+" -> a + b
        [] op = "-" -> a - b
        [] op = "*" -> a * b

\* The state after evaluating some trees in turn, and their values.
InTurn(p, trees, s) ==
  FoldLeft(LAMBDA r, e : LET n == Eval(p, e, r.state)
                         IN  [state |-> n, vals |-> Append(r.vals, n.val)],
           [state |-> s, vals |-> <<>>], trees)

\* A new buffer.  Twice its size must be an int, since the interpreter takes
\* sizeof(int) to be that.
Allocated(s, bytes) ==
  LET new == Pointer(s.count + 1)
      cells == {new} \X (0..((bytes \div 4) - 1))
  IN  IF bytes >= 0 /\ 2 * bytes \in IntRange
      THEN [s EXCEPT !.memory = @ @@ [c \in cells |-> NoValue], !.buffers = @ \cup {new},
                     !.count = @ + 1, !.val = new]
      ELSE Undefined(s)

Released(s, pointer) ==
  IF pointer \in s.buffers
  THEN [s EXCEPT !.memory = Restrict(@, {c \in DOMAIN @ : c[1] # pointer}),
                 !.buffers = @ \ {pointer}]
  ELSE Undefined(s)

\* A call of a function of the program: its body with its own variables.
Called(p, f, args, s) ==
  LET t == Exec(p, p.bodies[f],
                [s EXCEPT !.vars = [x \in Range(p.params[f]) |->
                           args[CHOOSE i \in DOMAIN args : p.params[f][i] = x]],
                          !.returned = FALSE])
  IN  [t EXCEPT !.vars = s.vars, !.returned = FALSE]

Assigned(p, e, s) ==
  LET left == e.kids[1]
      place == InTurn(p, left.kids, s)
      right == Eval(p, e.kids[2], place.state)
      cell == <<place.vals[1], IF IsDeref(left) THEN 0 ELSE place.vals[2]>>
  IN  CASE ~right.defined -> right
        [] right.defined /\ left.kind = "ref" ->
             IF left.name \in DOMAIN right.vars THEN [right EXCEPT !.vars[left.name] = right.val]
             ELSE Undefined(right)
        [] right.defined /\ left.kind # "ref" ->
             IF cell \in DOMAIN right.memory THEN [right EXCEPT !.memory[cell] = right.val]
             ELSE Undefined(right)

\* What is made of the values of its children by an expression that is no assignment.
Applied(p, e, val, s) ==
  CASE e.kind = "int" -> GivesInt(s, e.val)
    [] e.kind = "sizeof" -> Gives(s, IF e.op = "int" THEN 4 ELSE 8)
    [] e.kind = "ref" -> IF e.op = "object" THEN GivesStored(s, s.vars, e.name) ELSE s
    [] e.kind = "cast" -> s
    [] e.kind = "binary" ->
         IF Range(val) \subseteq IntRange THEN GivesInt(s, Meant(e.op, val[1], val[2]))
         ELSE Undefined(s)
    [] e.kind = "unary" /\ e.op = "*" -> GivesStored(s, s.memory, <<val[1], 0>>)
    [] e.kind = "unary" /\ e.op # "*" ->
         IF val[1] \in IntRange THEN GivesInt(s, IF e.op = "-" THEN -val[1] ELSE val[1])
         ELSE Undefined(s)
    [] e.kind = "index" -> GivesStored(s, s.memory, <<val[1], val[2]>>)
    [] e.kind = "call" ->
         CASE e.name = "GET" -> IF s.typed = <<>> THEN Gives(s, 0)
                                ELSE GivesInt([s EXCEPT !.typed = Tail(@)], Head(s.typed))
           [] e.name = "PRINT" -> IF val[2] \in IntRange THEN [s EXCEPT !.printed = Append(@, val[2])]
                                  ELSE Undefined(s)
           [] e.name = "MALLOC" -> Allocated(s, val[2])
           [] e.name = "FREE" -> Released(s, val[2])
           [] OTHER -> Called(p, e.name, Tail(val), s)

\* After what is undefined nothing more is evaluated.
Eval(p, e, s) ==
  LET done == InTurn(p, e.kids, s)
  IN  CASE e.kind = "assign" -> Assigned(p, e, s)
        [] e.kind # "assign" /\ done.state.defined -> Applied(p, e, done.vals, done.state)
        [] OTHER -> done.state

-----------------------------------------------------------------------------
(* Statements.                                                             *)

Declared(p, t, s) ==
  FoldLeft(LAMBDA r, v :
             LET value == CASE v.init # 0 -> Eval(p, t.kids[v.init], r)
                            [] v.init = 0 /\ v.size # 0 -> Allocated(r, 4 * v.size)
                            [] OTHER -> Gives(r, NoValue)
             IN  [value EXCEPT !.vars = With(@, v.name, value.val)],
           s, t.vars)

Exec(p, t, s) ==
  LET value == Eval(p, t.kids[1], s)
      cond == IF value.val \in IntRange THEN value ELSE Undefined(value)
      going == ~s.returned /\ s.defined
  IN  CASE ~going -> s
        [] going /\ t.kind = "block" -> FoldLeft(LAMBDA r, k : Exec(p, k, r), s, t.kids)
        [] going /\ t.kind = "decl" -> Declared(p, t, s)
        [] going /\ t.kind = "if" ->
             CASE cond.defined /\ cond.val # 0 -> Exec(p, t.kids[2], cond)
               [] cond.defined /\ cond.val = 0 /\ Len(t.kids) = 3 -> Exec(p, t.kids[3], cond)
               [] OTHER -> cond
        [] going /\ t.kind = "while" ->
             IF cond.defined /\ cond.val # 0 THEN Exec(p, t, Exec(p, t.kids[2], cond)) ELSE cond
        [] going /\ t.kind = "return" -> [value EXCEPT !.returned = TRUE]
        [] OTHER -> Eval(p, t, s)

\* The state at the end of a program when the user types these integers.
AtEnd(p, typed) ==
  Exec(p, p.bodies["main"],
       [vars |-> Empty, memory |-> Empty, buffers |-> {}, count |-> 0, typed |-> typed,
        printed |-> <<>>, val |-> 0, returned |-> FALSE, defined |-> TRUE])

-----------------------------------------------------------------------------
(* The programs that are supported: the grammar of what works.             *)

RECURSIVE Within(_)
Within(t) == {t} \cup UNION {Within(t.kids[i]) : i \in DOMAIN t.kids}

RECURSIVE IsExpr(_, _), IsSize(_, _), IsStmt(_, _)

AreExprs(p, trees) == \A t \in Range(trees) : IsExpr(p, t)

\* sizeof(int) is 8 in the interpreter, so that it only gives the size of a buffer,
\* which is then twice as large.
IsSize(p, e) ==
  \/ IsExpr(p, e)
  \/ e.kind = "sizeof" /\ e.op \in {"int", "pointer"} /\ e.kids = <<>>
  \/ e.kind = "cast" /\ IsSize(p, e.kids[1])
  \/ /\ e.kind = "binary" /\ e.op = "*"
     /\ \/ IsSize(p, e.kids[1]) /\ IsExpr(p, e.kids[2])
        \/ IsExpr(p, e.kids[1]) /\ IsSize(p, e.kids[2])

IsCall(p, e) ==
  LET args == Tail(e.kids)
  IN  /\ e.kind = "call"
      /\ \A m \in Within(e.kids[1]) : m.kind \in {"cast", "ref"} /\ (m.kind = "ref" => m.op = "function")
      /\ Len(args) = CASE e.name = "GET" -> 0
                       [] e.name \in Builtins \ {"GET"} -> 1
                       [] OTHER -> Len(p.params[e.name])
      /\ IF e.name = "MALLOC" THEN IsSize(p, args[1]) ELSE AreExprs(p, args)

\* PRINT and FREE give nothing.
Procedures == {"PRINT", "FREE"}

\* An expression that may be used for its value.  An assignment is none, because
\* binop gives its node no value; pointers are neither added to nor subtracted from.
IsExpr(p, e) ==
  CASE e.kind = "int" -> e.val \in IntRange
    [] e.kind = "ref" -> e.op = "object"
    [] e.kind \in {"cast", "index"} -> AreExprs(p, e.kids)
    [] e.kind = "binary" ->
         e.op \in {"<", ">", "<=", ">=", "==", "!=", "+", "-", "*"} /\ AreExprs(p, e.kids)
    [] e.kind = "unary" -> e.op \in {"+", "-", "*"} /\ AreExprs(p, e.kids)
    [] e.kind = "call" -> e.name \notin Procedures /\ IsCall(p, e)
    [] OTHER -> FALSE

IsPlace(p, e) == IsExpr(p, e) /\ (e.kind \in {"ref", "index"} \/ IsDeref(e))

\* The children of a declaration are its initialisers, which read none of what it
\* declares.
IsDecl(p, t) ==
  LET inits == [i \in DOMAIN t.vars |-> t.vars[i].init]
      names == [i \in DOMAIN t.vars |-> t.vars[i].name]
  IN  /\ SelectSeq(inits, LAMBDA i : i # 0) = [i \in DOMAIN t.kids |-> i]
      /\ \A v \in Range(t.vars) : v.size # 0 => v.init = 0
      /\ IsInjective(names)
      /\ AreExprs(p, t.kids)
      /\ \A k \in Range(t.kids) : \A m \in Within(k) : m.kind = "ref" => m.name \notin Range(names)

\* A branch, or the body of a loop, that is no block is not executed.
IsBlock(p, t) == t.kind = "block" /\ \A k \in Range(t.kids) : IsStmt(p, k)

IsStmt(p, t) ==
  CASE t.kind = "assign" -> t.op = "=" /\ IsPlace(p, t.kids[1]) /\ IsExpr(p, t.kids[2])
    [] t.kind = "call" -> IsCall(p, t)
    [] t.kind = "decl" -> IsDecl(p, t)
    [] t.kind \in {"if", "while"} ->
         IsExpr(p, t.kids[1]) /\ \A k \in Range(Tail(t.kids)) : IsBlock(p, k)
    [] t.kind = "block" -> IsBlock(p, t)
    [] t.kind = "return" -> AreExprs(p, t.kids)
    [] OTHER -> IsExpr(p, t)

DeclaredIn(t) == UNION {{v.name : v \in Range(n.vars)} : n \in {m \in Within(t) : m.kind = "decl"}}

\* The variables that are used are those of the function, not of the program, and
\* none is declared in the scope of another with its name.
Scoped(p, f) ==
  LET body == p.bodies[f]
      params == p.params[f]
  IN  /\ \A n \in Within(body) :
           /\ n.kind = "ref" /\ n.op = "object" => n.name \in Range(params) \cup DeclaredIn(body)
           /\ n.kind = "block" => \A j \in DOMAIN n.kids : \A i \in 1..(j - 1) :
                n.kids[i].kind = "decl" => DeclaredIn(n.kids[i]) \cap DeclaredIn(n.kids[j]) = {}
      /\ IsInjective(params) /\ Range(params) \cap DeclaredIn(body) = {}

Supported(p) ==
  /\ ReturnsAtEnd(p)
  /\ p.params["main"] = <<>>
  /\ \A f \in DOMAIN p.bodies : IsBlock(p, p.bodies[f]) /\ Scoped(p, f)

-----------------------------------------------------------------------------
(* Properties.                                                             *)

\* Every buffer has an address that an int can hold.
AddressesFit == DOMAIN mBufs \subseteq IntRange

\* The interpreter of a supported program, whose run on this input is defined in C,
\* prints what it prints in C, in the same order, and at its end all of it, and does
\* not stop before, as long as malloc only gives addresses that are ints.
PrintsWhatCPrints ==
  Supported(program) =>
    LET end == AtEnd(program, input)
    IN  end.defined /\ AddressesFit =>
          /\ IsPrefix(output, end.printed)
          /\ status = "running"
          /\ todo = <<>> => output = end.printed
=============================================================================
