------------------------------ MODULE CodeGen -------------------------------
(***************************************************************************)
(* The code generation of                                                  *)
(* kaleidoscope/functional_programming_language/functional.cpp, from the   *)
(* body of a function to basic blocks, and the execution of the blocks.    *)
(*                                                                         *)
(* The codegen methods call each other, so their activations are frames:   *)
(* a frame holds the node, the part of it that was generated last (part),  *)
(* the values of its parts (vals) and the local variables of the method.   *)
(* One action runs one method from its start or the return of a part to    *)
(* the next call or to its end; the others execute what was generated, an  *)
(* instruction at a time.                                                  *)
(*                                                                         *)
(* NamedValues is one table for the whole program: for and var change it   *)
(* for the time of their bodies and put the old variables back, unless an  *)
(* error returns first.                                                    *)
(*                                                                         *)
(* An instruction is [op, name, to, args, at]: a register, the values it   *)
(* takes and the variables (allocas) or blocks it is about.  A value is a  *)
(* register [reg, num |-> 0] or a number [reg |-> 0, num]; numbers are     *)
(* integers modulo Modulus.  A call of the function f writes its arguments *)
(* and returns the last.                                                   *)
(***************************************************************************)
EXTENDS Syntax, Integers, SequencesExt

CONSTANTS
  Name,          \* the names of variables
  Params,        \* the parameter lists, sequences of names
  Bodies,        \* the expressions
  Nodes(_),      \* the expressions in a body, itself included
  Scoped(_, _),  \* whether all that a node names is visible where it stands, if these names are
  Arity,         \* the functions that are declared and their numbers of parameters
  Val,           \* the value of each number in an expression
  Modulus,       \* bound: the numbers are 0..(Modulus - 1)
  MaxSteps       \* bound: the instructions executed for one function

VARIABLES
  NamedValues,  \* the variable that each name stands for, 0 if none
  fn,           \* the function last generated: parameters, body, arguments of its call
  ir,           \* the IR builder: blocks, insertion point, registers and variables made
  frames,       \* the activations of the codegen methods
  at,           \* block, next instruction and block before, while executing
  regs, mem,    \* the values of the registers and variables
  out,          \* what was written
  steps,        \* the instructions executed
  phase         \* idle, generating, refused, generated, running, returned or cut

execution == <<at, regs, mem, out, steps>>
state == <<NamedValues, fn, ir, frames, execution, phase>>

Num == 0..(Modulus - 1)

NoValue == [reg |-> -1, num |-> 0]
Const(n) == [reg |-> 0, num |-> n]
Reg(r) == [reg |-> r, num |-> 0]

-----------------------------------------------------------------------------
(* Nodes.                                                                  *)

\* The function, around its body.
Function(body) == Node("function", "", <<body>>)

\* The parts that are generated, when they are there.
Parts(node) == {i \in DOMAIN node.of : node.of[i].type \notin {"name", "absent"}}

\* The names that a for or var brings into scope.
Names(node) ==
  CASE node.type = "for" -> <<node.name>>
    [] node.type = "var" -> [i \in 1..(Len(node.of) \div 2) |-> node.of[2 * i - 1].name]
    [] OTHER -> <<>>

\* How many of them are visible in a part: an initializer does not see its own.
InScope(node, part) ==
  CASE node.type = "for" -> IF part < 2 THEN 0 ELSE 1
    [] node.type = "var" -> (part - 1) \div 2
    [] OTHER -> 0

Introduced(node, part) == {Names(node)[i] : i \in 1..InScope(node, part)}

Declared(f, args) == f \in DOMAIN Arity /\ Arity[f] = args

\* Where the parser finds an expression, a name or nothing.
IsNode(body, n) ==
  /\ n = Node(n.type, n.name, n.of) /\ n.of \in Seq(ToSet(n.of))
  /\ \A i \in Parts(n) : n.of[i] \in Nodes(body)
  /\ \A i \in DOMAIN n.of \ Parts(n) :
       \/ n.type = "for" /\ i = 3 /\ n.of[i] = Absent
       \/ n.type = "var" /\ i < Len(n.of) /\ i % 2 = 0 /\ n.of[i] = Absent
       \/ n.type = "var" /\ i < Len(n.of) /\ i % 2 = 1 /\ n.of[i].name \in Name
  /\ \/ n.type = "number" /\ n.of = <<>> /\ n.name \in DOMAIN Val
     \/ n.type = "variable" /\ n.of = <<>> /\ n.name \in Name
     \/ n.type = "call"
     \/ n.type = "unary" /\ Len(n.of) = 1
     \/ /\ n.type = "binary" /\ Len(n.of) = 2
        /\ n.name = "=" => n.of[1].type = "variable"
     \/ n.type = "if" /\ Len(n.of) = 3
     \/ n.type = "for" /\ Len(n.of) = 4 /\ n.name \in Name
     \/ /\ n.type = "var" /\ Len(n.of) % 2 = 1 /\ Len(n.of) > 1
        /\ \A i \in Parts(n) : i = Len(n.of) \/ i % 2 = 0

\* A variable is visible, a function is declared, and so in each part, with the names
\* that are in scope there.
ScopedIn(node, seen) ==
  /\ node.type = "variable" => node.name \in seen
  /\ node.type \in {"call", "unary"} => Declared(node.name, Len(node.of))
  /\ \A i \in Parts(node) : Scoped(node.of[i], seen \cup Introduced(node, i))

ASSUME CodeGenAssumption ==
  /\ Modulus \in Nat /\ Modulus > 1 /\ MaxSteps \in Nat
  /\ \A ps \in Params : ps \in Seq(Name)
  /\ \A n \in DOMAIN Val : Val[n] \in Int

ASSUME NodesAssumption ==
  \A body \in Bodies : body \in Nodes(body) /\ \A n \in Nodes(body) : IsNode(body, n)

ASSUME ScopedAssumption ==
  \A body \in Bodies : \A n \in Nodes(body), seen \in SUBSET Name :
    Scoped(n, seen) <=> ScopedIn(n, seen)

-----------------------------------------------------------------------------
(* The IR builder.                                                         *)

Instr(op, name, to, args, on) == [op |-> op, name |-> name, to |-> to, args |-> args, at |-> on]

Insert(b, instr) == [b EXCEPT !.blocks[b.cur] = Append(@, instr)]

\* An instruction without a value.
Effect(b, op, args, on) == Insert(b, Instr(op, "", 0, args, on))

Result(b, v) == [b |-> b, v |-> v]

\* An instruction with a value.
Define(b, op, name, args, on) ==
  LET r == b.regs + 1
  IN  Result([Insert(b, Instr(op, name, r, args, on)) EXCEPT !.regs = r], Reg(r))

\* BasicBlock::Create.
NewBlock(b) == [b EXCEPT !.blocks = Append(@, <<>>)]
Newest(b) == Len(b.blocks)

SetInsertPoint(b, block) == [b EXCEPT !.cur = block]

\* A branch, after which another block is filled.
Branch(b, op, args, targets, block) == SetInsertPoint(Effect(b, op, args, targets), block)

\* CreateEntryBlockAlloca.
Alloca(b) == [b EXCEPT !.vars = @ + 1]

NoCode == [blocks |-> <<>>, cur |-> 0, regs |-> 0, vars |-> 0]

-----------------------------------------------------------------------------
(* Activations.                                                            *)

\* blocks: the blocks to go on in; from: the blocks in which the branches of an if
\* ended; variable: the alloca of a for; old: OldVal and OldBindings.
Activation(node) ==
  [node |-> node, part |-> 0, vals |-> <<>>, blocks |-> <<>>, from |-> <<>>,
   variable |-> 0, old |-> <<>>]

Top == frames[Len(frames)]

Generating(types) == phase = "generating" /\ Top.node.type \in types

\* if (!X): the part generated last has no value.
Failing == Top.part # 0 /\ Last(Top.vals) = NoValue

\* A method starts, or has the value of a part.
Reaches(types) == Generating(types) /\ ~Failing

\* The method on top, now f, calls codegen of its part i.
Visit(f, i) ==
  frames' = Append([frames EXCEPT ![Len(frames)] = [f EXCEPT !.part = i]],
                   Activation(f.node.of[i]))

\* The same for a part that may be left out and has a default then.
VisitOr(f, i, default) ==
  IF f.node.of[i] = Absent
  THEN frames' = [frames EXCEPT ![Len(frames)] =
                    [f EXCEPT !.part = i, !.vals = Append(@, Const(default))]]
  ELSE Visit(f, i)

\* The method on top returns.
Gives(v) ==
  frames' = [SubSeq(frames, 1, Len(frames) - 1) EXCEPT
               ![Len(frames) - 1].vals = Append(@, v)]

Delivers(r) == Gives(r.v) /\ ir' = r.b

\* LogErrorV.
Failed == Gives(NoValue) /\ UNCHANGED ir

-----------------------------------------------------------------------------
(* The codegen methods.                                                    *)

GenNumber ==
  /\ Reaches({"number"})
  /\ Gives(Const(Val[Top.node.name]))
  /\ UNCHANGED <<ir, NamedValues>>

GenVariable ==
  /\ Reaches({"variable"})
  /\ LET variable == NamedValues[Top.node.name]
     IN  IF variable = 0 THEN Failed
         ELSE Delivers(Define(ir, "load", "", <<>>, <<variable>>))
  /\ UNCHANGED NamedValues

\* CallExprAST::codegen and UnaryExprAST::codegen: a call looks the function up before
\* its arguments, an operator after its operand.
GenCall ==
  /\ Reaches({"call", "unary"})
  /\ LET node == Top.node
         arity == Len(node.of)
     IN  \/ /\ node.type = "call" /\ ~Declared(node.name, arity)
            /\ Failed
         \/ /\ node.type = "call" => Declared(node.name, arity)
            /\ Top.part < arity
            /\ Visit(Top, Top.part + 1) /\ UNCHANGED ir
         \/ /\ node.type = "call" => Declared(node.name, arity)
            /\ Top.part = arity
            /\ IF Declared(node.name, arity)
               THEN Delivers(Define(ir, "call", node.name, Top.vals, <<>>))
               ELSE Failed
  /\ UNCHANGED NamedValues

\* BinaryExprAST::codegen of an assignment: the right side, then the variable.
GenAssignment ==
  /\ Reaches({"binary"}) /\ Top.node.name = "="
  /\ LET variable == NamedValues[Top.node.of[1].name]
     IN  \/ Top.part = 0 /\ Visit(Top, 2) /\ UNCHANGED ir
         \/ /\ Top.part = 2
            /\ IF variable = 0 THEN Failed
               ELSE Delivers(Result(Effect(ir, "store", Top.vals, <<variable>>), Top.vals[1]))
  /\ UNCHANGED NamedValues

\* BinaryExprAST::codegen of any other operator: both operands, even if the first failed.
GenBinary ==
  /\ Generating({"binary"}) /\ Top.node.name # "="
  /\ LET op == Top.node.name
         ok == NoValue \notin ToSet(Top.vals)
     IN  \/ Top.part < 2 /\ Visit(Top, Top.part + 1) /\ UNCHANGED ir
         \/ /\ Top.part = 2
            /\ IF ~ok THEN Failed
               ELSE IF op \in {"+", "-", "*", "<"}
               THEN Delivers(Define(ir, op, "", Top.vals, <<>>))
               ELSE Delivers(Define(ir, "call", op, Top.vals, <<>>))
  /\ UNCHANGED NamedValues

\* Faulty variant: the phi takes the blocks in which the branches began.
FirstBlock(began) == began

\* Codegen of a branch can change the current block.
LastBlock(began) == ir.cur

\* IfExprAST::codegen: the condition, then, else, and the phi.
GenIf ==
  /\ Reaches({"if"})
  /\ LET new == Newest(ir) + 1
         blocks == NewBlock(NewBlock(NewBlock(ir)))
         next == Top.blocks[1]
         merge == Last(Top.blocks)
         ended == Append(Top.from, LastBlock(next - 1))
         closed == Branch(ir, "br", <<>>, <<merge>>, next)
     IN  \/ Top.part = 0 /\ Visit(Top, 1) /\ UNCHANGED ir
         \/ /\ Top.part = 1
            /\ ir' = Branch(blocks, "condbr", Top.vals, <<new, new + 1>>, new)
            /\ Visit([Top EXCEPT !.blocks = <<new + 1, new + 2>>], 2)
         \/ /\ Top.part = 2
            /\ ir' = closed
            /\ Visit([Top EXCEPT !.blocks = <<merge>>, !.from = ended], 3)
         \/ /\ Top.part = 3
            /\ Delivers(Define(closed, "phi", "", Tail(Top.vals), ended))
  /\ UNCHANGED NamedValues

\* Faulty variant: the variables stay in the table.
StayBound(names, old) == NamedValues

\* Restore the unshadowed variables, in the order in which they came into scope.
Unshadow(names, old) ==
  [n \in Name |->
     IF n \in ToSet(names)
     THEN old[CHOOSE i \in DOMAIN names : names[i] = n /\ \A j \in DOMAIN names : names[j] = n => j <= i]
     ELSE NamedValues[n]]

\* ForExprAST::codegen: the start without the variable in scope, then body, step
\* and end with it; the end is tested before the variable is incremented.
GenFor ==
  /\ Reaches({"for"})
  /\ LET node == Top.node
         vals == Top.vals
         stored == NewBlock(Effect(ir, "store", vals, <<Top.variable>>))
         loop == Newest(stored)
         cur == Define(ir, "load", "", <<>>, <<Top.variable>>)
         next == Define(cur.b, "+", "", <<cur.v, vals[3]>>, <<>>)
         kept == NewBlock(Effect(next.b, "store", <<next.v>>, <<Top.variable>>))
     IN  \/ /\ Top.part = 0
            /\ ir' = Alloca(ir)
            /\ Visit([Top EXCEPT !.variable = ir.vars + 1], 1)
            /\ UNCHANGED NamedValues
         \/ /\ Top.part = 1
            /\ ir' = Branch(stored, "br", <<>>, <<loop>>, loop)
            /\ NamedValues' = [NamedValues EXCEPT ![node.name] = Top.variable]
            /\ Visit([Top EXCEPT !.blocks = <<loop>>, !.old = <<NamedValues[node.name]>>], 4)
         \/ /\ Top.part = 4 /\ VisitOr(Top, 3, 1)
            /\ UNCHANGED <<ir, NamedValues>>
         \/ /\ Top.part = 3 /\ Visit(Top, 2)
            /\ UNCHANGED <<ir, NamedValues>>
         \/ /\ Top.part = 2
            /\ Delivers(Result(Branch(kept, "condbr", <<vals[4]>>, <<Top.blocks[1], Newest(kept)>>,
                                      Newest(kept)), Const(0)))
            /\ NamedValues' = Unshadow(Names(node), Top.old)

\* VarExprAST::codegen: each initializer before its variable, then the body.
GenVar ==
  /\ Reaches({"var"})
  /\ LET node == Top.node
         last == Len(node.of)
         name == node.of[Top.part - 1].name
         variable == ir.vars + 1
         bound == [Top EXCEPT !.old = Append(@, NamedValues[name])]
     IN  \/ /\ Top.part = 0
            /\ VisitOr(Top, 2, 0)
            /\ UNCHANGED <<ir, NamedValues>>
         \/ /\ Top.part > 0 /\ Top.part < last
            /\ ir' = Effect(Alloca(ir), "store", <<Last(Top.vals)>>, <<variable>>)
            /\ NamedValues' = [NamedValues EXCEPT ![name] = variable]
            /\ IF Top.part + 1 = last THEN Visit(bound, last) ELSE VisitOr(bound, Top.part + 2, 0)
         \/ /\ Top.part = last
            /\ Gives(Last(Top.vals)) /\ UNCHANGED ir
            /\ NamedValues' = Unshadow(Names(node), Top.old)

\* if (!X) return nullptr.
ReturnNullptr ==
  /\ phase = "generating" /\ Top.node.type # "function" /\ Failing
  /\ Top.node.type = "binary" => Top.node.name = "="
  /\ Failed
  /\ UNCHANGED NamedValues

\* ExprAST::codegen.
Codegen ==
  /\ \/ GenNumber \/ GenVariable \/ GenCall \/ GenAssignment \/ GenBinary
     \/ GenIf \/ GenFor \/ GenVar \/ ReturnNullptr
  /\ UNCHANGED <<fn, execution, phase>>

-----------------------------------------------------------------------------
(* One function after the other.                                           *)

NoNames == [n \in Name |-> 0]

\* Faulty variant: the names that an error left in the table stay there.
Uncleared(params) ==
  [n \in Name |-> IF n \in ToSet(params) THEN CHOOSE i \in DOMAIN params : params[i] = n
                  ELSE NamedValues[n]]

\* The table at the start of a function: its parameters.  LLVM gives another name
\* to the second parameter of a name.
Cleared(params) ==
  [n \in Name |-> IF n \in ToSet(params)
                  THEN CHOOSE i \in DOMAIN params :
                         params[i] = n /\ \A j \in 1..(i - 1) : params[j] # n
                  ELSE 0]

NoFunction == [params |-> <<>>, body |-> Absent, args |-> <<>>]
NotExecuting == [block |-> 0, next |-> 0, before |-> 0]

CodeGenInit ==
  /\ NamedValues = NoNames
  /\ fn = NoFunction /\ ir = NoCode /\ frames = <<>>
  /\ at = NotExecuting /\ regs = <<>> /\ mem = <<>> /\ out = <<>> /\ steps = 0
  /\ phase = "idle"

\* FunctionAST::codegen: the parameters are the first variables, the body follows
\* in the entry block.
Generate ==
  /\ phase = "idle"
  /\ \E params \in Params, body \in Bodies :
       /\ fn' = [params |-> params, body |-> body, args |-> <<>>]
       /\ NamedValues' = Cleared(params)
       /\ ir' = [blocks |-> <<<<>>>>, cur |-> 1, regs |-> 0, vars |-> Len(params)]
       /\ frames' = <<[Activation(Function(body)) EXCEPT !.part = 1], Activation(body)>>
  /\ phase' = "generating"
  /\ UNCHANGED execution

\* The body is there, or the function is removed; the table stays as it is.
Finish ==
  /\ Generating({"function"})
  /\ \/ /\ Top.vals[1] # NoValue
        /\ ir' = Effect(ir, "ret", Top.vals, <<>>)
        /\ phase' = "generated"
     \/ /\ Top.vals[1] = NoValue
        /\ ir' = NoCode
        /\ phase' = "refused"
  /\ frames' = <<>>
  /\ UNCHANGED <<NamedValues, fn, execution>>

\* The function is called with some arguments.
CallFunction ==
  /\ phase = "generated"
  /\ \E args \in [1..Len(fn.params) -> Num] :
       mem' = args /\ fn' = [fn EXCEPT !.args = args]
  /\ at' = [block |-> 1, next |-> 1, before |-> 0]
  /\ phase' = "running"
  /\ UNCHANGED <<NamedValues, ir, frames, regs, out, steps>>

ValueOf(v) == IF v.reg = 0 THEN v.num ELSE regs[v.reg]

\* What a variable may hold: anything before the first store.
Content(variable) == IF variable \in DOMAIN mem THEN {mem[variable]} ELSE Num

Put(f, k, v) == [i \in DOMAIN f \cup {k} |-> IF i = k THEN v ELSE f[i]]

GoTo(block) == at' = [block |-> block, next |-> 1, before |-> at.block]

\* Builtin operators on numbers.
Operate(op, l, r) ==
  CASE op = "+" -> (l + r) % Modulus
    [] op = "-" -> (l - r) % Modulus
    [] op = "*" -> (l * r) % Modulus
    [] op = "<" -> IF l < r THEN 1 ELSE 0

\* One instruction of the generated function.
Execute ==
  /\ phase = "running" /\ steps < MaxSteps
  /\ LET instr == ir.blocks[at.block][at.next]
         args == [i \in DOMAIN instr.args |-> ValueOf(instr.args[i])]
         Sets(v) == regs' = Put(regs, instr.to, v) /\ at' = [at EXCEPT !.next = @ + 1]
     IN  \/ /\ instr.op = "load"
            /\ \E v \in Content(instr.at[1]) : Sets(v)
            /\ UNCHANGED <<mem, out, phase>>
         \/ /\ instr.op = "store"
            /\ mem' = Put(mem, instr.at[1], args[1])
            /\ at' = [at EXCEPT !.next = @ + 1]
            /\ UNCHANGED <<regs, out, phase>>
         \/ /\ instr.op \in {"+", "-", "*", "<"}
            /\ Sets(Operate(instr.op, args[1], args[2]))
            /\ UNCHANGED <<mem, out, phase>>
         \/ /\ instr.op = "call"
            /\ Sets(Last(args))
            /\ out' = Append(out, <<instr.name, args>>)
            /\ UNCHANGED <<mem, phase>>
         \/ /\ instr.op = "phi"
            /\ \E i \in DOMAIN instr.at : instr.at[i] = at.before /\ Sets(args[i])
            /\ UNCHANGED <<mem, out, phase>>
         \/ /\ instr.op = "br"
            /\ GoTo(instr.at[1])
            /\ UNCHANGED <<regs, mem, out, phase>>
         \/ /\ instr.op = "condbr"
            /\ GoTo(IF args[1] # 0 THEN instr.at[1] ELSE instr.at[2])
            /\ UNCHANGED <<regs, mem, out, phase>>
         \/ /\ instr.op = "ret"
            /\ regs' = args
            /\ phase' = "returned"
            /\ UNCHANGED <<at, mem, out>>
  /\ steps' = steps + 1
  /\ UNCHANGED <<NamedValues, fn, ir, frames>>

\* The bound on the instructions is reached.
Cut ==
  /\ phase = "running" /\ steps = MaxSteps
  /\ phase' = "cut"
  /\ UNCHANGED <<NamedValues, fn, ir, frames, at, regs, mem, out, steps>>

\* The next function.
Forget ==
  /\ phase \in {"refused", "returned", "cut"}
  /\ fn' = NoFunction /\ ir' = NoCode
  /\ at' = NotExecuting /\ regs' = <<>> /\ mem' = <<>> /\ out' = <<>> /\ steps' = 0
  /\ phase' = "idle"
  /\ UNCHANGED <<NamedValues, frames>>

CodeGenNext == Generate \/ Codegen \/ Finish \/ CallFunction \/ Execute \/ Cut \/ Forget

CodeGenSpec == CodeGenInit /\ [][CodeGenNext]_state

-----------------------------------------------------------------------------
(* Properties.                                                             *)

\* No two names of a var expression are the same.
Distinct(body) == \A n \in Nodes(body) : IsInjective(Names(n))

\* "Unknown variable name" (functional.cpp:732): a function is generated exactly
\* if each of its names is visible where it stands, whatever for and var did to
\* the table in between and whatever an error in an earlier function left in it.
RefusesUnknown ==
  (phase \in {"refused", "generated"} /\ Distinct(fn.body)) =>
    (phase = "generated" <=> Scoped(fn.body, ToSet(fn.params)))

Terminators(block) == {i \in DOMAIN block : block[i].op \in {"br", "condbr", "ret"}}
Successors(block) == IF Last(block).op = "ret" THEN {} ELSE ToSet(Last(block).at)

\* verifyFunction: through every nesting of if and for a block ends with its only
\* branch, and a phi, which comes first, names the blocks that lead to it and no
\* other ("Codegen of 'Then' can change the current block").
WellFormed ==
  phase = "generated" =>
    \A b \in DOMAIN ir.blocks :
      LET block == ir.blocks[b]
      IN  /\ block # <<>> /\ Terminators(block) = {Len(block)}
          /\ \A i \in DOMAIN block :
               block[i].op = "phi" =>
                 /\ i = 1 /\ IsInjective(block[i].at)
                 /\ ToSet(block[i].at) =
                      {p \in DOMAIN ir.blocks : b \in Successors(ir.blocks[p])}
=============================================================================
