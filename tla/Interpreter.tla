----------------------------- MODULE Interpreter -----------------------------
(***************************************************************************)
(* The interpreter of C in ast-interpreter/: the visitor of                *)
(* ASTInterpreter.cpp and the frames and heap of Environment.h.            *)
(*                                                                         *)
(* A program is a record of two functions on the names of C functions:     *)
(*   bodies : the tree of each function that is defined                    *)
(*   params : the parameters of the declaration that its calls refer to    *)
(* and a tree, which stands for a node of clang's syntax tree, a record    *)
(*   kind : "int", "ref", "cast", "assign", "binary", "unary", "index",    *)
(*          "sizeof", "call", "decl", "if", "while", "return", "block",    *)
(*          or a kind that has no handler                                  *)
(*   op, name, val : what the handler reads of it; a reference has op      *)
(*          "object" or "function", an assignment any operator             *)
(*   vars : what a declaration declares, in order: the name, the size (0   *)
(*          for no array) and the child that is its initialiser (0 for     *)
(*          none)                                                          *)
(*   kids : its children                                                   *)
(* A node is known by its path: the function and the way down from it.     *)
(*                                                                         *)
(* The recursion of the visitor is the sequence todo of what it has still  *)
(* to do: visit a node, apply its handler to children that were visited,   *)
(* look at the condition of an if or while, or make one declaration.       *)
(***************************************************************************)
EXTENDS Integers, Sequences, FiniteSets, Functions

CONSTANTS
  Programs,   \* the programs that may be run
  Nodes(_),   \* the trees of a program: those of its functions, and all in them
  Inputs,     \* what the user may type: sequences of integers
  Bases,      \* the addresses malloc may return
  Width,      \* the bits of an int
  NULL        \* no node

VARIABLES
  program,    \* the program that is run
  mStack,     \* the frames: values of variables and of nodes, and the node at hand
  mBufs,      \* the size of each buffer, by its address
  mContents,  \* the value of each cell of memory
  todo,       \* what the visitor has still to do
  input,      \* what the user types
  scanned,    \* how much of it was read
  output,     \* what was printed
  status      \* "running", "aborted" by an assertion, or "undefined"

vars == <<program, mStack, mBufs, mContents, todo, input, scanned, output, status>>

Empty == [x \in {} |-> 0]
With(f, x, v) == [y \in DOMAIN f \cup {x} |-> IF y = x THEN v ELSE f[y]]

Builtins == {"GET", "PRINT", "MALLOC", "FREE"}

\* What clang accepts: the children of each kind of node, as many arguments as the
\* function has parameters.  The address-of operator is left out.
IsNode(p, t) ==
  /\ DOMAIN t = {"kind", "op", "name", "val", "vars", "kids"}
  /\ t.kids \in Seq(Nodes(p))
  /\ t.kind = "int" => t.val \in Int
  /\ t.kind = "unary" => t.op # "&"
  /\ t.kind = "decl" => t.vars \in Seq(Range(t.vars))
  /\ t.kind = "if" => Len(t.kids) \in {2, 3}
  /\ t.kind = "while" => Len(t.kids) = 2
  /\ t.kind = "call" /\ t.name \notin Builtins =>
       LET params == p.params[t.name]
       IN  params \in Seq(Range(params)) /\ Len(params) < Len(t.kids)

ASSUME ProgramAssumption ==
  \A p \in Programs :
    /\ "main" \in DOMAIN p.bodies
    /\ \A f \in DOMAIN p.bodies : p.bodies[f] \in Nodes(p)
    /\ \A t \in Nodes(p) : IsNode(p, t)

ASSUME HostAssumption == Inputs \subseteq Seq(Int) /\ Bases \subseteq Int

ASSUME WidthAssumption == 2^(Width - 1) \in Nat \ {0} /\ 2^Width = 2 * 2^(Width - 1)

\* A long that is kept as an int.
AsInt(n) ==
  LET low == n % 2^Width IN IF low >= 2^(Width - 1) THEN low - 2^Width ELSE low

StackFrame(params) == [vars |-> params, exprs |-> Empty, pc |-> NULL]

Item(do, tree, at) == [do |-> do, tree |-> tree, at |-> at]

\* VisitStmt: the children are visited in order.
VisitKids(tree, at) ==
  [i \in DOMAIN tree.kids |-> Item("visit", tree.kids[i], Append(at, i))]

Init ==
  /\ program \in Programs
  /\ mStack = <<StackFrame(Empty)>>
  /\ mBufs = Empty
  /\ mContents = Empty
  /\ todo = VisitKids(program.bodies["main"], <<"main">>)
  /\ input \in Inputs
  /\ scanned = 0
  /\ output = <<>>
  /\ status = "running"

-----------------------------------------------------------------------------
(* Frames.                                                                 *)

Back == mStack[Len(mStack)]
Top == Head(todo)
Kid(n, i) == Append(n.at, i)

\* getStmtVal, getDeclVal.
StmtVal(at) == Back.exprs[at]
DeclVal(name) == Back.vars[name]

\* Faulty variant: the value is kept as a long.
BindLong(frame, at, v) == [frame EXCEPT !.exprs = With(@, at, v)]

BindStmt(frame, at, v) == [frame EXCEPT !.exprs = With(@, at, AsInt(v))]
BindDecl(frame, name, v) == [frame EXCEPT !.vars = With(@, name, AsInt(v))]
SetPC(frame, at) == [frame EXCEPT !.pc = at]

SetBack(frame) == mStack' = [mStack EXCEPT ![Len(mStack)] = frame]

-----------------------------------------------------------------------------
(* The heap, in cells of four bytes.                                       *)

Cells(base, size) == {base + 4 * i : i \in 0..(size - 1)}

\* Malloc: C's malloc finds a place; cells that exist keep their value.
Malloc(size, base) ==
  /\ base \in Bases \ DOMAIN mBufs
  /\ \A b \in DOMAIN mBufs : Cells(b, mBufs[b]) \cap Cells(base, size) = {}
  /\ mBufs' = With(mBufs, base, size)
  /\ mContents' = [c \in DOMAIN mContents \cup Cells(base, size) |->
                     IF c \in DOMAIN mContents THEN mContents[c] ELSE 0]

\* Faulty variant: the last cell stays.
FreeAllButOne(addr) ==
  /\ mBufs' = Restrict(mBufs, DOMAIN mBufs \ {addr})
  /\ mContents' = Restrict(mContents, DOMAIN mContents \ Cells(addr, mBufs[addr] - 1))

Free(addr) ==
  /\ mBufs' = Restrict(mBufs, DOMAIN mBufs \ {addr})
  /\ mContents' = Restrict(mContents, DOMAIN mContents \ Cells(addr, mBufs[addr]))

\* The cell of an array element.
Element(n) == StmtVal(Kid(n, 1)) + 4 * StmtVal(Kid(n, 2))

-----------------------------------------------------------------------------
(* What a handler asks for before it goes on.                              *)

IsDeref(tree) == tree.kind = "unary" /\ tree.op = "*"
Target(n) == [tree |-> n.tree.kids[1], at |-> Kid(n, 1)]

\* The nodes whose values a handler reads.
NodesRead(n) ==
  CASE n.do \in {"branch", "test"} -> {Kid(n, 1)}
    [] n.do = "declare" -> {Kid(n, v.init) : v \in {w \in Range(n.tree.vars) : w.init # 0}}
    [] n.do = "apply" /\ n.tree.kind \in {"cast", "unary"} -> {Kid(n, 1)}
    [] n.do = "apply" /\ n.tree.kind \in {"binary", "index"} -> {Kid(n, 1), Kid(n, 2)}
    [] n.do = "apply" /\ n.tree.kind = "assign" ->
         {Kid(n, 1), Kid(n, 2)} \cup
         (IF IsDeref(Target(n).tree) THEN {Kid(Target(n), 1)} ELSE {}) \cup
         (IF Target(n).tree.kind = "index" THEN {Kid(Target(n), 1), Kid(Target(n), 2)} ELSE {})
    [] n.do = "apply" /\ n.tree.kind = "call" -> {Kid(n, i) : i \in 2..Len(n.tree.kids)}
    [] n.do = "apply" /\ n.tree.kind = "return" ->
         {IF n.tree.kids = <<>> THEN NULL ELSE Kid(n, 1)}
    [] OTHER -> {}

\* The variables it reads.
VarsRead(n) ==
  IF n.do = "apply" /\ n.tree.kind = "ref" /\ n.tree.op = "object" THEN {n.tree.name} ELSE {}

\* The cells it uses.
CellsUsed(n) ==
  CASE n.do = "apply" /\ IsDeref(n.tree) -> {StmtVal(Kid(n, 1))}
    [] n.do = "apply" /\ n.tree.kind = "index" -> {Element(n)}
    [] n.do = "apply" /\ n.tree.kind = "assign" ->
         (IF IsDeref(Target(n).tree) THEN {StmtVal(Kid(Target(n), 1))} ELSE {}) \cup
         (IF Target(n).tree.kind = "index" THEN {Element(Target(n))} ELSE {})
    [] OTHER -> {}

BufsFreed(n) ==
  IF n.do = "apply" /\ n.tree.kind = "call" /\ n.tree.name = "FREE"
  THEN {StmtVal(Kid(n, 2))} ELSE {}

\* Every assertion of the handler holds.
Asserted(n) ==
  /\ NodesRead(n) \subseteq DOMAIN Back.exprs
  /\ VarsRead(n) \subseteq DOMAIN Back.vars
  /\ CellsUsed(n) \subseteq DOMAIN mContents
  /\ BufsFreed(n) \subseteq DOMAIN mBufs

\* The handler of a node of one of these kinds is next, and does not abort.
Handling(do, kinds) ==
  /\ status = "running" /\ todo # <<>>
  /\ Top.do = do /\ Top.tree.kind \in kinds
  /\ Asserted(Top)

Handled(do, kinds) == Handling(do, kinds) /\ todo' = Tail(todo)

Abort ==
  /\ status = "running" /\ todo # <<>>
  /\ ~Asserted(Top)
  /\ status' = "aborted"
  /\ UNCHANGED <<program, mStack, mBufs, mContents, todo, input, scanned, output>>

-----------------------------------------------------------------------------
(* The visitor.                                                            *)

HasHandler ==
  {"int", "ref", "cast", "assign", "binary", "unary", "index", "sizeof", "call", "return"}

\* The children of a node are visited before its handler is called; that of a
\* declaration is called once and makes its variables in turn.
VisitNode ==
  /\ status = "running" /\ todo # <<>>
  /\ Top.do = "visit" /\ Top.tree.kind \notin {"if", "while"}
  /\ LET handlers ==
           CASE Top.tree.kind \in HasHandler -> <<Item("apply", Top.tree, Top.at)>>
             [] Top.tree.kind = "decl" ->
                  [i \in DOMAIN Top.tree.vars |->
                     Item("declare", [Top.tree EXCEPT !.vars = <<@[i]>>], Top.at)]
             [] OTHER -> <<>>
     IN  todo' = VisitKids(Top.tree, Top.at) \o handlers \o Tail(todo)
  /\ UNCHANGED <<program, mStack, mBufs, mContents, input, scanned, output, status>>

\* VisitIfStmt, VisitWhileStmt: the condition is visited.
VisitCondition ==
  /\ status = "running" /\ todo # <<>>
  /\ Top.do = "visit" /\ Top.tree.kind \in {"if", "while"}
  /\ todo' = <<Item("visit", Top.tree.kids[1], Kid(Top, 1)),
               Item(IF Top.tree.kind = "if" THEN "branch" ELSE "test", Top.tree, Top.at)>>
             \o Tail(todo)
  /\ UNCHANGED <<program, mStack, mBufs, mContents, input, scanned, output, status>>

\* The children of the branch that is taken are visited, not the branch itself.
Branch ==
  /\ Handling("branch", {"if"})
  /\ LET taken == IF StmtVal(Kid(Top, 1)) # 0 THEN 2 ELSE 3
     IN  todo' = (IF taken \in DOMAIN Top.tree.kids
                  THEN VisitKids(Top.tree.kids[taken], Kid(Top, taken)) ELSE <<>>)
                 \o Tail(todo)
  /\ UNCHANGED <<program, mStack, mBufs, mContents, input, scanned, output, status>>

\* The body of a loop is visited if it is a block, and then the condition again.
Test ==
  /\ Handling("test", {"while"})
  /\ LET body == Top.tree.kids[2]
         again == <<Item("visit", Top.tree.kids[1], Kid(Top, 1)), Top>>
     IN  \/ /\ StmtVal(Kid(Top, 1)) = 0
            /\ todo' = Tail(todo)
         \/ /\ StmtVal(Kid(Top, 1)) # 0
            /\ todo' = (IF body.kind = "block" THEN VisitKids(body, Kid(Top, 2)) ELSE <<>>)
                       \o again \o Tail(todo)
  /\ UNCHANGED <<program, mStack, mBufs, mContents, input, scanned, output, status>>

-----------------------------------------------------------------------------
(* Handlers of expressions.                                                *)

IntegerLiteral ==
  /\ Handled("apply", {"int"})
  /\ SetBack(BindStmt(Back, Top.at, Top.tree.val))
  /\ UNCHANGED <<program, mBufs, mContents, input, scanned, output, status>>

\* unarysizeof: an int is taken for a long.
Sizeof ==
  /\ Handled("apply", {"sizeof"})
  /\ SetBack(BindStmt(Back, Top.at, 8))
  /\ UNCHANGED <<program, mBufs, mContents, input, scanned, output, status>>

Declref ==
  /\ Handled("apply", {"ref"})
  /\ LET v == IF Top.tree.op = "object" THEN DeclVal(Top.tree.name) ELSE 0
     IN  SetBack(BindStmt(SetPC(Back, Top.at), Top.at, v))
  /\ UNCHANGED <<program, mBufs, mContents, input, scanned, output, status>>

Cast ==
  /\ Handled("apply", {"cast"})
  /\ SetBack(BindStmt(SetPC(Back, Top.at), Top.at, StmtVal(Kid(Top, 1))))
  /\ UNCHANGED <<program, mBufs, mContents, input, scanned, output, status>>

\* The value of an operator, if binop knows it; pointers are not scaled.
Operator(op, a, b) ==
  LET truth(p) == IF p THEN {1} ELSE {0}
  IN  CASE op = "<" -> truth(a < b)
        [] op = ">" -> truth(a > b)
        [] op = "<=" -> truth(a <= b)
        [] op = ">=" -> truth(a >= b)
        [] op = "==" -> truth(a = b)
        [] op = "!=" -> truth(a # b)
        [] op \in {"+", "ptr+"} -> {a + b}
        [] op \in {"-", "ptr-"} -> {a - b}
        [] op = "*" -> {a * b}
        [] OTHER -> {}

\* binop without assignment.
Binop ==
  /\ Handled("apply", {"binary"})
  /\ LET v == Operator(Top.tree.op, StmtVal(Kid(Top, 1)), StmtVal(Kid(Top, 2)))
     IN  \/ /\ v = {}
            /\ UNCHANGED mStack
         \/ \E r \in v : SetBack(BindStmt(Back, Top.at, r))
  /\ UNCHANGED <<program, mBufs, mContents, input, scanned, output, status>>

\* binop with any operator of assignment: the right value goes to the left node, to
\* its variable, or to its cell.  The assignment itself gets no value.
Assign ==
  /\ Handled("apply", {"assign"})
  /\ LET left == Target(Top)
         right == StmtVal(Kid(Top, 2))
         bound == BindStmt(Back, left.at, right)
     IN  /\ SetBack(IF left.tree.kind = "ref" THEN BindDecl(bound, left.tree.name, right)
                    ELSE bound)
         /\ mContents' = [c \in DOMAIN mContents |->
                            IF c \in CellsUsed(Top) THEN right ELSE mContents[c]]
  /\ UNCHANGED <<program, mBufs, input, scanned, output, status>>

\* The value of an operator, if unaryop knows it.
Prefix(op, a) ==
  CASE op = "+" -> {a} [] op = "-" -> {-a} [] op = "*" -> {mContents[a]} [] OTHER -> {}

Unaryop ==
  /\ Handled("apply", {"unary"})
  /\ LET v == Prefix(Top.tree.op, StmtVal(Kid(Top, 1)))
     IN  \/ /\ v = {}
            /\ UNCHANGED mStack
         \/ \E r \in v : SetBack(BindStmt(Back, Top.at, r))
  /\ UNCHANGED <<program, mBufs, mContents, input, scanned, output, status>>

Array ==
  /\ Handled("apply", {"index"})
  /\ SetBack(BindStmt(Back, Top.at, mContents[Element(Top)]))
  /\ UNCHANGED <<program, mBufs, mContents, input, scanned, output, status>>

-----------------------------------------------------------------------------
(* Handlers of statements.                                                 *)

\* decl, for one variable: an array is allocated, and never released.
Decl ==
  /\ Handled("declare", {"decl"})
  /\ LET v == Head(Top.tree.vars)
     IN  \/ /\ v.init # 0
            /\ SetBack(BindDecl(Back, v.name, StmtVal(Kid(Top, v.init))))
            /\ UNCHANGED <<mBufs, mContents>>
         \/ /\ v.init = 0 /\ v.size = 0
            /\ SetBack(BindDecl(Back, v.name, 0))
            /\ UNCHANGED <<mBufs, mContents>>
         \/ /\ v.init = 0 /\ v.size # 0
            /\ \E base \in Bases : /\ Malloc(v.size, base)
                                   /\ SetBack(BindDecl(Back, v.name, base))
  /\ UNCHANGED <<program, input, scanned, output, status>>

\* Faulty variant: the value is bound in the frame that is left.
RetOwnFrame ==
  /\ Handled("apply", {"return"})
  /\ Len(mStack) > 1
  /\ mStack' = SubSeq(mStack, 1, Len(mStack) - 1)
  /\ UNCHANGED <<program, mBufs, mContents, input, scanned, output, status>>

\* Faulty variant: the frame stays.
RetKeepsFrame ==
  /\ Handled("apply", {"return"})
  /\ Len(mStack) > 1
  /\ LET caller == mStack[Len(mStack) - 1]
     IN  mStack' = [mStack EXCEPT ![Len(mStack) - 1] =
                      BindStmt(caller, caller.pc, StmtVal(Kid(Top, 1)))]
  /\ UNCHANGED <<program, mBufs, mContents, input, scanned, output, status>>

\* ret: the frame is popped and the node its caller is at gets the value.  The
\* visitor goes on with what follows the return.
Ret ==
  /\ Handled("apply", {"return"})
  /\ Len(mStack) > 1
  /\ LET caller == mStack[Len(mStack) - 1]
     IN  mStack' = Append(SubSeq(mStack, 1, Len(mStack) - 2),
                          BindStmt(caller, caller.pc, StmtVal(CHOOSE n \in NodesRead(Top) : TRUE)))
  /\ UNCHANGED <<program, mBufs, mContents, input, scanned, output, status>>

\* A return from the last frame reads the back of an empty vector.
RetFromMain ==
  /\ Handled("apply", {"return"})
  /\ Len(mStack) = 1
  /\ mStack' = <<>>
  /\ status' = "undefined"
  /\ UNCHANGED <<program, mBufs, mContents, input, scanned, output>>

-----------------------------------------------------------------------------
(* call.                                                                   *)

Calling(name) == Handling("apply", {"call"}) /\ Top.tree.name = name
Arg(i) == StmtVal(Kid(Top, i + 1))
Here == SetPC(Back, Top.at)

\* At the end of the input GET gives 0.
CallInput ==
  /\ Calling("GET")
  /\ SetBack(BindStmt(Here, Top.at, IF scanned < Len(input) THEN input[scanned + 1] ELSE 0))
  /\ scanned' = scanned + 1
  /\ todo' = Tail(todo)
  /\ UNCHANGED <<program, mBufs, mContents, input, output, status>>

CallOutput ==
  /\ Calling("PRINT")
  /\ SetBack(Here)
  /\ output' = Append(output, Arg(1))
  /\ todo' = Tail(todo)
  /\ UNCHANGED <<program, mBufs, mContents, input, scanned, status>>

CallMalloc ==
  /\ Calling("MALLOC")
  /\ \E base \in Bases : /\ Malloc(Arg(1), base)
                         /\ SetBack(BindStmt(Here, Top.at, base))
  /\ todo' = Tail(todo)
  /\ UNCHANGED <<program, input, scanned, output, status>>

CallFree ==
  /\ Calling("FREE")
  /\ Free(Arg(1))
  /\ SetBack(BindStmt(Here, Top.at, 0))
  /\ todo' = Tail(todo)
  /\ UNCHANGED <<program, input, scanned, output, status>>

\* Any other function gets a frame with its parameters, and its body is visited.
CallFunction ==
  /\ Handling("apply", {"call"}) /\ Top.tree.name \notin Builtins
  /\ LET params == program.params[Top.tree.name]
         args == [p \in Range(params) |-> Arg(CHOOSE i \in DOMAIN params : params[i] = p)]
     IN  mStack' = Append([mStack EXCEPT ![Len(mStack)] = Here], StackFrame(args))
  /\ todo' = (IF Top.tree.name \in DOMAIN program.bodies
              THEN VisitKids(program.bodies[Top.tree.name], <<Top.tree.name>>) ELSE <<>>)
             \o Tail(todo)
  /\ UNCHANGED <<program, mBufs, mContents, input, scanned, output, status>>

Stopped == (status # "running" \/ todo = <<>>) /\ UNCHANGED vars

Next ==
  \/ VisitNode \/ VisitCondition \/ Branch \/ Test \/ Abort
  \/ IntegerLiteral \/ Sizeof \/ Declref \/ Cast \/ Binop \/ Assign \/ Unaryop \/ Array
  \/ Decl \/ Ret \/ RetFromMain
  \/ CallInput \/ CallOutput \/ CallMalloc \/ CallFree \/ CallFunction
  \/ Stopped

Spec == Init /\ [][Next]_vars

-----------------------------------------------------------------------------
(* Properties.                                                             *)

IntRange == -(2^(Width - 1))..(2^(Width - 1) - 1)

\* The state has its types: what frames keep of variables and nodes are ints, cells
\* too, and a frame is left as long as the program runs.
TypeOK ==
  /\ status \in {"running", "aborted", "undefined"}
  /\ status = "undefined" <=> mStack = <<>>
  /\ \A k \in DOMAIN mStack : /\ Range(mStack[k].vars) \subseteq IntRange
                              /\ Range(mStack[k].exprs) \subseteq IntRange
  /\ Range(mContents) \subseteq IntRange

\* The cells that may be used are those of the buffers that are allocated, no more
\* and no fewer, through every order of MALLOC, FREE and declarations of arrays.
HeapExact ==
  /\ DOMAIN mContents = UNION {Cells(b, mBufs[b]) : b \in DOMAIN mBufs}
  /\ \A b, c \in DOMAIN mBufs :
       b # c => Cells(b, mBufs[b]) \cap Cells(c, mBufs[c]) = {}

\* Every function but main ends with its only return, which gives a value, main has
\* none, and what is called is defined and not main.
ReturnsAtEnd(p) ==
  /\ \A f \in DOMAIN p.bodies :
       LET kids == p.bodies[f].kids
       IN  /\ \A i \in DOMAIN kids : kids[i].kind = "return" <=> f # "main" /\ i = Len(kids)
           /\ f # "main" => kids # <<>> /\ kids[Len(kids)].kids # <<>>
  /\ \A t \in Nodes(p) : \A k \in Range(t.kids) : \A j \in Range(k.kids) : j.kind # "return"
  /\ \A t \in Nodes(p) :
       t.kind = "call" => t.name \in Builtins \cup (DOMAIN p.bodies \ {"main"})

\* The returns that are still to come.
Returns(s) == Cardinality({i \in DOMAIN s : s[i].tree.kind = "return"})

\* Between a call and the end of its function there is one frame for it: there is
\* one more than there are returns to come.  A frame too many or too few gives a
\* function the variables of another.  ret pops whatever is last, the visitor goes
\* on behind a return, and a body without one leaves its frame, so that this takes
\* a program with one return at the end of each function.
OneFramePerCall ==
  ReturnsAtEnd(program) /\ status = "running" => Len(mStack) = 1 + Returns(todo)
=============================================================================
