-------------------------------- MODULE Repl --------------------------------
(***************************************************************************)
(* The read-eval loop of kaleidoscope/functional_programming_language/:    *)
(* the handlers of functional.cpp, the code generation they start, and the *)
(* JIT of KaleidoscopeJIT.h.                                               *)
(*                                                                         *)
(* One action is one whole handler.  What a handler reads is a choice:     *)
(*   - a prototype is a name and the sequence of its parameters;           *)
(*   - a body is the set of operands of its outermost binary operator and  *)
(*     that operator; an operand is the sequence of the variables it reads *)
(*     and of the functions it calls in the order of code generation,      *)
(*     which stops at the first it cannot generate.                        *)
(* The operator + - * < of the language is Builtin; a user-defined binary  *)
(* operator is a Name in Op, a unary one any other Name.  Text that does   *)
(* not parse changes nothing that the handlers keep and is left out.       *)
(*                                                                         *)
(* A module of the JIT is known by its position in ModuleHandles: modules  *)
(* are added at the end, and the only one removed is the last.             *)
(***************************************************************************)
EXTENDS Naturals, Sequences, Functions

CONSTANTS
  Name,     \* the functions a program can name
  Op,       \* those that are binary operators
  Host,     \* those that the host process also exports
  Params,   \* the parameter lists that are read
  Body,     \* the bodies that are read
  None,     \* no prototype
  Builtin,  \* the operator of a body that calls no function
  MaxDefs   \* bound: the number of definitions accepted

VARIABLES
  TheModule,        \* the functions declared in the open module
  FunctionProtos,   \* the most recent prototype of each name
  BinopPrecedence,  \* the user-defined operators the parser accepts
  ModuleHandles,    \* the modules added to the JIT
  linked,           \* where the calls of each linked module lead
  ran,              \* the calls made by the last expression evaluated
  arities,          \* history: the numbers of parameters read for each name
  pc                \* whether the loop is still running

vars ==
  <<TheModule, FunctionProtos, BinopPrecedence, ModuleHandles, linked, ran, arities, pc>>

Ref == [kind : {"read", "call"}, name : UNION {Range(ps) : ps \in Params} \cup Name,
        args : Nat]

ASSUME NamesAssumption ==
  /\ Op \subseteq Name /\ Host \subseteq Name
  /\ None \notin Params \cup Name /\ Builtin \notin Name
  /\ MaxDefs \in Nat

ASSUME TextAssumption ==
  /\ \A ps \in Params : ps \in Seq(Range(ps))
  /\ \A body \in Body :
       /\ body.op \in Op \cup {Builtin}
       /\ \A o \in body.operands :
            /\ o \in Seq(Ref)
            /\ \A j \in DOMAIN o : o[j].kind = "call" => o[j].name \in Name

NoFunctions == [f \in Name |-> None]

\* main and InitializeModuleAndPassManager.
Init ==
  /\ TheModule = NoFunctions
  /\ FunctionProtos = NoFunctions
  /\ BinopPrecedence = {}
  /\ ModuleHandles = <<>>
  /\ linked = <<>>
  /\ ran = {}
  /\ arities = [f \in Name |-> {}]
  /\ pc = "ready"

-----------------------------------------------------------------------------
(* Code generation.                                                        *)

\* getFunction: the declaration of the open module, else one made from the most
\* recent prototype; None if there is neither.
Found(protos, f) == IF TheModule[f] # None THEN TheModule[f] ELSE protos[f]

\* Faulty variant: the number of arguments is not checked.
GeneratesUnchecked(protos, scope, r) ==
  \/ r.kind = "read" /\ r.name \in scope
  \/ r.kind = "call" /\ Found(protos, r.name) # None

\* VariableExprAST::codegen, CallExprAST::codegen up to its arguments.
Generates(protos, scope, r) ==
  \/ r.kind = "read" /\ r.name \in scope
  \/ /\ r.kind = "call"
     /\ Found(protos, r.name) # None
     /\ Len(Found(protos, r.name)) = r.args

\* The body is generated without an error.
Compiles(protos, scope, body) ==
  \A o \in body.operands : \A j \in DOMAIN o : Generates(protos, scope, o[j])

\* The names getFunction was asked for.  BinaryExprAST::codegen generates its
\* right operand even if the left one failed, and asks for a user-defined
\* operator last.
Asked(protos, scope, body) ==
  {f \in Name :
     \/ f = body.op /\ Compiles(protos, scope, body)
     \/ \E o \in body.operands : \E j \in DOMAIN o :
          /\ o[j].kind = "call" /\ o[j].name = f
          /\ \A i \in 1..(j - 1) : Generates(protos, scope, o[i])}

\* The declarations of the open module after the generation.
ModuleWith(protos, scope, body) ==
  [f \in Name |->
     IF f \in Asked(protos, scope, body) THEN Found(protos, f) ELSE TheModule[f]]

\* The calls in the generated code, with their numbers of arguments.
Calls(body) ==
  LET named(o) == {[callee |-> o[j].name, args |-> o[j].args] :
                     j \in {k \in DOMAIN o : o[k].kind = "call"}}
  IN  (UNION {named(o) : o \in body.operands})
        \cup {[callee |-> f, args |-> 2] : f \in {body.op} \ {Builtin}}

-----------------------------------------------------------------------------
(* The JIT.                                                                *)

\* Faulty variant: the modules are searched from the first added to the last.
NewestForward(handles, f) ==
  LET holders == {i \in DOMAIN handles : handles[i].def = f}
  IN  IF holders = {} THEN 0 ELSE CHOOSE i \in holders : \A j \in holders : i <= j

\* findMangledSymbol: the last module added that defines f, or 0, the host.
Newest(handles, f) ==
  LET holders == {i \in DOMAIN handles : handles[i].def = f}
  IN  IF holders = {} THEN 0 ELSE CHOOSE i \in holders : \A j \in holders : j <= i

Callees(m) == {c.callee : c \in m.calls}

\* The resolver of a module: its own function first, then the JIT.
Resolve(handles, i, f) ==
  IF handles[i].def = f THEN i ELSE Newest(handles, f)

Links(handles, i) == [f \in Callees(handles[i]) |-> Resolve(handles, i, f)]

\* Faulty variant: only the modules that the expression itself calls are linked.
FinalizedCallees(handles, top) ==
  {top} \cup ({Resolve(handles, top, f) : f \in Callees(handles[top])} \ {0})

\* The object layer links a module when an address in it is first asked for, and
\* resolving a name asks for an address: the modules linked when module top is
\* asked for are those in every set that holds top and follows the calls.
Finalized(handles, top) ==
  {i \in DOMAIN handles :
     \A S \in SUBSET DOMAIN handles :
       /\ top \in S
       /\ \A k \in S \ DOMAIN linked : \A f \in Callees(handles[k]) :
            Resolve(handles, k, f) # 0 => Resolve(handles, k, f) \in S
       => i \in S}

\* A name is neither in the JIT nor in the host process: the linker gives up.
Unresolved(handles, top) ==
  \E i \in Finalized(handles, top) \ DOMAIN linked : \E f \in Callees(handles[i]) :
    Resolve(handles, i, f) = 0 /\ f \notin Host

\* Faulty variant: every module is linked again.
LinkedAfreshWith(handles, top) ==
  [i \in DOMAIN linked \cup Finalized(handles, top) |-> Links(handles, i)]

\* What is linked after the address of a function of module top was taken.
LinkedWith(handles, top) ==
  [i \in DOMAIN linked \cup Finalized(handles, top) |->
     IF i \in DOMAIN linked THEN linked[i] ELSE Links(handles, i)]

\* Faulty variant: the first module is removed instead.
RemoveFirst(handles) == Tail(handles)

\* removeModule for the module added last.
RemoveModule(handles) == SubSeq(handles, 1, Len(handles) - 1)

-----------------------------------------------------------------------------
(* The handlers.                                                           *)

\* ParsePrototype refuses an operator without two operands, and the parser takes
\* a user-defined operator only once it has a precedence.
Parses(f, ps) == f \in Op => Len(ps) = 2
ParsesBody(body) == body.op \in BinopPrecedence \cup {Builtin}

\* The history of the prototypes read.
Reads(f, ps) == arities' = [arities EXCEPT ![f] = @ \cup {Len(ps)}]

\* HandleDefinition of a function that FunctionAST::codegen generates: the module
\* goes to the JIT and a new one is opened.  A function already declared in the
\* open module keeps the parameters of that declaration.
DefineFunction ==
  /\ pc = "ready"
  /\ Len(ModuleHandles) < MaxDefs
  /\ \E f \in Name, ps \in Params, body \in Body :
       LET protos == [FunctionProtos EXCEPT ![f] = ps]
           own == Found(protos, f)
       IN  /\ Parses(f, ps) /\ ParsesBody(body)
           /\ Compiles(protos, Range(own), body)
           /\ FunctionProtos' = protos
           /\ Reads(f, ps)
           /\ BinopPrecedence' = BinopPrecedence \cup ({f} \cap Op)
           /\ ModuleHandles' =
                Append(ModuleHandles,
                       [def |-> f, params |-> own, calls |-> Calls(body)])
  /\ TheModule' = NoFunctions
  /\ UNCHANGED <<linked, ran, pc>>

\* Faulty variant: a failed operator is neither uninstalled nor a crash.
CrashesNever(f) == FALSE

\* The error path of FunctionAST::codegen reads the prototype of a binary
\* operator through Proto, which it has moved from.
Crashes(f) == f \in Op

\* HandleDefinition of a function whose body is not generated.
FailDefinition ==
  /\ pc = "ready"
  /\ \E f \in Name, ps \in Params, body \in Body :
       LET protos == [FunctionProtos EXCEPT ![f] = ps]
           scope == Range(Found(protos, f))
       IN  /\ Parses(f, ps) /\ ParsesBody(body)
           /\ ~Compiles(protos, scope, body)
           /\ FunctionProtos' = protos
           /\ Reads(f, ps)
           /\ BinopPrecedence' = BinopPrecedence \cup ({f} \cap Op)
           /\ TheModule' = [ModuleWith(protos, scope, body) EXCEPT ![f] = None]
           /\ pc' = IF Crashes(f) THEN "crashed" ELSE "ready"
  /\ UNCHANGED <<ModuleHandles, linked, ran>>

\* HandleExtern.  A second declaration of a name in one module is given another
\* name by LLVM, so getFunction keeps finding the first.
HandleExtern ==
  /\ pc = "ready"
  /\ \E f \in Name, ps \in Params :
       /\ Parses(f, ps)
       /\ FunctionProtos' = [FunctionProtos EXCEPT ![f] = ps]
       /\ Reads(f, ps)
       /\ TheModule' = [TheModule EXCEPT ![f] = IF @ = None THEN ps ELSE @]
  /\ UNCHANGED <<BinopPrecedence, ModuleHandles, linked, ran, pc>>

\* HandleTopLevelExpression of an expression that is generated: its module goes
\* to the JIT, is linked, run and removed again.
EvaluateExpression ==
  /\ pc = "ready"
  /\ \E body \in Body :
       LET handles ==
             Append(ModuleHandles, [def |-> None, params |-> <<>>, calls |-> Calls(body)])
           top == Len(handles)
       IN  /\ ParsesBody(body)
           /\ Compiles(FunctionProtos, {}, body)
           /\ \/ /\ Unresolved(handles, top)
                 /\ pc' = "crashed"
                 /\ ModuleHandles' = handles
                 /\ UNCHANGED <<linked, ran>>
              \/ /\ ~Unresolved(handles, top)
                 /\ linked' = Restrict(LinkedWith(handles, top),
                                       DOMAIN LinkedWith(handles, top) \ {top})
                 /\ ran' = {[callee |-> c.callee, args |-> c.args,
                             target |-> Resolve(handles, top, c.callee)] : c \in Calls(body)}
                 /\ ModuleHandles' = RemoveModule(handles)
                 /\ UNCHANGED pc
  /\ TheModule' = NoFunctions
  /\ UNCHANGED <<FunctionProtos, BinopPrecedence, arities>>

\* HandleTopLevelExpression of an expression that is not generated.
FailExpression ==
  /\ pc = "ready"
  /\ \E body \in Body :
       /\ ParsesBody(body)
       /\ ~Compiles(FunctionProtos, {}, body)
       /\ TheModule' = ModuleWith(FunctionProtos, {}, body)
  /\ UNCHANGED <<FunctionProtos, BinopPrecedence, ModuleHandles, linked, ran, arities, pc>>

\* The process ended by itself.  The end of the input may come after any handler
\* and changes nothing, so it has no action.
Stopped == pc = "crashed" /\ UNCHANGED vars

Next ==
  \/ DefineFunction
  \/ FailDefinition
  \/ HandleExtern
  \/ EvaluateExpression
  \/ FailExpression
  \/ Stopped

Spec == Init /\ [][Next]_vars

-----------------------------------------------------------------------------
(* Properties.                                                             *)

Compiled == [def : Name, params : Params, calls : SUBSET [callee : Name, args : Nat]]

\* The type invariant: between two handlers the JIT holds functions of the
\* program only, no anonymous expression, and what is linked is in the JIT.
TypeOK ==
  /\ TheModule \in [Name -> Params \cup {None}]
  /\ FunctionProtos \in [Name -> Params \cup {None}]
  /\ BinopPrecedence \in SUBSET Op
  /\ pc \in {"ready", "crashed"}
  /\ pc # "crashed" => ModuleHandles \in Seq(Compiled)
  /\ DOMAIN linked \subseteq DOMAIN ModuleHandles
  /\ ran \in SUBSET [callee : Name, args : Nat, target : Nat]
  /\ arities \in [Name -> SUBSET Nat]

\* A call of a linked module leads to the function it names, whose module is
\* linked too, or to the host: running a function never meets a call that was
\* left unresolved when it was linked, in whatever order it was defined, used
\* and redefined.
LinksLead ==
  pc # "crashed" =>
    \A i \in DOMAIN linked : \A f \in Callees(ModuleHandles[i]) :
      \/ linked[i][f] = 0 /\ f \in Host
      \/ linked[i][f] \in DOMAIN linked /\ ModuleHandles[linked[i][f]].def = f

\* "binary operator not found!" (functional.cpp:797) never fires: an operator the
\* parser accepts has a prototype of two parameters, and a definition in the JIT,
\* through failed definitions and redeclarations.
OperatorsResolve ==
  pc # "crashed" =>
    \A f \in BinopPrecedence :
      /\ FunctionProtos[f] # None /\ Len(FunctionProtos[f]) = 2
      /\ Newest(ModuleHandles, f) # 0

\* A name that was always read with the same number of parameters is called with
\* that number, whichever of its declarations and definitions a call went through.
FixedArityAgrees ==
  \A c \in ran : \A n \in arities[c.callee] :
    (c.target # 0 /\ arities[c.callee] = {n}) =>
      c.args = n /\ Len(ModuleHandles[c.target].params) = n

\* "If argument mismatch error" (functional.cpp:809): an expression that is
\* evaluated calls a function with the number of parameters it was compiled with.
\* The code breaks it: the check looks at the newest prototype or at a declaration
\* of the open module, and neither need be what the newest definition has.
CallsAgree ==
  \A c \in ran : c.target # 0 => c.args = Len(ModuleHandles[c.target].params)

\* What a linked function calls never changes: a later definition, failed or not,
\* reaches only the code linked after it.
LinksFrozen ==
  [][\A i \in DOMAIN linked :
       /\ i \in DOMAIN linked' /\ linked'[i] = linked[i]
       /\ ModuleHandles'[i] = ModuleHandles[i]]_vars

\* The number of the last definition of f that was accepted, or 0.
LastAccepted(f) ==
  LET accepted == {0} \cup {i \in DOMAIN ModuleHandles : ModuleHandles[i].def = f}
  IN  CHOOSE d \in accepted : \A e \in accepted : e <= d

\* The session keeps the promise of Definitions: what an expression calls is, for
\* each name, the last definition accepted, although failed definitions have
\* replaced prototypes and anonymous modules have come and gone meanwhile.
Promise ==
  INSTANCE Definitions WITH
    latest <- [f \in Name |-> LastAccepted(f)],
    ran <- {<<c.callee, c.target>> : c \in ran}

NewestDefinitionWins == Promise!Spec
=============================================================================
