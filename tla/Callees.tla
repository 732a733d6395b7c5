------------------------------ MODULE Callees ------------------------------
(***************************************************************************)
(* The function pointer pass of function-pointer-analysis/: what each call *)
(* of a module may call.  A module is a function from its values to        *)
(* records with a kind:                                                    *)
(*   func  : returns, the values it returns                                *)
(*   arg   : of, its function, and no, its place                           *)
(*   phi   : args                                                          *)
(*   load  : args, the pointer                                             *)
(*   store : args, the value and the pointer                               *)
(*   gep   : args, what it indexes and the indices                         *)
(*   call  : args, the callee being the last one                           *)
(*   null and other values                                                 *)
(* and code is the order in which the pass comes to its calls.             *)
(***************************************************************************)
EXTENDS Naturals, FiniteSets, SequencesExt

CONSTANTS
  Module,    \* the modules: [values, code]
  Leftovers  \* what an uninitialised pointer to a function may be

\* What LLVM keeps of a module: who has operands and how many, and that a function
\* has its values and parameters.
HasOperands == {"phi", "load", "store", "gep", "call"}
IsModule(m) ==
  LET values == DOMAIN m.values
      Of(kind) == {v \in values : m.values[v].kind = kind}
      number(v) == Len(m.values[v].args)
  IN  /\ IsFiniteSet(values)
      /\ \A v \in values :
           /\ "args" \in DOMAIN m.values[v] <=> m.values[v].kind \in HasOperands
           /\ m.values[v].kind \in HasOperands => m.values[v].args \in Seq(values)
      /\ \A v \in Of("load") : number(v) = 1
      /\ \A v \in Of("store") : number(v) = 2
      /\ \A v \in Of("gep") \cup Of("call") : number(v) > 0
      /\ \A v \in Of("func") : m.values[v].returns \in Seq(values)
      /\ \A v \in Of("arg") : m.values[v].of \in Of("func") /\ m.values[v].no \in Nat \ {0}
      /\ m.code \in Seq(Of("call")) /\ IsInjective(m.code)

ASSUME ModuleAssumption == \A m \in Module : IsModule(m)

VARIABLES
  module,    \* the module as it was read
  callee,    \* the callee of each call
  call_list, _call_list, \* the possible callees, as names and as values
  next,      \* the place in code
  displayed, \* the names displayed for each call so far
  pc         \* running, done, overflow or crashed

vars == <<module, callee, call_list, _call_list, next, displayed, pc>>

Values == DOMAIN module.values
Kind(v) == module.values[v].kind
Args(v) == module.values[v].args
KindOf(S, k) == {v \in S : Kind(v) = k}
Calls == KindOf(Values, "call")

\* The callee is the last operand of a call.
Operands(v) ==
  IF "args" \notin DOMAIN module.values[v] THEN <<>>
  ELSE IF Kind(v) = "call" THEN Append(Front(Args(v)), callee[v]) ELSE Args(v)
Users(v) == {u \in Values : v \in ToSet(Operands(u))}

getCalledFunction(c) == KindOf({callee[c]}, "func")

-----------------------------------------------------------------------------
(* The functions that follow a pointer are tasks [proc, at].  Each puts    *)
(* values on the lists and calls others.                                   *)

Task(proc, S) == {[proc |-> proc, at |-> v] : v \in S}
Found(S, tasks) == [values |-> S, tasks |-> tasks]

\* The operands of the calls that use one of S, at place no.
PassedAt(S, no) ==
  {Operands(c)[no] : c \in {d \in KindOf(UNION {Users(v) : v \in S}, "call") :
                              no \in DOMAIN Operands(d)}}

\* Every use of the function counts as a call of it.  A phi node that is passed,
\* or that the function is an operand of, is looked for in other calls.
getArgFuncptr(a) ==
  LET no == module.values[a].no
      parent == {module.values[a].of}
      passed == PassedAt(parent, no)
      through == KindOf(passed, "phi") \cup KindOf(UNION {Users(f) : f \in parent}, "phi")
  IN  Found(KindOf(passed \cup PassedAt(through, no), "func"),
            Task("phi", KindOf(passed, "phi")) \cup Task("load", KindOf(passed, "load"))
              \cup Task("arg", KindOf(passed, "arg")))

\* Of a call that returns a function only the arguments that its callee returns.
getCallInst(c) ==
  LET callees == getCalledFunction(c)
                   \cup (IF Kind(callee[c]) = "phi" THEN KindOf(ToSet(Args(callee[c])), "func") ELSE {})
  IN  Found({}, Task("arg", KindOf(UNION {ToSet(module.values[f].returns) : f \in callees}, "arg")))

getPhiNode(p) ==
  LET incoming == ToSet(Args(p))
  IN  Found(KindOf(incoming, "func") \cup KindOf(incoming, "null"),
            Task("phi", KindOf(incoming, "phi")) \cup Task("arg", KindOf(incoming, "arg")))

\* The values stored with one of the pointers.
Stored(S) == {Args(s)[1] : s \in KindOf(UNION {Users(v) : v \in S}, "store")}

\* Faulty variant: elements of aggregates are not looked for.
getLoadInstPlain(l) ==
  LET v == Args(l)[1]
  IN  Found(KindOf(Stored({v}), "func"),
            Task("arg", KindOf(Stored({v}), "arg")) \cup Task("load", KindOf(Stored({v}), "load")))

getLoadInst(l) ==
  LET v == Args(l)[1]
  IN  Found(KindOf(Stored({v}), "func"),
            Task("arg", KindOf(Stored({v}), "arg")) \cup Task("load", KindOf(Stored({v}), "load"))
              \cup Task("gep", KindOf({v}, "gep")))

\* cmpGetElementPtrInst compares the operands as text.
Same(g, h) == Args(g) = Args(h)

getGetElementPtrInst(g) ==
  Found(KindOf(Stored({h \in KindOf(Users(Args(g)[1]), "gep") : Same(g, h)}), "func"), {})

Results(task) ==
  CASE task.proc = "arg" -> getArgFuncptr(task.at)
    [] task.proc = "call" -> getCallInst(task.at)
    [] task.proc = "phi" -> getPhiNode(task.at)
    [] task.proc = "load" -> getLoadInst(task.at)
    [] task.proc = "gep" -> getGetElementPtrInst(task.at)

\* getFunc.
getFunc(c) ==
  UNION {Task(proc, KindOf({callee[c]}, proc)) : proc \in {"load", "arg", "phi", "call"}}

\* All tasks that follow from the given ones, and whether one follows from
\* itself: there is no set of visited values, so that this never returns.
Following(tasks) ==
  LET more(S) == S \cup UNION {Results(t).tasks : t \in S}
      closure[n \in Nat] == IF n = 0 THEN tasks ELSE more(closure[n - 1])
  IN  closure[Cardinality(Values)]
Endless(c) ==
  \E t \in Following(getFunc(c)) : t \in Following(Results(t).tasks)

-----------------------------------------------------------------------------
(* runOnFunction, over all functions.                                      *)

Init ==
  /\ module \in Module
  /\ callee = [c \in {v \in DOMAIN module.values : module.values[v].kind = "call"} |->
                 Last(module.values[c].args)]
  /\ call_list = {} /\ _call_list = {}
  /\ next = 1 /\ displayed = <<>>
  /\ pc = "running"

Call == module.code[next]
Indirect(c) == getCalledFunction(c) = {}

\* A direct call is displayed.
DisplayDirect ==
  /\ pc = "running" /\ next <= Len(module.code) /\ ~Indirect(Call)
  /\ displayed' = Append(displayed, {callee[Call]})
  /\ next' = next + 1
  /\ UNCHANGED <<module, callee, call_list, _call_list, pc>>

\* Faulty variant: a call is rewritten to one of several callees.
OnlyIn(S) == IF S = {} THEN {} ELSE {CHOOSE v \in S : TRUE}

\* The single value of a set.
Only(S) == IF Cardinality(S) = 1 THEN S ELSE {}

\* An indirect call: its possible callees join those of the calls before it.  For
\* null a pointer joins that was never assigned.  A single callee takes the place
\* of the pointer, which crashes if that is no function.
Resolve ==
  /\ pc = "running" /\ next <= Len(module.code) /\ Indirect(Call) /\ ~Endless(Call)
  /\ \E func \in Leftovers :
       LET values == UNION {Results(t).values : t \in Following(getFunc(Call))}
           nulls == KindOf(values, "null")
           single == Only(_call_list')
       IN  /\ call_list' = call_list \cup (values \ nulls) \cup {"NULL" : n \in nulls}
           /\ _call_list' = _call_list \cup (values \ nulls) \cup {func : n \in nulls}
           /\ displayed' = Append(displayed, call_list')
           /\ callee' = [callee EXCEPT ![Call] = IF single = {} THEN @ ELSE CHOOSE v \in single : TRUE]
           /\ pc' = IF single \subseteq Values THEN "running" ELSE "crashed"
  /\ next' = next + 1
  /\ UNCHANGED module

\* The stack overflows.
Overflow ==
  /\ pc = "running" /\ next <= Len(module.code) /\ Indirect(Call) /\ Endless(Call)
  /\ pc' = "overflow"
  /\ UNCHANGED <<module, callee, call_list, _call_list, next, displayed>>

End ==
  /\ pc = "running" /\ next = Len(module.code) + 1
  /\ pc' = "done"
  /\ UNCHANGED <<module, callee, call_list, _call_list, next, displayed>>

Stopped == pc # "running" /\ UNCHANGED vars

Next == DisplayDirect \/ Resolve \/ Overflow \/ End \/ Stopped

Spec == Init /\ [][Next]_vars

-----------------------------------------------------------------------------
(* What the calls of the module do call, as it was read.                   *)

Read(c) == Last(Args(c))

\* may is a set of pairs: a value and a function that it may be.
Image(v, may) == {pair[2] : pair \in {e \in may : e[1] = v}}

\* The values that v may have the value of.
StoredIn(p) ==
  {Args(s)[1] : s \in {u \in KindOf(Values, "store") :
     \/ Args(u)[2] = p
     \/ Kind(p) = "gep" /\ Kind(Args(u)[2]) = "gep" /\ Same(Args(u)[2], p)}}
CallsOf(f, may) == {c \in Calls : <<Read(c), f>> \in may}
\* With fewer arguments nothing is passed.
Passes(c, no) == no < Len(Args(c))
Sources(v, may) ==
  CASE Kind(v) = "phi" -> ToSet(Args(v))
    [] Kind(v) = "arg" ->
         LET passing == {c \in CallsOf(module.values[v].of, may) : Passes(c, module.values[v].no)}
         IN  {Args(c)[module.values[v].no] : c \in passing}
    [] Kind(v) = "load" -> StoredIn(Args(v)[1])
    [] Kind(v) = "call" ->
         UNION {ToSet(module.values[f].returns) : f \in Image(Read(v), may)}
    [] OTHER -> {}

\* The functions that each value may be: the least solution.
MayBe ==
  LET functions == KindOf(Values, "func")
      own == {<<f, f>> : f \in functions}
      step(may) == may \cup UNION {{<<v, f>> : f \in UNION {Image(w, may) : w \in Sources(v, may)}} :
                                     v \in Values}
      after[n \in Nat] == IF n = 0 THEN own ELSE step(after[n - 1])
  IN  after[Cardinality(Values) * Cardinality(functions)]

\* The sources that the pass follows: of an argument what direct calls pass, and
\* functions passed by the calls of a phi node its function is an operand of; of
\* a call the arguments that functions it names, or that its phi node names, return.
Follows(v, w, may) ==
  CASE Kind(v) = "phi" -> Kind(w) \in {"func", "null", "phi", "arg"}
    [] Kind(v) = "arg" ->
         LET f == module.values[v].of
         IN  /\ Kind(w) \in {"func", "null", "phi", "load", "arg"}
             /\ \A c \in CallsOf(f, may) :
                  Passes(c, module.values[v].no) /\ Args(c)[module.values[v].no] = w =>
                    \/ Read(c) = f
                    \/ Kind(Read(c)) = "phi" /\ f \in ToSet(Args(Read(c))) /\ Kind(w) = "func"
    [] Kind(v) = "load" ->
         IF Kind(Args(v)[1]) = "gep" THEN Kind(w) \in {"func", "null"}
         ELSE Kind(w) \in {"func", "null", "arg", "load"}
    [] Kind(v) = "call" ->
         /\ Kind(w) = "arg"
         /\ \A f \in Image(Read(v), may) :
              f = Read(v) \/ (Kind(Read(v)) = "phi" /\ f \in ToSet(Args(Read(v))))

\* All sources of the callee of c are followed.
Followed(c, may) ==
  LET more(S) == S \cup UNION {Sources(v, may) : v \in S}
      sources[n \in Nat] == IF n = 0 THEN {Read(c)} ELSE more(sources[n - 1])
  IN  \A v \in sources[Cardinality(Values)] : \A w \in Sources(v, may) : Follows(v, w, may)

-----------------------------------------------------------------------------
(* Properties.                                                             *)

\* README.md: the pass shall "calculate the functions that may call".  For a call
\* whose callee comes from sources that the pass follows, every function it may
\* call is displayed.
ListsAll ==
  pc = "done" =>
    LET may == MayBe
    IN  \A i \in DOMAIN displayed :
          Followed(module.code[i], may) => Image(Read(module.code[i]), may) \subseteq displayed[i]

\* README.md: "if it is determined, replace it with direct function call".  A call
\* that may call some function, all by sources that the pass follows, is replaced
\* only by the one function that it may call, which was the only one displayed.
\* Of a call that may call none it says nothing: with nothing found for it, the code
\* rewrites it to what an earlier call left on the list.
ReplacesRight ==
  pc = "done" =>
    LET may == MayBe
    IN  \A i \in DOMAIN displayed :
          LET c == module.code[i]
          IN  callee[c] # Read(c) /\ Followed(c, may) /\ Image(Read(c), may) # {} =>
                /\ Image(Read(c), may) = {callee[c]}
                /\ displayed[i] \in {{callee[c]}, {callee[c], "NULL"}}
=============================================================================
