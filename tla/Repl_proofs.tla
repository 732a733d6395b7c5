---------------------------- MODULE Repl_proofs -----------------------------
(***************************************************************************)
(* Proofs about the session of Kaleidoscope, for every set of names,       *)
(* prototypes and bodies, and every number of definitions.                 *)
(***************************************************************************)
EXTENDS Repl, SequenceTheorems, FiniteSetTheorems, TLAPS

-----------------------------------------------------------------------------
(* Facts about numbers and sequences.                                      *)

\* A nonempty set of numbers up to n has a greatest element m: among the upper
\* parts of the set there is a least one, and it is {m}.
LEMMA Greatest ==
  ASSUME NEW n \in Nat, NEW S \in SUBSET (0..n), S # {}
  PROVE  \E m \in S : \A k \in S : k <= m
<1> DEFINE up(k) == {j \in S : k <= j}
           T == {up(k) : k \in S}
<1>1. IsFiniteSet(S) /\ S \subseteq Nat
  <2> HIDE DEF up, T
  <2>1. IsFiniteSet(0..n)
    BY FS_Interval
  <2>2. IsFiniteSet(S)
    BY <2>1, FS_Subset
  <2>3. S \subseteq Nat
    OBVIOUS
  <2> QED
    BY <2>2, <2>3
<1>2. T \subseteq FiniteSubsetsOf(S) /\ T # {}
  <2>1. \A k \in S : up(k) \in SUBSET S
    OBVIOUS
  <2>2. T \subseteq SUBSET S /\ T # {}
    BY <2>1
  <2> QED
    BY <1>1, <2>2, FS_FiniteSubsetsOfFinite
<1>3. PICK t \in T : \A u \in T : ~(<<u, t>> \in StrictSubsetOrdering(S))
  <2> HIDE DEF T
  <2> QED
    BY <1>2, FS_StrictSubsetOrderingWellFounded, WFMin
<1>4. PICK m \in S : t = up(m)
  OBVIOUS
<1>5. ASSUME NEW k \in S PROVE k <= m
  <2>1. SUFFICES ASSUME ~(k <= m) PROVE FALSE
    OBVIOUS
  <2>a. k \in Nat /\ m \in Nat /\ m < k
    BY <1>1, <2>1
  <2>b. \A j \in S : j \in Nat
    BY <1>1
  <2>c. \A j \in up(k) : j \in up(m)
    BY <2>a, <2>b, SMT
  <2>d. m \in up(m) /\ m \notin up(k)
    BY <2>a, SMT
  <2>2. up(k) \subseteq up(m) /\ m \in up(m) /\ m \notin up(k)
    <3> HIDE DEF up
    <3> QED
      BY <2>c, <2>d
  <2>3. up(k) \in SUBSET S /\ up(m) \in SUBSET S /\ up(k) # up(m)
    BY <2>2
  <2>4. <<up(k), up(m)>> \in StrictSubsetOrdering(S)
    <3> HIDE DEF up
    <3> QED
      BY <2>2, <2>3 DEF StrictSubsetOrdering
  <2> QED
    BY <1>3, <1>4, <2>4
<1> QED
  BY <1>5

\* Removing the module added last gives back the modules before it.
LEMMA RemoveAdded ==
  ASSUME NEW S, NEW s \in Seq(S), NEW e \in S
  PROVE  /\ RemoveModule(Append(s, e)) = s
         /\ Len(Append(s, e)) = Len(s) + 1
<1>1. /\ Append(s, e) \in Seq(S)
      /\ Len(Append(s, e)) = Len(s) + 1
      /\ \A i \in 1..Len(s) : Append(s, e)[i] = s[i]
  BY AppendProperties
<1>2. RemoveModule(Append(s, e)) = SubSeq(Append(s, e), 1, Len(s))
  BY <1>1 DEF RemoveModule
<1>3. SubSeq(Append(s, e), 1, Len(s)) = s
  BY <1>1
<1> QED
  BY <1>1, <1>2, <1>3

\* The search for the newest module with a function finds it, or none.
LEMMA NewestFound ==
  ASSUME NEW handles, Len(handles) \in Nat, DOMAIN handles = 1..Len(handles), NEW f
  PROVE  /\ Newest(handles, f) \in Nat
         /\ \/ /\ Newest(handles, f) = 0
               /\ \A i \in DOMAIN handles : handles[i].def # f
            \/ /\ Newest(handles, f) \in DOMAIN handles
               /\ handles[Newest(handles, f)].def = f
               /\ \A i \in DOMAIN handles : handles[i].def = f => i <= Newest(handles, f)
<1> DEFINE holders == {i \in DOMAIN handles : handles[i].def = f}
<1>1. CASE holders = {}
  <2>1. Newest(handles, f) = 0
    BY <1>1 DEF Newest
  <2> QED
    BY <1>1, <2>1
<1>2. CASE holders # {}
  <2>1. holders \in SUBSET (0..Len(handles))
    OBVIOUS
  <2>2. \E m \in holders : \A k \in holders : k <= m
    <3> HIDE DEF holders
    <3> QED
      BY <1>2, <2>1, Greatest
  <2>3. Newest(handles, f) = CHOOSE m \in holders : \A k \in holders : k <= m
    BY <1>2 DEF Newest
  <2>4. /\ Newest(handles, f) \in holders
        /\ \A k \in holders : k <= Newest(handles, f)
    <3> HIDE DEF holders
    <3> QED
      BY <2>2, <2>3
  <2> QED
    BY <2>4
<1> QED
  BY <1>1, <1>2

-----------------------------------------------------------------------------
(* Type correctness.                                                       *)

\* The modules of the JIT, the anonymous one of an expression included.
Added ==
  [def : Name \cup {None}, params : Params \cup {<<>>},
   calls : SUBSET [callee : Name, args : Nat]]

\* The calls of a body name functions.
LEMMA CallTypes ==
  ASSUME NEW body \in Body
  PROVE  Calls(body) \in SUBSET [callee : Name, args : Nat]
<1>1. ASSUME NEW o \in body.operands, NEW j \in DOMAIN o, o[j].kind = "call"
      PROVE  [callee |-> o[j].name, args |-> o[j].args] \in [callee : Name, args : Nat]
  <2>1. o \in Seq(Ref) /\ o[j].name \in Name
    BY <1>1, TextAssumption
  <2>2. o[j] \in Ref
    BY <2>1
  <2> QED
    BY <2>1, <2>2 DEF Ref
<1>2. ASSUME NEW f \in {body.op} \ {Builtin}
      PROVE  [callee |-> f, args |-> 2] \in [callee : Name, args : Nat]
  BY TextAssumption, NamesAssumption
<1> QED
  BY <1>1, <1>2 DEF Calls

\* The module of an expression, added after the modules of the session.
LEMMA AnonymousAdded ==
  ASSUME NEW handles \in Seq(Compiled), NEW body \in Body
  PROVE  LET anon == [def |-> None, params |-> <<>>, calls |-> Calls(body)]
             more == Append(handles, anon)
         IN  /\ more \in Seq(Added)
             /\ Len(more) = Len(handles) + 1
             /\ DOMAIN more = 1..(Len(handles) + 1)
             /\ \A i \in DOMAIN handles : more[i] = handles[i]
             /\ more[Len(handles) + 1] = anon
             /\ RemoveModule(more) = handles
<1> DEFINE anon == [def |-> None, params |-> <<>>, calls |-> Calls(body)]
<1>1. anon \in Added
  BY CallTypes DEF Added
<1>2. handles \in Seq(Added)
  <2>1. Compiled \subseteq Added
    BY DEF Compiled, Added
  <2> QED
    BY <2>1, SeqMonotonic
<1> HIDE DEF anon
<1>3. /\ Append(handles, anon) \in Seq(Added)
      /\ Len(Append(handles, anon)) = Len(handles) + 1
      /\ \A i \in 1..Len(handles) : Append(handles, anon)[i] = handles[i]
      /\ Append(handles, anon)[Len(handles) + 1] = anon
  BY <1>1, <1>2, AppendProperties
<1>4. RemoveModule(Append(handles, anon)) = handles
  BY <1>1, <1>2, RemoveAdded
<1>5. DOMAIN handles = 1..Len(handles)
  OBVIOUS
<1>6. DOMAIN Append(handles, anon) = 1..(Len(handles) + 1)
  BY <1>3
<1> QED
  BY <1>3, <1>4, <1>5, <1>6 DEF anon

\* The sets of the session hold what they should, and between two handlers no
\* module of an expression is left in the JIT.
THEOREM TypeCorrect == Spec => []TypeOK
<1>1. Init => TypeOK
  BY DEF Init, TypeOK, NoFunctions
<1>2. TypeOK /\ [Next]_vars => TypeOK'
  <2> SUFFICES ASSUME TypeOK, [Next]_vars PROVE TypeOK'
    OBVIOUS
  <2>p. \A ps \in Params : ps \in Seq(Range(ps)) /\ Len(ps) \in Nat
    BY TextAssumption
  <2>1. CASE DefineFunction
    <3>1. PICK f \in Name, ps \in Params, body \in Body :
            LET protos == [FunctionProtos EXCEPT ![f] = ps]
                own == Found(protos, f)
            IN  /\ FunctionProtos' = protos
                /\ Reads(f, ps)
                /\ BinopPrecedence' = BinopPrecedence \cup ({f} \cap Op)
                /\ ModuleHandles' =
                     Append(ModuleHandles,
                            [def |-> f, params |-> own, calls |-> Calls(body)])
      BY <2>1 DEF DefineFunction
    <3> DEFINE own == Found([FunctionProtos EXCEPT ![f] = ps], f)
               m == [def |-> f, params |-> own, calls |-> Calls(body)]
    <3>2. own \in Params
      BY NamesAssumption DEF Found, TypeOK
    <3>3. m \in Compiled
      BY <3>2, CallTypes DEF Compiled
    <3>4. ModuleHandles \in Seq(Compiled)
      BY <2>1 DEF DefineFunction, TypeOK
    <3>5. /\ ModuleHandles' \in Seq(Compiled)
          /\ Len(ModuleHandles') = Len(ModuleHandles) + 1
      <4> HIDE DEF m
      <4>1. ModuleHandles' = Append(ModuleHandles, m)
        BY <3>1 DEF m
      <4> QED
        BY <3>3, <3>4, <4>1, AppendProperties
    <3>6. DOMAIN ModuleHandles \subseteq DOMAIN ModuleHandles'
      BY <3>4, <3>5
    <3>7. /\ FunctionProtos' \in [Name -> Params \cup {None}]
          /\ BinopPrecedence' \in SUBSET Op
          /\ arities' \in [Name -> SUBSET Nat]
      BY <2>p, <3>1 DEF TypeOK, Reads
    <3> QED
      BY <2>1, <3>5, <3>6, <3>7 DEF DefineFunction, TypeOK, NoFunctions
  <2>2. CASE FailDefinition
    <3>1. PICK f \in Name, ps \in Params, body \in Body :
            LET protos == [FunctionProtos EXCEPT ![f] = ps]
                scope == Range(Found(protos, f))
            IN  /\ FunctionProtos' = protos
                /\ Reads(f, ps)
                /\ BinopPrecedence' = BinopPrecedence \cup ({f} \cap Op)
                /\ TheModule' = [ModuleWith(protos, scope, body) EXCEPT ![f] = None]
                /\ pc' = IF Crashes(f) THEN "crashed" ELSE "ready"
      BY <2>2 DEF FailDefinition
    <3>2. /\ FunctionProtos' \in [Name -> Params \cup {None}]
          /\ BinopPrecedence' \in SUBSET Op
          /\ arities' \in [Name -> SUBSET Nat]
      BY <2>p, <3>1 DEF TypeOK, Reads
    <3>3. TheModule' \in [Name -> Params \cup {None}]
      BY <3>1, <3>2 DEF ModuleWith, Found, TypeOK
    <3> QED
      BY <2>2, <3>1, <3>2, <3>3 DEF FailDefinition, TypeOK
  <2>3. CASE HandleExtern
    BY <2>p, <2>3 DEF HandleExtern, Reads, TypeOK
  <2>4. CASE EvaluateExpression
    <3>1. PICK body \in Body :
            LET handles ==
                  Append(ModuleHandles, [def |-> None, params |-> <<>>, calls |-> Calls(body)])
                top == Len(handles)
            IN  \/ /\ pc' = "crashed"
                   /\ ModuleHandles' = handles
                   /\ UNCHANGED <<linked, ran>>
                \/ /\ linked' = Restrict(LinkedWith(handles, top),
                                         DOMAIN LinkedWith(handles, top) \ {top})
                   /\ ran' = {[callee |-> c.callee, args |-> c.args,
                               target |-> Resolve(handles, top, c.callee)] : c \in Calls(body)}
                   /\ ModuleHandles' = RemoveModule(handles)
                   /\ UNCHANGED pc
      BY <2>4 DEF EvaluateExpression
    <3> DEFINE anon == [def |-> None, params |-> <<>>, calls |-> Calls(body)]
               handles == Append(ModuleHandles, anon)
               top == Len(handles)
    <3>2. ModuleHandles \in Seq(Compiled)
      BY <2>4 DEF EvaluateExpression, TypeOK
    <3>3. /\ handles \in Seq(Added)
          /\ top = Len(ModuleHandles) + 1
          /\ DOMAIN handles = 1..top
          /\ handles[top] = anon
          /\ RemoveModule(handles) = ModuleHandles
      BY <3>2, AnonymousAdded
    <3>4. CASE pc' = "crashed" /\ ModuleHandles' = handles /\ UNCHANGED <<linked, ran>>
      <4>1. DOMAIN linked \subseteq DOMAIN ModuleHandles'
        <5>1. DOMAIN ModuleHandles \subseteq 1..top
          BY <3>2, <3>3
        <5> QED
          BY <3>3, <3>4, <5>1 DEF TypeOK
      <4> HIDE DEF handles
      <4> QED
        BY <2>4, <3>4, <4>1 DEF EvaluateExpression, TypeOK, NoFunctions
    <3>5. CASE /\ linked' = Restrict(LinkedWith(handles, top),
                                     DOMAIN LinkedWith(handles, top) \ {top})
               /\ ran' = {[callee |-> c.callee, args |-> c.args,
                           target |-> Resolve(handles, top, c.callee)] : c \in Calls(body)}
               /\ ModuleHandles' = RemoveModule(handles)
               /\ UNCHANGED pc
      <4>1. DOMAIN linked' \subseteq DOMAIN ModuleHandles
        <5>1. DOMAIN LinkedWith(handles, top) \subseteq 1..top
          <6>1. DOMAIN linked \subseteq 1..Len(ModuleHandles)
            BY <3>2 DEF TypeOK
          <6>2. 1..Len(ModuleHandles) \subseteq 1..top
            BY <3>2, <3>3
          <6>3. Finalized(handles, top) \subseteq DOMAIN handles
            BY DEF Finalized
          <6>4. DOMAIN LinkedWith(handles, top) = DOMAIN linked \cup Finalized(handles, top)
            BY DEF LinkedWith
          <6> HIDE DEF handles, top
          <6> QED
            BY <3>3, <6>1, <6>2, <6>3, <6>4
        <5>2. DOMAIN linked' = DOMAIN LinkedWith(handles, top) \ {top}
          BY <3>5 DEF Restrict
        <5>3. (1..top) \ {top} = 1..Len(ModuleHandles)
          <6> HIDE DEF top, handles
          <6> QED
            BY <3>2, <3>3
        <5> HIDE DEF handles, top
        <5> QED
          BY <3>2, <5>1, <5>2, <5>3
      <4>2. \A c \in Calls(body) : Resolve(handles, top, c.callee) \in Nat
        <5> HIDE DEF handles
        <5>1. Len(handles) \in Nat /\ DOMAIN handles = 1..Len(handles)
          BY <3>3
        <5> QED
          BY <5>1, NewestFound DEF Resolve
      <4>3. ran' \in SUBSET [callee : Name, args : Nat, target : Nat]
        <5> HIDE DEF handles, top
        <5> QED
          BY <3>5, <4>2, CallTypes
      <4>4. ModuleHandles' = ModuleHandles
        BY <3>3, <3>5
      <4> HIDE DEF handles, top
      <4> QED
        BY <2>4, <3>5, <4>1, <4>3, <4>4 DEF EvaluateExpression, TypeOK, NoFunctions
    <3> QED
      BY <3>1, <3>4, <3>5
  <2>5. CASE FailExpression
    <3>1. PICK body \in Body : TheModule' = ModuleWith(FunctionProtos, {}, body)
      BY <2>5 DEF FailExpression
    <3>2. TheModule' \in [Name -> Params \cup {None}]
      BY <3>1 DEF ModuleWith, Found, TypeOK
    <3> QED
      BY <2>5, <3>2 DEF FailExpression, TypeOK
  <2>6. CASE UNCHANGED vars
    BY <2>6 DEF vars, TypeOK
  <2> QED
    BY <2>1, <2>2, <2>3, <2>4, <2>5, <2>6 DEF Next, Stopped
<1> QED
  BY <1>1, <1>2, PTL DEF Spec

-----------------------------------------------------------------------------
(* What each handler does to the modules of the JIT.                       *)

\* The newest module with a function after one more module was added.
LEMMA NewestAfterAdding ==
  ASSUME NEW handles, NEW more, NEW f,
         Len(handles) \in Nat, DOMAIN handles = 1..Len(handles),
         Len(more) = Len(handles) + 1, DOMAIN more = 1..(Len(handles) + 1),
         \A i \in DOMAIN handles : more[i] = handles[i]
  PROVE  Newest(more, f) =
           IF more[Len(more)].def = f THEN Len(more) ELSE Newest(handles, f)
<1> DEFINE n == Len(handles)
           new == Newest(more, f)
           old == Newest(handles, f)
<1>1. /\ new \in Nat
      /\ \/ new = 0 /\ \A i \in 1..(n + 1) : more[i].def # f
         \/ /\ new \in 1..(n + 1) /\ more[new].def = f
            /\ \A i \in 1..(n + 1) : more[i].def = f => i <= new
  BY NewestFound
<1>2. /\ old \in Nat
      /\ \/ old = 0 /\ \A i \in 1..n : handles[i].def # f
         \/ /\ old \in 1..n /\ handles[old].def = f
            /\ \A i \in 1..n : handles[i].def = f => i <= old
  BY NewestFound
<1> HIDE DEF new, old
<1>3. CASE more[n + 1].def = f
  <2>1. new = n + 1
    BY <1>1, <1>3
  <2> QED
    BY <1>3, <2>1 DEF new
<1>4. CASE more[n + 1].def # f
  <2>1. \A i \in 1..n : more[i].def = handles[i].def
    OBVIOUS
  <2>2. \A i \in 1..(n + 1) : more[i].def = f => i \in 1..n
    BY <1>4
  <2>3. new = old
    BY <1>1, <1>2, <2>1, <2>2
  <2> QED
    BY <1>4, <2>3 DEF new, old
<1> QED
  BY <1>3, <1>4

\* A definition adds one module and changes nothing that was there.
LEMMA DefineAdds ==
  ASSUME TypeOK, DefineFunction
  PROVE  \E f \in Name, ps \in Params, body \in Body :
           LET own == Found([FunctionProtos EXCEPT ![f] = ps], f)
           IN  /\ Parses(f, ps)
               /\ own \in Params
               /\ FunctionProtos' = [FunctionProtos EXCEPT ![f] = ps]
               /\ arities' = [arities EXCEPT ![f] = @ \cup {Len(ps)}]
               /\ BinopPrecedence' = BinopPrecedence \cup ({f} \cap Op)
               /\ ModuleHandles \in Seq(Compiled)
               /\ Len(ModuleHandles') = Len(ModuleHandles) + 1
               /\ DOMAIN ModuleHandles' = 1..(Len(ModuleHandles) + 1)
               /\ \A i \in DOMAIN ModuleHandles : ModuleHandles'[i] = ModuleHandles[i]
               /\ ModuleHandles'[Len(ModuleHandles')] =
                    [def |-> f, params |-> own, calls |-> Calls(body)]
<1>1. PICK f \in Name, ps \in Params, body \in Body :
        LET protos == [FunctionProtos EXCEPT ![f] = ps]
            own == Found(protos, f)
        IN  /\ Parses(f, ps)
            /\ FunctionProtos' = protos
            /\ Reads(f, ps)
            /\ BinopPrecedence' = BinopPrecedence \cup ({f} \cap Op)
            /\ ModuleHandles' =
                 Append(ModuleHandles,
                        [def |-> f, params |-> own, calls |-> Calls(body)])
  BY DEF DefineFunction
<1> DEFINE own == Found([FunctionProtos EXCEPT ![f] = ps], f)
           m == [def |-> f, params |-> own, calls |-> Calls(body)]
<1>2. own \in Params
  BY NamesAssumption DEF Found, TypeOK
<1>3. m \in Compiled
  BY <1>2, CallTypes DEF Compiled
<1>4. ModuleHandles \in Seq(Compiled)
  BY DEF DefineFunction, TypeOK
<1>5. /\ ModuleHandles' \in Seq(Compiled)
      /\ Len(ModuleHandles') = Len(ModuleHandles) + 1
      /\ \A i \in 1..Len(ModuleHandles) : ModuleHandles'[i] = ModuleHandles[i]
      /\ ModuleHandles'[Len(ModuleHandles) + 1] = m
  <2> HIDE DEF m
  <2>1. ModuleHandles' = Append(ModuleHandles, m)
    BY <1>1 DEF m
  <2> QED
    BY <1>3, <1>4, <2>1, AppendProperties
<1>6. /\ DOMAIN ModuleHandles' = 1..(Len(ModuleHandles) + 1)
      /\ DOMAIN ModuleHandles = 1..Len(ModuleHandles)
  BY <1>4, <1>5
<1> HIDE DEF own
<1>7. /\ arities' = [arities EXCEPT ![f] = @ \cup {Len(ps)}]
      /\ ModuleHandles'[Len(ModuleHandles')] = m
  BY <1>1, <1>5 DEF Reads
<1> QED
  BY <1>1, <1>2, <1>4, <1>5, <1>6, <1>7 DEF own

\* An expression that is generated adds its module, which is linked, run and
\* removed, or ends the process.
LEMMA EvaluationCases ==
  ASSUME TypeOK, EvaluateExpression
  PROVE  \E body \in Body, more \in Seq(Added) :
           /\ ParsesBody(body)
           /\ Compiles(FunctionProtos, {}, body)
           /\ ModuleHandles \in Seq(Compiled)
           /\ Len(more) = Len(ModuleHandles) + 1
           /\ DOMAIN more = 1..(Len(ModuleHandles) + 1)
           /\ \A i \in DOMAIN ModuleHandles : more[i] = ModuleHandles[i]
           /\ more[Len(more)] = [def |-> None, params |-> <<>>, calls |-> Calls(body)]
           /\ \/ /\ pc' = "crashed"
                 /\ ModuleHandles' = more
                 /\ UNCHANGED <<linked, ran>>
              \/ /\ ~Unresolved(more, Len(more))
                 /\ linked' = Restrict(LinkedWith(more, Len(more)),
                                       DOMAIN LinkedWith(more, Len(more)) \ {Len(more)})
                 /\ ran' = {[callee |-> c.callee, args |-> c.args,
                             target |-> Resolve(more, Len(more), c.callee)] : c \in Calls(body)}
                 /\ UNCHANGED <<ModuleHandles, pc>>
<1>1. PICK body \in Body :
        LET handles ==
              Append(ModuleHandles, [def |-> None, params |-> <<>>, calls |-> Calls(body)])
            top == Len(handles)
        IN  /\ ParsesBody(body)
            /\ Compiles(FunctionProtos, {}, body)
            /\ \/ /\ pc' = "crashed"
                  /\ ModuleHandles' = handles
                  /\ UNCHANGED <<linked, ran>>
               \/ /\ ~Unresolved(handles, top)
                  /\ linked' = Restrict(LinkedWith(handles, top),
                                        DOMAIN LinkedWith(handles, top) \ {top})
                  /\ ran' = {[callee |-> c.callee, args |-> c.args,
                              target |-> Resolve(handles, top, c.callee)] : c \in Calls(body)}
                  /\ ModuleHandles' = RemoveModule(handles)
                  /\ UNCHANGED pc
  BY DEF EvaluateExpression
<1> DEFINE anon == [def |-> None, params |-> <<>>, calls |-> Calls(body)]
           more == Append(ModuleHandles, anon)
<1>2. ModuleHandles \in Seq(Compiled)
  BY DEF EvaluateExpression, TypeOK
<1>3. /\ more \in Seq(Added)
      /\ Len(more) = Len(ModuleHandles) + 1
      /\ DOMAIN more = 1..(Len(ModuleHandles) + 1)
      /\ \A i \in DOMAIN ModuleHandles : more[i] = ModuleHandles[i]
      /\ more[Len(ModuleHandles) + 1] = anon
      /\ RemoveModule(more) = ModuleHandles
  BY <1>2, AnonymousAdded
<1>4. more[Len(more)] = anon
  BY <1>3
<1>5. \/ /\ pc' = "crashed"
         /\ ModuleHandles' = more
         /\ UNCHANGED <<linked, ran>>
      \/ /\ ~Unresolved(more, Len(more))
         /\ linked' = Restrict(LinkedWith(more, Len(more)),
                               DOMAIN LinkedWith(more, Len(more)) \ {Len(more)})
         /\ ran' = {[callee |-> c.callee, args |-> c.args,
                     target |-> Resolve(more, Len(more), c.callee)] : c \in Calls(body)}
         /\ ModuleHandles' = RemoveModule(more)
         /\ UNCHANGED pc
  BY <1>1
<1> HIDE DEF more
<1> QED
  BY <1>1, <1>2, <1>3, <1>4, <1>5

-----------------------------------------------------------------------------
(* Operators.                                                              *)

\* The installed operators have prototypes of two parameters and definitions:
\* the failure of a definition cannot leave one behind, because it ends the
\* session.
LEMMA OperatorsStep ==
  ASSUME TypeOK, OperatorsResolve, [Next]_vars
  PROVE  OperatorsResolve'
<1>p. \A g \in Name, ps \in Params :
        Parses(g, ps) /\ g \in Op => ps # None /\ Len(ps) = 2
  BY NamesAssumption DEF Parses
<1>1. CASE DefineFunction
  <2>1. pc = "ready" /\ pc' = "ready"
    BY <1>1 DEF DefineFunction
  <2>2. PICK f \in Name, ps \in Params, body \in Body :
          /\ Parses(f, ps)
          /\ FunctionProtos' = [FunctionProtos EXCEPT ![f] = ps]
          /\ BinopPrecedence' = BinopPrecedence \cup ({f} \cap Op)
          /\ ModuleHandles \in Seq(Compiled)
          /\ Len(ModuleHandles') = Len(ModuleHandles) + 1
          /\ DOMAIN ModuleHandles' = 1..(Len(ModuleHandles) + 1)
          /\ \A i \in DOMAIN ModuleHandles : ModuleHandles'[i] = ModuleHandles[i]
          /\ ModuleHandles'[Len(ModuleHandles')] =
               [def |-> f, params |-> Found([FunctionProtos EXCEPT ![f] = ps], f),
                calls |-> Calls(body)]
    BY <1>1, DefineAdds
  <2>3. Len(ModuleHandles) \in Nat /\ DOMAIN ModuleHandles = 1..Len(ModuleHandles)
    BY <2>2
  <2>4. \A g : Newest(ModuleHandles', g) =
                 IF f = g THEN Len(ModuleHandles) + 1 ELSE Newest(ModuleHandles, g)
    <3>1. ModuleHandles'[Len(ModuleHandles')].def = f
      BY <2>2
    <3> QED
      BY <2>2, <2>3, <3>1, NewestAfterAdding
  <2>5. ASSUME NEW g \in BinopPrecedence'
        PROVE  /\ FunctionProtos'[g] # None /\ Len(FunctionProtos'[g]) = 2
               /\ Newest(ModuleHandles', g) # 0
    <3>1. g \in Name
      BY <2>2, NamesAssumption DEF TypeOK
    <3>2. CASE g = f
      <4>1. g \in Op
        BY <2>2, <3>2 DEF TypeOK
      <4>2. FunctionProtos'[g] = ps
        BY <2>2, <3>2 DEF TypeOK
      <4>3. Newest(ModuleHandles', g) = Len(ModuleHandles) + 1
        BY <2>4, <3>2
      <4> QED
        BY <1>p, <2>2, <2>3, <3>2, <4>1, <4>2, <4>3
    <3>3. CASE g # f
      <4>1. g \in BinopPrecedence /\ FunctionProtos'[g] = FunctionProtos[g]
        BY <2>2, <3>1, <3>3 DEF TypeOK
      <4>2. Newest(ModuleHandles', g) = Newest(ModuleHandles, g)
        BY <2>4, <3>3
      <4> QED
        BY <2>1, <4>1, <4>2 DEF OperatorsResolve
    <3> QED
      BY <3>2, <3>3
  <2> QED
    BY <2>5 DEF OperatorsResolve
<1>2. CASE FailDefinition
  <2>1. PICK f \in Name, ps \in Params :
          /\ FunctionProtos' = [FunctionProtos EXCEPT ![f] = ps]
          /\ BinopPrecedence' = BinopPrecedence \cup ({f} \cap Op)
          /\ pc' = IF Crashes(f) THEN "crashed" ELSE "ready"
    BY <1>2 DEF FailDefinition
  <2>2. pc = "ready" /\ ModuleHandles' = ModuleHandles
    BY <1>2 DEF FailDefinition
  <2>3. CASE f \in Op
    BY <2>1, <2>3 DEF Crashes, OperatorsResolve
  <2>4. CASE f \notin Op
    <3>1. BinopPrecedence' = BinopPrecedence /\ f \notin BinopPrecedence
      BY <2>1, <2>4 DEF TypeOK
    <3>2. \A g \in BinopPrecedence : FunctionProtos'[g] = FunctionProtos[g]
      BY <2>1, <3>1, NamesAssumption DEF TypeOK
    <3> QED
      BY <2>2, <3>1, <3>2 DEF OperatorsResolve
  <2> QED
    BY <2>3, <2>4
<1>3. CASE HandleExtern
  <2>1. PICK f \in Name, ps \in Params :
          Parses(f, ps) /\ FunctionProtos' = [FunctionProtos EXCEPT ![f] = ps]
    BY <1>3 DEF HandleExtern
  <2>2. pc = "ready" /\ UNCHANGED <<BinopPrecedence, ModuleHandles>>
    BY <1>3 DEF HandleExtern
  <2>3. \A g \in BinopPrecedence : g \in Op /\ g \in Name
    BY NamesAssumption DEF TypeOK
  <2>4. \A g \in BinopPrecedence :
          FunctionProtos'[g] = IF g = f THEN ps ELSE FunctionProtos[g]
    BY <2>1, <2>3 DEF TypeOK
  <2> QED
    BY <1>p, <2>1, <2>2, <2>3, <2>4 DEF OperatorsResolve
<1>4. CASE EvaluateExpression
  <2>1. pc = "ready" /\ UNCHANGED <<BinopPrecedence, FunctionProtos>>
    BY <1>4 DEF EvaluateExpression
  <2>2. pc' = "crashed" \/ UNCHANGED ModuleHandles
    BY <1>4, EvaluationCases
  <2> QED
    BY <2>1, <2>2 DEF OperatorsResolve
<1>5. CASE FailExpression
  BY <1>5 DEF FailExpression, OperatorsResolve
<1>6. CASE UNCHANGED vars
  BY <1>6 DEF vars, OperatorsResolve
<1> QED
  BY <1>1, <1>2, <1>3, <1>4, <1>5, <1>6 DEF Next, Stopped

\* An operator the parser accepts has a prototype of two parameters and a
\* definition in the JIT, in every session.
THEOREM OperatorsAlwaysResolve == Spec => []OperatorsResolve
<1>1. Init => OperatorsResolve
  BY DEF Init, OperatorsResolve
<1> QED
  BY <1>1, TypeCorrect, OperatorsStep, PTL DEF Spec

-----------------------------------------------------------------------------
(* Linked code.                                                            *)

\* What a linked function calls never changes.
THEOREM LinkedCodeFrozen == Spec => LinksFrozen
<1> DEFINE Frozen ==
      \A i \in DOMAIN linked :
        /\ i \in DOMAIN linked' /\ linked'[i] = linked[i]
        /\ ModuleHandles'[i] = ModuleHandles[i]
<1>1. ASSUME TypeOK, [Next]_vars PROVE Frozen
  <2>0. DOMAIN linked \subseteq DOMAIN ModuleHandles
    BY <1>1 DEF TypeOK
  <2>1. CASE DefineFunction
    <3>1. \A i \in DOMAIN ModuleHandles : ModuleHandles'[i] = ModuleHandles[i]
      BY <1>1, <2>1, DefineAdds
    <3>2. linked' = linked
      BY <2>1 DEF DefineFunction
    <3> QED
      BY <2>0, <3>1, <3>2
  <2>2. CASE EvaluateExpression
    <3>1. PICK body \in Body, more \in Seq(Added) :
            /\ ModuleHandles \in Seq(Compiled)
            /\ Len(more) = Len(ModuleHandles) + 1
            /\ \A i \in DOMAIN ModuleHandles : more[i] = ModuleHandles[i]
            /\ \/ ModuleHandles' = more /\ UNCHANGED linked
               \/ /\ linked' = Restrict(LinkedWith(more, Len(more)),
                                        DOMAIN LinkedWith(more, Len(more)) \ {Len(more)})
                  /\ UNCHANGED ModuleHandles
      BY <1>1, <2>2, EvaluationCases
    <3>2. CASE ModuleHandles' = more /\ UNCHANGED linked
      BY <2>0, <3>1, <3>2
    <3>3. CASE /\ linked' = Restrict(LinkedWith(more, Len(more)),
                                     DOMAIN LinkedWith(more, Len(more)) \ {Len(more)})
               /\ UNCHANGED ModuleHandles
      <4>1. Len(more) \notin DOMAIN linked
        BY <2>0, <3>1
      <4>2. \A i \in DOMAIN linked :
              /\ i \in DOMAIN LinkedWith(more, Len(more))
              /\ LinkedWith(more, Len(more))[i] = linked[i]
        BY DEF LinkedWith
      <4>3. \A i \in DOMAIN linked : i \in DOMAIN linked' /\ linked'[i] = linked[i]
        BY <3>3, <4>1, <4>2 DEF Restrict
      <4> QED
        BY <3>3, <4>3
    <3> QED
      BY <3>1, <3>2, <3>3
  <2>3. CASE FailDefinition \/ HandleExtern \/ FailExpression \/ UNCHANGED vars
    BY <2>3 DEF FailDefinition, HandleExtern, FailExpression, vars
  <2> QED
    BY <1>1, <2>1, <2>2, <2>3 DEF Next, Stopped
<1>2. TypeOK /\ [Next]_vars => [Frozen]_vars
  BY <1>1
<1> QED
  BY <1>2, TypeCorrect, PTL DEF Spec, LinksFrozen

\* The modules that are linked are closed under the calls between them.
LEMMA FinalizedClosed ==
  ASSUME NEW handles, NEW top, NEW i \in Finalized(handles, top) \ DOMAIN linked,
         NEW f \in Callees(handles[i]),
         Resolve(handles, i, f) # 0, Resolve(handles, i, f) \in DOMAIN handles
  PROVE  Resolve(handles, i, f) \in Finalized(handles, top)
BY DEF Finalized

\* A step keeps the linked code closed: an expression is run only if every name
\* it needs was resolved, and its own module, which is taken away again, defines
\* no name that another module could call.
LEMMA LinksStep ==
  ASSUME TypeOK, LinksLead, [Next]_vars
  PROVE  LinksLead'
<1>0. DOMAIN linked \subseteq DOMAIN ModuleHandles
  BY DEF TypeOK
<1>1. CASE DefineFunction
  <2>1. pc = "ready" /\ linked' = linked
    BY <1>1 DEF DefineFunction
  <2>2. \A i \in DOMAIN ModuleHandles : ModuleHandles'[i] = ModuleHandles[i]
    BY <1>1, DefineAdds
  <2> QED
    BY <1>0, <2>1, <2>2 DEF LinksLead
<1>2. CASE EvaluateExpression
  <2>1. PICK body \in Body, more \in Seq(Added) :
          /\ ModuleHandles \in Seq(Compiled)
          /\ Len(more) = Len(ModuleHandles) + 1
          /\ DOMAIN more = 1..(Len(ModuleHandles) + 1)
          /\ \A i \in DOMAIN ModuleHandles : more[i] = ModuleHandles[i]
          /\ more[Len(more)] = [def |-> None, params |-> <<>>, calls |-> Calls(body)]
          /\ \/ pc' = "crashed"
             \/ /\ ~Unresolved(more, Len(more))
                /\ linked' = Restrict(LinkedWith(more, Len(more)),
                                      DOMAIN LinkedWith(more, Len(more)) \ {Len(more)})
                /\ UNCHANGED <<ModuleHandles, pc>>
    BY <1>2, EvaluationCases
  <2>2. CASE pc' = "crashed"
    BY <2>2 DEF LinksLead
  <2>3. CASE /\ ~Unresolved(more, Len(more))
             /\ linked' = Restrict(LinkedWith(more, Len(more)),
                                   DOMAIN LinkedWith(more, Len(more)) \ {Len(more)})
             /\ UNCHANGED <<ModuleHandles, pc>>
    <3> DEFINE top == Len(more)
               new == Finalized(more, top)
    <3>1. /\ Len(ModuleHandles) \in Nat /\ DOMAIN ModuleHandles = 1..Len(ModuleHandles)
          /\ Len(more) \in Nat /\ DOMAIN more = 1..Len(more)
          /\ Len(more) \notin DOMAIN ModuleHandles
      BY <2>1
    <3>2. /\ new \subseteq DOMAIN more
          /\ DOMAIN linked' = (DOMAIN linked \cup new) \ {top}
          /\ \A i \in DOMAIN linked' :
               linked'[i] = IF i \in DOMAIN linked THEN linked[i] ELSE Links(more, i)
      BY <2>3 DEF Restrict, LinkedWith, Finalized
    <3>3. DOMAIN linked \subseteq DOMAIN linked'
      BY <1>0, <3>1, <3>2
    <3>4. SUFFICES \A i \in DOMAIN linked' : \A f \in Callees(ModuleHandles[i]) :
                     \/ linked'[i][f] = 0 /\ f \in Host
                     \/ /\ linked'[i][f] \in DOMAIN linked'
                        /\ ModuleHandles[linked'[i][f]].def = f
      <4>1. ModuleHandles' = ModuleHandles
        BY <2>3
      <4> QED
        BY <4>1 DEF LinksLead
    <3> TAKE i \in DOMAIN linked'
    <3> TAKE f \in Callees(ModuleHandles[i])
    <3>5. CASE i \in DOMAIN linked
      <4>1. pc # "crashed"
        BY <1>2 DEF EvaluateExpression
      <4> QED
        BY <3>2, <3>3, <3>5, <4>1 DEF LinksLead
    <3>6. CASE i \notin DOMAIN linked
      <4> DEFINE r == Resolve(more, i, f)
      <4>1. i \in new /\ i \in DOMAIN ModuleHandles
        <5> HIDE DEF new
        <5> QED
          BY <2>1, <3>1, <3>2, <3>6
      <4>2. f \in Callees(more[i]) /\ f \in Name
        <5>1. more[i] = ModuleHandles[i]
          BY <2>1, <4>1
        <5>2. ModuleHandles[i] \in Compiled
          BY <2>1, <4>1
        <5> QED
          BY <5>1, <5>2 DEF Callees, Compiled
      <4>3. linked'[i][f] = r
        BY <3>2, <3>6, <4>2 DEF Links
      <4>4. \/ r = 0
            \/ r \in DOMAIN more /\ more[r].def = f
        <5>1. i \in DOMAIN more
          BY <3>2, <4>1
        <5>2. \/ Newest(more, f) = 0
              \/ Newest(more, f) \in DOMAIN more /\ more[Newest(more, f)].def = f
          BY <3>1, NewestFound
        <5>3. (r = i /\ more[i].def = f) \/ r = Newest(more, f)
          BY DEF Resolve
        <5> HIDE DEF r
        <5> QED
          BY <5>1, <5>2, <5>3
      <4>5. r = 0 => f \in Host
        BY <2>3, <3>6, <4>1, <4>2 DEF Unresolved
      <4>6. CASE r # 0
        <5>1. r \in new
          <6>1. r \in DOMAIN more /\ i \in new \ DOMAIN linked
            BY <3>6, <4>1, <4>4, <4>6
          <6> QED
            BY <4>2, <4>6, <6>1, FinalizedClosed
        <5>2. more[top].def = None
          BY <2>1
        <5>3. r # top
          <6> HIDE DEF r, top
          <6> QED
            BY <4>2, <4>4, <4>6, <5>2, NamesAssumption
        <5>4. r \in DOMAIN linked'
          <6> HIDE DEF r, top, new
          <6> QED
            BY <3>2, <5>1, <5>3
        <5>5. r \in DOMAIN ModuleHandles /\ ModuleHandles[r].def = f
          <6> HIDE DEF r
          <6> QED
            BY <2>1, <3>1, <4>4, <4>6, <5>3
        <5> HIDE DEF r
        <5> QED
          BY <4>3, <5>4, <5>5
      <4> HIDE DEF r
      <4> QED
        BY <4>3, <4>5, <4>6
    <3> QED
      BY <3>5, <3>6
  <2> QED
    BY <2>1, <2>2, <2>3
<1>3. CASE FailDefinition \/ HandleExtern \/ FailExpression
  <2>1. pc = "ready" /\ UNCHANGED <<ModuleHandles, linked>>
    BY <1>3 DEF FailDefinition, HandleExtern, FailExpression
  <2> QED
    BY <2>1 DEF LinksLead
<1>4. CASE UNCHANGED vars
  BY <1>4 DEF vars, LinksLead
<1> QED
  BY <1>1, <1>2, <1>3, <1>4 DEF Next, Stopped

\* Every call of a linked module leads to a linked module with the function it
\* names, or to the host.
THEOREM LinkedCodeClosed == Spec => []LinksLead
<1>1. Init => LinksLead
  BY DEF Init, LinksLead
<1> QED
  BY <1>1, TypeCorrect, LinksStep, PTL DEF Spec

-----------------------------------------------------------------------------
(* The session keeps its promise about definitions.                        *)

\* The number of the last definition accepted is the newest module with it.
LEMMA LastIsNewest ==
  ASSUME NEW handles, Len(handles) \in Nat, DOMAIN handles = 1..Len(handles), NEW f
  PROVE  LET accepted == {0} \cup {i \in DOMAIN handles : handles[i].def = f}
         IN  (CHOOSE d \in accepted : \A e \in accepted : e <= d) = Newest(handles, f)
<1> DEFINE accepted == {0} \cup {i \in DOMAIN handles : handles[i].def = f}
           last == CHOOSE d \in accepted : \A e \in accepted : e <= d
           n == Newest(handles, f)
<1>1. n \in accepted /\ \A e \in accepted : e <= n
  <2>1. /\ n \in Nat
        /\ \/ n = 0 /\ \A i \in DOMAIN handles : handles[i].def # f
           \/ /\ n \in DOMAIN handles /\ handles[n].def = f
              /\ \A i \in DOMAIN handles : handles[i].def = f => i <= n
    BY NewestFound
  <2> HIDE DEF n
  <2> QED
    BY <2>1
<1>2. accepted \subseteq Nat
  OBVIOUS
<1> HIDE DEF accepted, n
<1>3. last \in accepted /\ \A e \in accepted : e <= last
  BY <1>1
<1> HIDE DEF last
<1>4. last = n
  BY <1>1, <1>2, <1>3
<1> QED
  BY <1>4 DEF last, n, accepted

\* A definition that is accepted is newer than all the others.
LEMMA DefineStep ==
  ASSUME TypeOK, DefineFunction
  PROVE  Promise!Define
<1>1. PICK f \in Name, ps \in Params, body \in Body :
        /\ ModuleHandles \in Seq(Compiled)
        /\ Len(ModuleHandles') = Len(ModuleHandles) + 1
        /\ DOMAIN ModuleHandles' = 1..(Len(ModuleHandles) + 1)
        /\ \A i \in DOMAIN ModuleHandles : ModuleHandles'[i] = ModuleHandles[i]
        /\ ModuleHandles'[Len(ModuleHandles')] =
             [def |-> f, params |-> Found([FunctionProtos EXCEPT ![f] = ps], f),
              calls |-> Calls(body)]
  BY DefineAdds
<1>2. Len(ModuleHandles) \in Nat /\ DOMAIN ModuleHandles = 1..Len(ModuleHandles)
  BY <1>1
<1>3. ModuleHandles'[Len(ModuleHandles')].def = f
  BY <1>1
<1>4. \A g : /\ LastAccepted(g) \in 0..Len(ModuleHandles)
             /\ LastAccepted(g)' = IF g = f THEN Len(ModuleHandles) + 1 ELSE LastAccepted(g)
  <2> TAKE g
  <2>1. LastAccepted(g) = Newest(ModuleHandles, g)
    BY <1>2, LastIsNewest DEF LastAccepted
  <2>2. LastAccepted(g)' = Newest(ModuleHandles', g)
    <3>1. Len(ModuleHandles') \in Nat /\ DOMAIN ModuleHandles' = 1..Len(ModuleHandles')
      BY <1>1, <1>2
    <3> QED
      BY <3>1, LastIsNewest DEF LastAccepted
  <2>3. Newest(ModuleHandles, g) \in 0..Len(ModuleHandles)
    BY <1>2, NewestFound
  <2>4. Newest(ModuleHandles', g) =
          IF ModuleHandles'[Len(ModuleHandles')].def = g
          THEN Len(ModuleHandles') ELSE Newest(ModuleHandles, g)
    BY <1>1, <1>2, NewestAfterAdding
  <2> QED
    BY <1>1, <1>3, <2>1, <2>2, <2>3, <2>4
<1>5. ran' = ran
  BY DEF DefineFunction
<1> DEFINE old == [g \in Name |-> LastAccepted(g)]
           new == [g \in Name |-> LastAccepted(g)']
<1>6. new = [old EXCEPT ![f] = new[f]]
  BY <1>4
<1>7. \A g \in Name : old[g] < new[f]
  BY <1>2, <1>4
<1> HIDE DEF old, new
<1> QED
  BY <1>5, <1>6, <1>7 DEF Promise!Define, old, new

\* An expression calls the newest definitions, and an expression that ends the
\* session changes nothing of the promise.
LEMMA EvaluateStep ==
  ASSUME TypeOK, EvaluateExpression
  PROVE  Promise!Evaluate \/ UNCHANGED Promise!vars
<1>1. PICK body \in Body, more \in Seq(Added) :
        /\ ModuleHandles \in Seq(Compiled)
        /\ Len(more) = Len(ModuleHandles) + 1
        /\ DOMAIN more = 1..(Len(ModuleHandles) + 1)
        /\ \A i \in DOMAIN ModuleHandles : more[i] = ModuleHandles[i]
        /\ more[Len(more)] = [def |-> None, params |-> <<>>, calls |-> Calls(body)]
        /\ \/ /\ ModuleHandles' = more
              /\ UNCHANGED ran
           \/ /\ ran' = {[callee |-> c.callee, args |-> c.args,
                          target |-> Resolve(more, Len(more), c.callee)] : c \in Calls(body)}
              /\ UNCHANGED ModuleHandles
  BY EvaluationCases
<1>2. Len(ModuleHandles) \in Nat /\ DOMAIN ModuleHandles = 1..Len(ModuleHandles)
  BY <1>1
<1>3. Len(more) \in Nat /\ DOMAIN more = 1..Len(more) /\ more[Len(more)].def = None
  BY <1>1
<1>4. \A g \in Name : /\ LastAccepted(g) = Newest(ModuleHandles, g)
                      /\ Newest(more, g) = Newest(ModuleHandles, g)
                      /\ Resolve(more, Len(more), g) = LastAccepted(g)
  <2> TAKE g \in Name
  <2>1. LastAccepted(g) = Newest(ModuleHandles, g)
    BY <1>2, LastIsNewest DEF LastAccepted
  <2>2. Newest(more, g) = Newest(ModuleHandles, g)
    BY <1>1, <1>2, <1>3, NewestAfterAdding, NamesAssumption
  <2>3. Resolve(more, Len(more), g) = Newest(more, g)
    BY <1>3, NamesAssumption DEF Resolve
  <2> QED
    BY <2>1, <2>2, <2>3
<1>5. CASE ModuleHandles' = more /\ UNCHANGED ran
  <2>1. \A g \in Name : LastAccepted(g)' = LastAccepted(g)
    <3> TAKE g \in Name
    <3>1. LastAccepted(g)' = Newest(ModuleHandles', g)
      <4>1. Len(ModuleHandles') \in Nat /\ DOMAIN ModuleHandles' = 1..Len(ModuleHandles')
        BY <1>3, <1>5
      <4> QED
        BY <4>1, LastIsNewest DEF LastAccepted
    <3> QED
      BY <1>4, <1>5, <3>1
  <2> QED
    BY <1>5, <2>1 DEF Promise!vars
<1>6. CASE /\ ran' = {[callee |-> c.callee, args |-> c.args,
                       target |-> Resolve(more, Len(more), c.callee)] : c \in Calls(body)}
           /\ UNCHANGED ModuleHandles
  <2> DEFINE called == {c.callee : c \in Calls(body)}
  <2>1. called \in SUBSET Name
    BY CallTypes
  <2>2. {<<c.callee, c.target>> : c \in ran'} = {<<g, LastAccepted(g)>> : g \in called}
    <3>1. {<<c.callee, c.target>> : c \in ran'} =
            {<<c.callee, Resolve(more, Len(more), c.callee)>> : c \in Calls(body)}
      <4> DEFINE made(c) == [callee |-> c.callee, args |-> c.args,
                             target |-> Resolve(more, Len(more), c.callee)]
      <4>1. \A c : /\ made(c).callee = c.callee
                   /\ made(c).target = Resolve(more, Len(more), c.callee)
        OBVIOUS
      <4>2. ran' = {made(c) : c \in Calls(body)}
        BY <1>6
      <4> HIDE DEF made
      <4>3. {<<d.callee, d.target>> : d \in {made(c) : c \in Calls(body)}} =
              {<<made(c).callee, made(c).target>> : c \in Calls(body)}
        OBVIOUS
      <4>4. \A c : <<made(c).callee, made(c).target>>
                     = <<c.callee, Resolve(more, Len(more), c.callee)>>
        BY <4>1
      <4>5. {<<made(c).callee, made(c).target>> : c \in Calls(body)} =
              {<<c.callee, Resolve(more, Len(more), c.callee)>> : c \in Calls(body)}
        BY <4>4
      <4>6. {<<d.callee, d.target>> : d \in ran'} =
              {<<d.callee, d.target>> : d \in {made(c) : c \in Calls(body)}}
        BY <4>2
      <4> QED
        BY <4>3, <4>5, <4>6
    <3>2. \A c \in Calls(body) :
            <<c.callee, Resolve(more, Len(more), c.callee)>> =
              <<c.callee, LastAccepted(c.callee)>>
      BY <1>4, CallTypes
    <3> QED
      BY <3>1, <3>2
  <2>3. {<<g, LastAccepted(g)>> : g \in called} =
          {<<g, [h \in Name |-> LastAccepted(h)][g]>> : g \in called}
    BY <2>1
  <2>4. \A g \in Name : LastAccepted(g)' = LastAccepted(g)
    BY <1>6 DEF LastAccepted
  <2> HIDE DEF called
  <2> QED
    BY <2>1, <2>2, <2>3, <2>4 DEF Promise!Evaluate
<1> QED
  BY <1>1, <1>5, <1>6

\* The session implements the promise that the newest definition wins.
THEOREM Implements == Spec => NewestDefinitionWins
<1>1. Init => Promise!Init
  <2> SUFFICES ASSUME Init PROVE Promise!Init
    OBVIOUS
  <2>1. \A g \in Name : LastAccepted(g) = 0
    <3>1. ModuleHandles = <<>> /\ DOMAIN ModuleHandles = {}
      BY DEF Init
    <3> QED
      BY <3>1 DEF LastAccepted
  <2> QED
    BY <2>1 DEF Init, Promise!Init
<1>2. TypeOK /\ [Next]_vars => [Promise!Next]_(Promise!vars)
  <2> SUFFICES ASSUME TypeOK, [Next]_vars PROVE [Promise!Next]_(Promise!vars)
    OBVIOUS
  <2>1. CASE DefineFunction
    BY <2>1, DefineStep DEF Promise!Next
  <2>2. CASE EvaluateExpression
    BY <2>2, EvaluateStep DEF Promise!Next
  <2>3. CASE FailDefinition \/ HandleExtern \/ FailExpression \/ UNCHANGED vars
    <3>1. UNCHANGED <<ModuleHandles, ran>>
      BY <2>3 DEF FailDefinition, HandleExtern, FailExpression, vars
    <3> QED
      BY <3>1 DEF Promise!vars, LastAccepted
  <2> QED
    BY <2>1, <2>2, <2>3 DEF Next, Stopped
<1> QED
  BY <1>1, <1>2, TypeCorrect, PTL DEF Spec, NewestDefinitionWins, Promise!Spec

-----------------------------------------------------------------------------
(* Numbers of parameters.                                                  *)

\* Every prototype the session keeps has a number of parameters that was read
\* for its name, and so have the functions of the JIT and the calls made.
ProtosKnown ==
  \A f \in Name :
    /\ TheModule[f] # None => Len(TheModule[f]) \in arities[f]
    /\ FunctionProtos[f] # None => Len(FunctionProtos[f]) \in arities[f]

ModulesKnown ==
  pc # "crashed" =>
    \A i \in DOMAIN ModuleHandles :
      Len(ModuleHandles[i].params) \in arities[ModuleHandles[i].def]

CallsKnown ==
  \A c \in ran :
    /\ c.args \in arities[c.callee]
    /\ c.target # 0 =>
         /\ c.target \in DOMAIN ModuleHandles
         /\ Len(ModuleHandles[c.target].params) \in arities[c.callee]

\* The modules of a session are functions of the program.
LEMMA HandlesNamed ==
  ASSUME NEW handles \in Seq(Compiled)
  PROVE  /\ Len(handles) \in Nat /\ DOMAIN handles = 1..Len(handles)
         /\ \A i \in DOMAIN handles : handles[i].def \in Name
<1>1. \A i \in DOMAIN handles : handles[i] \in Compiled
  OBVIOUS
<1>2. \A m \in Compiled : m.def \in Name
  BY DEF Compiled
<1>3. Len(handles) \in Nat /\ DOMAIN handles = 1..Len(handles)
  OBVIOUS
<1> QED
  BY <1>1, <1>2, <1>3

\* The declaration that getFunction finds has a number of parameters that was read.
LEMMA FoundKnown ==
  ASSUME TypeOK, ProtosKnown,
         NEW f \in Name, NEW ps \in Params,
         FunctionProtos' = [FunctionProtos EXCEPT ![f] = ps],
         arities' = [arities EXCEPT ![f] = @ \cup {Len(ps)}]
  PROVE  /\ \A g \in Name : arities[g] \subseteq arities'[g]
         /\ \A g \in Name :
              LET own == Found([FunctionProtos EXCEPT ![f] = ps], g)
              IN  own # None => Len(own) \in arities'[g]
         /\ \A g \in Name :
              FunctionProtos'[g] # None => Len(FunctionProtos'[g]) \in arities'[g]
<1>1. /\ \A g \in Name : arities[g] \subseteq arities'[g]
      /\ Len(ps) \in arities'[f]
  BY DEF TypeOK
<1>2. \A g \in Name : [FunctionProtos EXCEPT ![f] = ps][g] =
                        IF g = f THEN ps ELSE FunctionProtos[g]
  BY DEF TypeOK
<1>3. \A g \in Name :
        FunctionProtos'[g] # None => Len(FunctionProtos'[g]) \in arities'[g]
  BY <1>1, <1>2 DEF ProtosKnown
<1>4. \A g \in Name :
        LET own == Found([FunctionProtos EXCEPT ![f] = ps], g)
        IN  own # None => Len(own) \in arities'[g]
  BY <1>1, <1>3 DEF Found, ProtosKnown
<1> QED
  BY <1>1, <1>3, <1>4

\* The calls of an expression that is generated have numbers of arguments that
\* were read for the functions they name.
LEMMA CallsChecked ==
  ASSUME TypeOK, ProtosKnown, OperatorsResolve, pc # "crashed",
         NEW body \in Body, ParsesBody(body), Compiles(FunctionProtos, {}, body)
  PROVE  \A c \in Calls(body) : c.args \in arities[c.callee]
<1>1. ASSUME NEW o \in body.operands, NEW j \in DOMAIN o, o[j].kind = "call"
      PROVE  o[j].args \in arities[o[j].name]
  <2>1. o[j].name \in Name
    BY <1>1, TextAssumption
  <2>2. Generates(FunctionProtos, {}, o[j])
    BY <1>1 DEF Compiles
  <2>3. /\ Found(FunctionProtos, o[j].name) # None
        /\ Len(Found(FunctionProtos, o[j].name)) = o[j].args
    BY <1>1, <2>2 DEF Generates
  <2> QED
    BY <2>1, <2>3 DEF Found, ProtosKnown
<1>2. ASSUME NEW f \in {body.op} \ {Builtin}
      PROVE  2 \in arities[f]
  <2>1. f \in BinopPrecedence
    BY DEF ParsesBody
  <2>2. f \in Name
    BY <2>1, NamesAssumption DEF TypeOK
  <2>3. FunctionProtos[f] # None /\ Len(FunctionProtos[f]) = 2
    BY <2>1 DEF OperatorsResolve
  <2> QED
    BY <2>2, <2>3 DEF ProtosKnown
<1> QED
  BY <1>1, <1>2 DEF Calls

\* A step keeps the numbers of parameters known: a prototype moves from the input
\* to FunctionProtos, to the open module and to the JIT, and no other one appears.
LEMMA KnownStep ==
  ASSUME TypeOK, OperatorsResolve, ProtosKnown, ModulesKnown, CallsKnown, [Next]_vars
  PROVE  ProtosKnown' /\ ModulesKnown' /\ CallsKnown'
<1>0. \A c \in ran : c.callee \in Name
  BY DEF TypeOK
<1>1. CASE DefineFunction
  <2>1. PICK f \in Name, ps \in Params, body \in Body :
          LET own == Found([FunctionProtos EXCEPT ![f] = ps], f)
          IN  /\ own \in Params
              /\ FunctionProtos' = [FunctionProtos EXCEPT ![f] = ps]
              /\ arities' = [arities EXCEPT ![f] = @ \cup {Len(ps)}]
              /\ ModuleHandles \in Seq(Compiled)
              /\ Len(ModuleHandles') = Len(ModuleHandles) + 1
              /\ DOMAIN ModuleHandles' = 1..(Len(ModuleHandles) + 1)
              /\ \A i \in DOMAIN ModuleHandles : ModuleHandles'[i] = ModuleHandles[i]
              /\ ModuleHandles'[Len(ModuleHandles')] =
                   [def |-> f, params |-> own, calls |-> Calls(body)]
    BY <1>1, DefineAdds
  <2>2. pc = "ready" /\ TheModule' = NoFunctions /\ ran' = ran
    BY <1>1 DEF DefineFunction
  <2> DEFINE own == Found([FunctionProtos EXCEPT ![f] = ps], f)
  <2>3. /\ \A g \in Name : arities[g] \subseteq arities'[g]
        /\ own # None => Len(own) \in arities'[f]
        /\ \A g \in Name :
             FunctionProtos'[g] # None => Len(FunctionProtos'[g]) \in arities'[g]
    BY <2>1, FoundKnown
  <2>4. own # None
    BY <2>1, NamesAssumption
  <2>5. ProtosKnown'
    BY <2>2, <2>3 DEF ProtosKnown, NoFunctions
  <2>6. /\ Len(ModuleHandles) \in Nat
        /\ DOMAIN ModuleHandles = 1..Len(ModuleHandles)
        /\ \A i \in DOMAIN ModuleHandles : ModuleHandles[i].def \in Name
    BY <2>1, HandlesNamed
  <2>7. /\ ModuleHandles'[Len(ModuleHandles) + 1].def = f
        /\ ModuleHandles'[Len(ModuleHandles) + 1].params = own
    BY <2>1
  <2> HIDE DEF own
  <2>8. ModulesKnown'
    <3>1. ASSUME NEW i \in DOMAIN ModuleHandles'
          PROVE  Len(ModuleHandles'[i].params) \in arities'[ModuleHandles'[i].def]
      <4>1. CASE i \in DOMAIN ModuleHandles
        BY <2>1, <2>2, <2>3, <2>6, <4>1 DEF ModulesKnown
      <4>2. CASE i \notin DOMAIN ModuleHandles
        <5>1. i = Len(ModuleHandles) + 1
          BY <2>1, <2>6, <3>1, <4>2
        <5> QED
          BY <2>3, <2>4, <2>7, <5>1
      <4> QED
        BY <4>1, <4>2
    <3> QED
      BY <3>1 DEF ModulesKnown
  <2>9. CallsKnown'
    <3>1. DOMAIN ModuleHandles \subseteq DOMAIN ModuleHandles'
      BY <2>1, <2>6
    <3> QED
      BY <1>0, <2>1, <2>2, <2>3, <3>1 DEF CallsKnown
  <2> QED
    BY <2>5, <2>8, <2>9
<1>2. CASE FailDefinition
  <2>1. PICK f \in Name, ps \in Params, body \in Body :
          LET protos == [FunctionProtos EXCEPT ![f] = ps]
              scope == Range(Found(protos, f))
          IN  /\ FunctionProtos' = protos
              /\ arities' = [arities EXCEPT ![f] = @ \cup {Len(ps)}]
              /\ TheModule' = [ModuleWith(protos, scope, body) EXCEPT ![f] = None]
    BY <1>2 DEF FailDefinition, Reads
  <2>2. pc = "ready" /\ UNCHANGED <<ModuleHandles, ran>>
    BY <1>2 DEF FailDefinition
  <2>3. /\ \A g \in Name : arities[g] \subseteq arities'[g]
        /\ \A g \in Name :
             LET own == Found([FunctionProtos EXCEPT ![f] = ps], g)
             IN  own # None => Len(own) \in arities'[g]
        /\ \A g \in Name :
             FunctionProtos'[g] # None => Len(FunctionProtos'[g]) \in arities'[g]
    BY <2>1, FoundKnown
  <2>4. \A g \in Name :
          \/ TheModule'[g] = None
          \/ TheModule'[g] = TheModule[g]
          \/ TheModule'[g] = Found([FunctionProtos EXCEPT ![f] = ps], g)
    BY <2>1 DEF ModuleWith
  <2>5. ProtosKnown'
    BY <2>3, <2>4 DEF ProtosKnown
  <2>6. ModulesKnown'
    <3>1. \A i \in DOMAIN ModuleHandles : ModuleHandles[i].def \in Name
      <4>1. ModuleHandles \in Seq(Compiled)
        BY <2>2 DEF TypeOK
      <4> QED
        BY <4>1, HandlesNamed
    <3> QED
      BY <2>2, <2>3, <3>1 DEF ModulesKnown
  <2>7. CallsKnown'
    BY <1>0, <2>2, <2>3 DEF CallsKnown
  <2> QED
    BY <2>5, <2>6, <2>7
<1>3. CASE HandleExtern
  <2>1. PICK f \in Name, ps \in Params :
          /\ FunctionProtos' = [FunctionProtos EXCEPT ![f] = ps]
          /\ arities' = [arities EXCEPT ![f] = @ \cup {Len(ps)}]
          /\ TheModule' = [TheModule EXCEPT ![f] = IF @ = None THEN ps ELSE @]
    BY <1>3 DEF HandleExtern, Reads
  <2>2. pc = "ready" /\ UNCHANGED <<ModuleHandles, ran>>
    BY <1>3 DEF HandleExtern
  <2>3. /\ \A g \in Name : arities[g] \subseteq arities'[g]
        /\ \A g \in Name :
             FunctionProtos'[g] # None => Len(FunctionProtos'[g]) \in arities'[g]
    BY <2>1, FoundKnown
  <2>4. Len(ps) \in arities'[f]
    BY <2>1 DEF TypeOK
  <2>5. \A g \in Name :
          \/ TheModule'[g] = TheModule[g]
          \/ g = f /\ TheModule'[g] = ps
    BY <2>1 DEF TypeOK
  <2>6. ProtosKnown'
    BY <2>3, <2>4, <2>5 DEF ProtosKnown
  <2>7. ModulesKnown'
    <3>1. \A i \in DOMAIN ModuleHandles : ModuleHandles[i].def \in Name
      <4>1. ModuleHandles \in Seq(Compiled)
        BY <2>2 DEF TypeOK
      <4> QED
        BY <4>1, HandlesNamed
    <3> QED
      BY <2>2, <2>3, <3>1 DEF ModulesKnown
  <2>8. CallsKnown'
    BY <1>0, <2>2, <2>3 DEF CallsKnown
  <2> QED
    BY <2>6, <2>7, <2>8
<1>4. CASE EvaluateExpression
  <2>1. PICK body \in Body, more \in Seq(Added) :
          /\ ParsesBody(body)
          /\ Compiles(FunctionProtos, {}, body)
          /\ ModuleHandles \in Seq(Compiled)
          /\ Len(more) = Len(ModuleHandles) + 1
          /\ DOMAIN more = 1..(Len(ModuleHandles) + 1)
          /\ \A i \in DOMAIN ModuleHandles : more[i] = ModuleHandles[i]
          /\ more[Len(more)] = [def |-> None, params |-> <<>>, calls |-> Calls(body)]
          /\ \/ /\ pc' = "crashed"
                /\ ModuleHandles' = more
                /\ UNCHANGED <<linked, ran>>
             \/ /\ ran' = {[callee |-> c.callee, args |-> c.args,
                            target |-> Resolve(more, Len(more), c.callee)] : c \in Calls(body)}
                /\ UNCHANGED <<ModuleHandles, pc>>
    BY <1>4, EvaluationCases
  <2>2. /\ pc = "ready" /\ TheModule' = NoFunctions
        /\ UNCHANGED <<FunctionProtos, arities>>
    BY <1>4 DEF EvaluateExpression
  <2>3. ProtosKnown'
    BY <2>2 DEF ProtosKnown, NoFunctions
  <2>4. /\ Len(ModuleHandles) \in Nat /\ DOMAIN ModuleHandles = 1..Len(ModuleHandles)
        /\ Len(more) \in Nat /\ DOMAIN more = 1..Len(more)
        /\ more[Len(more)].def = None
    BY <2>1
  <2>5. CASE pc' = "crashed" /\ ModuleHandles' = more /\ UNCHANGED <<linked, ran>>
    <3>1. DOMAIN ModuleHandles \subseteq DOMAIN more
      BY <2>1, <2>4
    <3>2. CallsKnown'
      BY <2>1, <2>2, <2>5, <3>1 DEF CallsKnown
    <3> QED
      BY <2>3, <2>5, <3>2 DEF ModulesKnown
  <2>6. CASE /\ ran' = {[callee |-> c.callee, args |-> c.args,
                         target |-> Resolve(more, Len(more), c.callee)] : c \in Calls(body)}
             /\ UNCHANGED <<ModuleHandles, pc>>
    <3>1. ModulesKnown'
      BY <2>2, <2>6 DEF ModulesKnown
    <3>2. \A g \in Name : Resolve(more, Len(more), g) = Newest(ModuleHandles, g)
      <4> TAKE g \in Name
      <4>1. Newest(more, g) = Newest(ModuleHandles, g)
        BY <2>1, <2>4, NewestAfterAdding, NamesAssumption
      <4> QED
        BY <2>4, <4>1, NamesAssumption DEF Resolve
    <3>3. ASSUME NEW c \in Calls(body)
          PROVE  LET target == Resolve(more, Len(more), c.callee)
                 IN  /\ c.args \in arities[c.callee]
                     /\ target # 0 =>
                          /\ target \in DOMAIN ModuleHandles
                          /\ Len(ModuleHandles[target].params) \in arities[c.callee]
      <4>1. c.callee \in Name
        BY CallTypes
      <4>2. c.args \in arities[c.callee]
        BY <2>1, <2>2, CallsChecked
      <4>3. \/ Newest(ModuleHandles, c.callee) = 0
            \/ /\ Newest(ModuleHandles, c.callee) \in DOMAIN ModuleHandles
               /\ ModuleHandles[Newest(ModuleHandles, c.callee)].def = c.callee
        BY <2>4, NewestFound
      <4> QED
        BY <2>2, <3>2, <4>1, <4>2, <4>3 DEF ModulesKnown
    <3>4. CallsKnown'
      <4> DEFINE made(c) == [callee |-> c.callee, args |-> c.args,
                             target |-> Resolve(more, Len(more), c.callee)]
      <4>1. \A c : /\ made(c).callee = c.callee
                   /\ made(c).args = c.args
                   /\ made(c).target = Resolve(more, Len(more), c.callee)
        OBVIOUS
      <4>2. ran' = {made(c) : c \in Calls(body)}
        BY <2>6
      <4> HIDE DEF made
      <4> QED
        BY <2>2, <2>6, <3>3, <4>1, <4>2 DEF CallsKnown
    <3> QED
      BY <2>3, <3>1, <3>4
  <2> QED
    BY <2>1, <2>5, <2>6
<1>5. CASE FailExpression
  <2>1. PICK body \in Body : TheModule' = ModuleWith(FunctionProtos, {}, body)
    BY <1>5 DEF FailExpression
  <2>2. UNCHANGED <<FunctionProtos, ModuleHandles, ran, arities, pc>>
    BY <1>5 DEF FailExpression
  <2>3. \A g \in Name : Found(FunctionProtos, g) # None
                          => Len(Found(FunctionProtos, g)) \in arities[g]
    BY DEF Found, ProtosKnown
  <2>4. \A g \in Name : \/ TheModule'[g] = TheModule[g]
                        \/ TheModule'[g] = Found(FunctionProtos, g)
    BY <2>1 DEF ModuleWith
  <2>5. ProtosKnown'
    BY <2>2, <2>3, <2>4 DEF ProtosKnown
  <2> QED
    BY <2>2, <2>5 DEF ModulesKnown, CallsKnown
<1>6. CASE UNCHANGED vars
  BY <1>6 DEF vars, ProtosKnown, ModulesKnown, CallsKnown
<1> QED
  BY <1>1, <1>2, <1>3, <1>4, <1>5, <1>6 DEF Next, Stopped

\* A name that was always read with the same number of parameters is called with
\* that number, and compiled with it.
THEOREM FixedArity == Spec => []FixedArityAgrees
<1>1. Init => ProtosKnown /\ ModulesKnown /\ CallsKnown
  BY DEF Init, NoFunctions, ProtosKnown, ModulesKnown, CallsKnown
<1>2. CallsKnown => FixedArityAgrees
  <2> SUFFICES ASSUME CallsKnown, NEW c \in ran, NEW n \in arities[c.callee],
                      c.target # 0, arities[c.callee] = {n}
               PROVE  c.args = n /\ Len(ModuleHandles[c.target].params) = n
    BY DEF FixedArityAgrees
  <2>1. c.args \in {n} /\ Len(ModuleHandles[c.target].params) \in {n}
    BY DEF CallsKnown
  <2> QED
    BY <2>1
<1> QED
  BY <1>1, <1>2, TypeCorrect, OperatorsAlwaysResolve, KnownStep, PTL DEF Spec
=============================================================================
