--------------------------- MODULE Callees_proofs ---------------------------
(***************************************************************************)
(* The function pointer pass lists every function that a call may call,    *)
(* and replaces a call by the one that it calls, in every module, wherever *)
(* the callee comes from sources that the pass follows.                    *)
(*                                                                         *)
(* Three things are computed by adding to a set until nothing is added:    *)
(* the tasks of the pass, the functions that a value may be, and the       *)
(* values that a callee comes from.  LeastSet says of all of them that     *)
(* they are the least sets of their kind.  What the pass finds is such a   *)
(* set for the functions of the callee, so that these are among it         *)
(* (Finds).                                                                *)
(***************************************************************************)
EXTENDS Callees, FiniteSetTheorems, WellFoundedInduction, TLAPS

-----------------------------------------------------------------------------
(* Sets that grow until nothing is added.                                  *)

\* A set of natural numbers has a least member.
LEMMA LeastNatural ==
  ASSUME NEW S \in SUBSET Nat, S # {}
  PROVE  \E m \in S : \A k \in S : m <= k
<1> DEFINE R == OpToRel(<, Nat)
<1>1. \E m \in S : \A k \in S : ~(<<k, m>> \in R)
  <2> HIDE DEF R
  <2> QED BY NatLessThanWellFounded, WFMin DEF R
<1>2. PICK m \in S : \A k \in S : ~(<<k, m>> \in R)
  BY <1>1
<1>3. \A k \in S : ~(k < m) /\ k \in Nat /\ m \in Nat
  BY <1>2 DEF OpToRel
<1> QED BY <1>3

\* A set that has 0, and the successor of each of its members, has every number.
LEMMA Induct ==
  ASSUME NEW S \in SUBSET Nat, 0 \in S, \A n \in S : n + 1 \in S
  PROVE  S = Nat
<1> SUFFICES ASSUME Nat \ S # {} PROVE FALSE
  OBVIOUS
<1>1. PICK m \in Nat \ S : \A k \in Nat \ S : m <= k
  BY LeastNatural
<1>2. m - 1 \in Nat /\ m - 1 \in S
  BY <1>1
<1> QED BY <1>1, <1>2

\* The functions that make a set of U from another.
Steps(U) == [SUBSET U -> SUBSET U]

\* A sequence of sets that starts with A and goes on as F says, and what it ends
\* with: the least set with A to which F adds nothing.
Runs(s, A, F, U) == s[0] = A /\ \A n \in Nat : s[n] \in SUBSET U => s[n + 1] = F[s[n]]
IsLeast(S, A, F, U) ==
  /\ S \in SUBSET U /\ A \subseteq S /\ F[S] = S
  /\ \A K \in SUBSET U : A \subseteq K /\ (\A T \in SUBSET K : F[T] \subseteq K) => S \subseteq K
Adding(F, U) == \A S \in SUBSET U : S \subseteq F[S]

\* There is a sequence of sets that starts with A and goes on as F says.
LEMMA SequenceExists ==
  ASSUME NEW U, NEW A \in SUBSET U, NEW F \in Steps(U)
  PROVE  \E s : s \in [Nat -> SUBSET U] /\ Runs(s, A, F, U)
<1> USE DEF Steps, Runs
<1> DEFINE Starts(g, n) == /\ g \in [0..n -> SUBSET U] /\ g[0] = A
                           /\ \A i \in 1..n : g[i] = F[g[i - 1]]
<1>1. \A n \in Nat : \E g : Starts(g, n)
  <2> DEFINE X == {n \in Nat : \E g : Starts(g, n)}
  <2>1. 0 \in X
    <3>1. Starts([i \in 0..0 |-> A], 0)
      OBVIOUS
    <3> QED BY <3>1
  <2>2. ASSUME NEW n \in X PROVE n + 1 \in X
    <3>1. PICK g : Starts(g, n)
      OBVIOUS
    <3> DEFINE h == [i \in 0..(n + 1) |-> IF i = n + 1 THEN F[g[n]] ELSE g[i]]
    <3>2. h \in [0..(n + 1) -> SUBSET U] /\ h[0] = A
      BY <3>1
    <3>3. ASSUME NEW i \in 1..(n + 1) PROVE h[i] = F[h[i - 1]]
      <4>1. n \in Nat /\ \A j \in 0..(n + 1) : h[j] = IF j = n + 1 THEN F[g[n]] ELSE g[j]
        OBVIOUS
      <4>2. g[n] = h[n] /\ h[n + 1] = F[g[n]]
        BY <4>1
      <4> HIDE DEF h
      <4>3. CASE i = n + 1
        BY <4>1, <4>2, <4>3
      <4>4. CASE i # n + 1
        <5>1. i \in 1..n /\ i - 1 \in 0..(n + 1) /\ i - 1 # n + 1 /\ i \in 0..(n + 1)
          BY <4>1, <4>4
        <5>2. h[i] = g[i] /\ h[i - 1] = g[i - 1]
          BY <4>1, <4>4, <5>1
        <5> QED BY <3>1, <5>1, <5>2
      <4> QED BY <4>3, <4>4
    <3>4. n + 1 \in Nat /\ Starts(h, n + 1)
      <4> HIDE DEF h
      <4> QED BY <3>2, <3>3
    <3> HIDE DEF Starts, h
    <3> QED BY <3>4
  <2> HIDE DEF X
  <2>3. X = Nat
    <3>1. X \in SUBSET Nat
      BY DEF X
    <3> QED BY <2>1, <2>2, <3>1, Induct
  <2> QED BY <2>3 DEF X
<1>2. ASSUME NEW n \in Nat, NEW g, NEW h, Starts(g, n + 1), Starts(h, n)
      PROVE  \A i \in 0..n : g[i] = h[i]
  <2> DEFINE X == {i \in Nat : i <= n => g[i] = h[i]}
  <2>1. 0 \in X /\ \A i \in X : i + 1 \in X
    BY <1>2
  <2> HIDE DEF X
  <2>2. X = Nat
    <3>1. X \in SUBSET Nat
      BY DEF X
    <3> QED BY <2>1, <3>1, Induct
  <2> QED BY <2>2 DEF X
<1> DEFINE g(n) == CHOOSE h : Starts(h, n)
<1>3. \A n \in Nat : Starts(g(n), n)
  BY <1>1
<1> HIDE DEF g
<1> DEFINE s == [n \in Nat |-> g(n)[n]]
<1>4. \A n \in Nat : g(n) \in [0..n -> SUBSET U] /\ g(n)[0] = A
  BY <1>3
<1>5. \A n \in Nat : g(n + 1)[n + 1] = F[g(n + 1)[n]]
  <2> TAKE n \in Nat
  <2>1. n + 1 \in Nat /\ n + 1 \in 1..(n + 1) /\ (n + 1) - 1 = n
    OBVIOUS
  <2>2. Starts(g(n + 1), n + 1)
    BY <1>3, <2>1
  <2> QED BY <2>1, <2>2
<1>6. \A n \in Nat : g(n + 1)[n] = g(n)[n]
  <2> TAKE n \in Nat
  <2> HIDE DEF Starts
  <2> QED BY <1>2, <1>3
<1>7. s \in [Nat -> SUBSET U] /\ s[0] = A
  BY <1>4
<1>8. \A n \in Nat : s[n + 1] = F[s[n]]
  BY <1>5, <1>6
<1> QED BY <1>7, <1>8

\* If it is a growing one in a finite set, it stops growing in time.
LEMMA StopsGrowing ==
  ASSUME NEW U, IsFiniteSet(U), NEW s \in [Nat -> SUBSET U],
         NEW F, \A n \in Nat : s[n + 1] = F[s[n]], \A n \in Nat : s[n] \subseteq s[n + 1],
         NEW N \in Nat, Cardinality(U) <= N
  PROVE  s[N + 1] = s[N]
<1> SUFFICES ASSUME s[N + 1] # s[N] PROVE FALSE
  OBVIOUS
<1> DEFINE Size(n) == Cardinality(s[n])
<1>1. \A n \in Nat : /\ s[n] \in SUBSET U /\ IsFiniteSet(s[n])
                   /\ Size(n) \in Nat /\ Size(n) <= Cardinality(U)
  <2> TAKE n \in Nat
  <2>1. s[n] \in SUBSET U
    OBVIOUS
  <2> QED BY <2>1, FS_Subset, FS_CardinalityType
<1>2. \A n \in Nat : s[n] # s[n + 1] => Size(n) < Size(n + 1)
  <2> TAKE n \in Nat
  <2> SUFFICES ASSUME s[n] # s[n + 1] PROVE Size(n) < Size(n + 1)
    OBVIOUS
  <2>1. n + 1 \in Nat /\ s[n] \in SUBSET s[n + 1]
    OBVIOUS
  <2>2. Size(n) <= Size(n + 1) /\ Size(n) # Size(n + 1)
    BY <1>1, <2>1, FS_Subset
  <2> QED BY <1>1, <2>1, <2>2
<1>3. \A n \in Nat : s[n] = s[n + 1] => s[n + 1] = s[(n + 1) + 1]
  OBVIOUS
<1> DEFINE X == {n \in Nat : s[n] # s[n + 1] => Size(n + 1) >= n + 1}
<1>4. 0 \in X
  BY <1>1, <1>2
<1>5. ASSUME NEW n \in X PROVE n + 1 \in X
  <2> HIDE DEF Size
  <2>1. n \in Nat /\ n + 1 \in Nat /\ (n + 1) + 1 \in Nat
    OBVIOUS
  <2>2. SUFFICES ASSUME s[n + 1] # s[(n + 1) + 1] PROVE Size((n + 1) + 1) >= (n + 1) + 1
    OBVIOUS
  <2>3. s[n] # s[n + 1]
    BY <1>3, <2>1, <2>2
  <2>4. Size(n + 1) >= n + 1
    BY <2>3
  <2>5. Size(n + 1) < Size((n + 1) + 1)
    BY <1>2, <2>1, <2>2
  <2>6. Size(n + 1) \in Nat /\ Size((n + 1) + 1) \in Nat
    BY <1>1, <2>1
  <2> QED BY <2>1, <2>4, <2>5, <2>6
<1> HIDE DEF X
<1>6. X = Nat
  <2>1. X \in SUBSET Nat
    BY DEF X
  <2> QED BY <1>4, <1>5, <2>1, Induct
<1>7. Size(N + 1) >= N + 1
  BY <1>6 DEF X
<1>8. Size(N + 1) \in Nat /\ Size(N + 1) <= Cardinality(U) /\ Cardinality(U) \in Nat
  <2>1. N + 1 \in Nat
    OBVIOUS
  <2> QED BY <1>1, <2>1, FS_CardinalityType
<1> HIDE DEF Size
<1> QED BY <1>7, <1>8

\* What the sequence has in the end is the least set with A to which F adds nothing.
LEMMA LeastSet ==
  ASSUME NEW U, IsFiniteSet(U), NEW A \in SUBSET U, NEW F \in Steps(U),
         Adding(F, U), NEW N \in Nat, Cardinality(U) <= N, NEW s, Runs(s, A, F, U)
  PROVE  IsLeast(s[N], A, F, U)
<1> USE DEF Steps, Runs, Adding
<1>1. ASSUME NEW K \in SUBSET U, A \subseteq K, \A S \in SUBSET K : F[S] \subseteq K
      PROVE  \A n \in Nat : s[n] \subseteq K
  <2> DEFINE X == {n \in Nat : s[n] \subseteq K}
  <2>1. 0 \in X
    BY <1>1
  <2>2. ASSUME NEW n \in X PROVE n + 1 \in X
    <3>1. n \in Nat /\ s[n] \in SUBSET K /\ s[n] \in SUBSET U
      OBVIOUS
    <3>2. F[s[n]] \subseteq K
      BY <1>1, <3>1
    <3> QED BY <3>1, <3>2
  <2> HIDE DEF X
  <2>3. X = Nat
    <3>1. X \in SUBSET Nat
      BY DEF X
    <3> QED BY <2>1, <2>2, <3>1, Induct
  <2> QED BY <2>3 DEF X
<1>2. \A n \in Nat : s[n] \in SUBSET U
  <2>1. U \in SUBSET U /\ A \subseteq U /\ \A S \in SUBSET U : F[S] \subseteq U
    OBVIOUS
  <2> QED BY <1>1, <2>1
<1>3. \A n \in Nat : s[n + 1] = F[s[n]] /\ s[n] \subseteq s[n + 1]
  BY <1>2
<1> DEFINE t == [n \in Nat |-> s[n]]
<1>4. t \in [Nat -> SUBSET U] /\ \A n \in Nat : t[n + 1] = F[t[n]] /\ t[n] \subseteq t[n + 1]
  BY <1>2, <1>3
<1>5. t[N] = s[N] /\ t[N + 1] = F[s[N]]
  BY <1>3
<1> HIDE DEF t
<1>6. t[N + 1] = t[N]
  BY <1>4, StopsGrowing
<1>7. A \subseteq s[N]
  <2> DEFINE X == {n \in Nat : A \subseteq s[n]}
  <2>1. 0 \in X /\ \A n \in X : n + 1 \in X
    BY <1>3
  <2> HIDE DEF X
  <2>2. X = Nat
    <3>1. X \in SUBSET Nat
      BY DEF X
    <3> QED BY <2>1, <3>1, Induct
  <2> QED BY <2>2 DEF X
<1> QED BY <1>1, <1>2, <1>5, <1>6, <1>7 DEF IsLeast

-----------------------------------------------------------------------------
(* Values and their operands.                                              *)

\* What LLVM keeps, said of the module at hand.
LEMMA ModuleFacts ==
  ASSUME IsModule(module)
  PROVE  /\ IsFiniteSet(Values) /\ Calls \subseteq Values
         /\ \A v \in Values :
              /\ "args" \in DOMAIN module.values[v] <=> Kind(v) \in HasOperands
              /\ Kind(v) \in HasOperands => Args(v) \in Seq(Values)
              /\ Kind(v) = "load" => Len(Args(v)) = 1
              /\ Kind(v) = "store" => Len(Args(v)) = 2
              /\ Kind(v) \in {"gep", "call"} => Len(Args(v)) > 0
              /\ Kind(v) = "func" => module.values[v].returns \in Seq(Values)
              /\ Kind(v) = "arg" => /\ module.values[v].of \in KindOf(Values, "func")
                                    /\ module.values[v].no \in Nat \ {0}
         /\ module.code \in Seq(Calls) /\ IsInjective(module.code)
BY DEF IsModule, Values, Calls, Kind, KindOf, Args

\* The operands of a call are its arguments and the callee of the moment.
LEMMA CallOperands ==
  ASSUME IsModule(module), NEW c \in Calls
  PROVE  /\ Args(c) \in Seq(Values) /\ Len(Args(c)) \in Nat \ {0} /\ Read(c) \in Values
         /\ DOMAIN Operands(c) = 1..Len(Args(c))
         /\ Operands(c)[Len(Args(c))] = callee[c]
         /\ \A i \in 1..(Len(Args(c)) - 1) : Operands(c)[i] = Args(c)[i] /\ Args(c)[i] \in Values
<1>1. c \in Values /\ Kind(c) = "call"
  BY DEF Calls, KindOf
<1> DEFINE n == Len(Args(c))
<1>2. Args(c) \in Seq(Values) /\ n \in Nat \ {0} /\ "args" \in DOMAIN module.values[c]
  BY <1>1, ModuleFacts DEF HasOperands
<1>3. Operands(c) = Append(SubSeq(Args(c), 1, n - 1), callee[c])
  BY <1>1, <1>2 DEF Operands, Front
<1>4. \A i \in 1..n : Args(c)[i] \in Values
  BY <1>2
<1> DEFINE m == n - 1
           front == SubSeq(Args(c), 1, m)
<1>5. /\ front \in Seq(Values) /\ Len(front) = m
      /\ \A i \in 1..m : front[i] = Args(c)[i]
  <2> DEFINE a == Args(c)
             one == 1
  <2>1. a \in Seq(Values) /\ one \in 1..(Len(a) + 1) /\ m \in (one - 1)..Len(a) /\ m \in Nat
    BY <1>2
  <2>2. front = SubSeq(a, one, m) /\ one = 1 /\ a = Args(c)
    OBVIOUS
  <2> HIDE DEF front, m, n, a, one
  <2>3. /\ front \in Seq(Values)
        /\ Len(front) = IF one <= m THEN m - one + 1 ELSE 0
        /\ \A i \in 1..m - one + 1 : front[i] = a[one + i - 1]
    BY <2>1, <2>2
  <2> QED BY <2>1, <2>2, <2>3
<1>6. Read(c) = Args(c)[n]
  BY DEF Read, Last
<1>7. m \in Nat /\ n = m + 1 /\ Operands(c) = Append(front, callee[c])
  BY <1>2, <1>3
<1> HIDE DEF n, m, front
<1>8. DOMAIN Operands(c) = 1..n /\ Operands(c)[n] = callee[c]
  BY <1>5, <1>7
<1>9. \A i \in 1..m : Operands(c)[i] = front[i]
  BY <1>5, <1>7
<1> QED BY <1>2, <1>4, <1>5, <1>6, <1>7, <1>8, <1>9 DEF n

\* The operands of other values never change.
LEMMA OtherOperands ==
  ASSUME IsModule(module), NEW v \in Values, Kind(v) \in HasOperands, Kind(v) # "call"
  PROVE  /\ Operands(v) = Args(v) /\ Args(v) \in Seq(Values)
         /\ \A i \in 1..Len(Args(v)) : Args(v)[i] \in Values /\ v \in Users(Args(v)[i])
<1>1. Operands(v) = Args(v) /\ Args(v) \in Seq(Values)
  BY ModuleFacts DEF Operands
<1>2. \A i \in 1..Len(Args(v)) : i \in DOMAIN Args(v) /\ Args(v)[i] \in Values
  BY <1>1
<1> QED BY <1>1, <1>2 DEF Users, ToSet

\* Who is passed at a place: the arguments there, or the callee behind them.
LEMMA Passed ==
  ASSUME IsModule(module), callee \in [Calls -> Values], NEW S, NEW no
  PROVE  /\ PassedAt(S, no) \subseteq Values
         /\ \A c \in Calls : \A i \in 1..(Len(Args(c)) - 1) :
              no = i /\ callee[c] \in S => Args(c)[i] \in PassedAt(S, no)
<1>1. ASSUME NEW w \in PassedAt(S, no) PROVE w \in Values
  <2>1. PICK c \in Calls : no \in DOMAIN Operands(c) /\ w = Operands(c)[no]
    BY <1>1 DEF PassedAt, KindOf, Users, Calls
  <2>2. callee[c] \in Values
    BY <2>1
  <2> QED BY <2>1, <2>2, CallOperands
<1>2. ASSUME NEW c \in Calls, NEW i \in 1..(Len(Args(c)) - 1), no = i, callee[c] \in S
      PROVE  Args(c)[i] \in PassedAt(S, no)
  <2>1. /\ Len(Args(c)) \in DOMAIN Operands(c) /\ i \in DOMAIN Operands(c)
        /\ Operands(c)[Len(Args(c))] = callee[c] /\ Operands(c)[i] = Args(c)[i]
    BY CallOperands
  <2>2. c \in Users(callee[c])
    BY <2>1, ModuleFacts DEF Users, ToSet
  <2>3. c \in KindOf(UNION {Users(v) : v \in S}, "call")
    BY <1>2, <2>2 DEF KindOf, Calls
  <2> QED BY <1>2, <2>1, <2>3 DEF PassedAt
<1> QED BY <1>1, <1>2

\* Who was stored with a pointer.
LEMMA StoredWith ==
  ASSUME IsModule(module), NEW S
  PROVE  /\ Stored(S) \subseteq Values
         /\ \A s \in KindOf(Values, "store") : Args(s)[1] \in Values
         /\ \A s \in KindOf(Values, "store") : Args(s)[2] \in S => Args(s)[1] \in Stored(S)
<1>1. ASSUME NEW s \in KindOf(Values, "store")
      PROVE  Args(s)[1] \in Values /\ s \in Users(Args(s)[2])
  <2>1. s \in Values /\ Kind(s) = "store" /\ Len(Args(s)) = 2
    BY ModuleFacts DEF KindOf
  <2>2. 1 \in 1..Len(Args(s)) /\ 2 \in 1..Len(Args(s))
    BY <2>1
  <2> QED BY <2>1, <2>2, OtherOperands DEF HasOperands
<1>2. \A v : Users(v) \subseteq Values
  BY DEF Users
<1>3. Stored(S) \subseteq {Args(s)[1] : s \in KindOf(Values, "store")}
  BY <1>2 DEF Stored, KindOf
<1>4. ASSUME NEW s \in KindOf(Values, "store"), Args(s)[2] \in S PROVE Args(s)[1] \in Stored(S)
  <2>1. s \in KindOf(UNION {Users(v) : v \in S}, "store")
    BY <1>1, <1>4 DEF KindOf
  <2> QED BY <2>1 DEF Stored
<1> QED BY <1>1, <1>3, <1>4

-----------------------------------------------------------------------------
(* What the pass follows.                                                  *)

Procs == {"arg", "call", "phi", "load", "gep"}

\* A task is about a value of its kind, so that there are no more tasks than values.
AllTasks == {[proc |-> Kind(v), at |-> v] : v \in {w \in Values : Kind(w) \in Procs}}

LEMMA KnownTasks ==
  ASSUME NEW S, S \cap Values = S, NEW k \in Procs
  PROVE  /\ Task(k, KindOf(S, k)) \subseteq AllTasks
         /\ \A v \in S : Kind(v) = k => [proc |-> k, at |-> v] \in Task(k, KindOf(S, k))
BY DEF Task, KindOf, AllTasks

\* Following a pointer leads to values of the module.
LEMMA ResultsKnown ==
  ASSUME IsModule(module), callee \in [Calls -> Values], NEW t \in AllTasks
  PROVE  Results(t).tasks \subseteq AllTasks /\ Results(t).values \subseteq Values
<1>1. PICK v \in Values : t = [proc |-> Kind(v), at |-> v] /\ Kind(v) \in Procs
  BY DEF AllTasks
<1>2. \A S, k : KindOf(S, k) \subseteq S
  BY DEF KindOf
<1>3. CASE Kind(v) = "arg"
  <2> DEFINE no == module.values[v].no
             parent == {module.values[v].of}
             passed == PassedAt(parent, no)
             through == KindOf(passed, "phi") \cup KindOf(UNION {Users(f) : f \in parent}, "phi")
             more == PassedAt(through, no)
  <2>1. Results(t) = getArgFuncptr(v)
    BY <1>1, <1>3 DEF Results
  <2>2. Results(t) = Found(KindOf(passed \cup more, "func"),
                           Task("phi", KindOf(passed, "phi"))
                             \cup Task("load", KindOf(passed, "load"))
                             \cup Task("arg", KindOf(passed, "arg")))
    BY <2>1 DEF getArgFuncptr
  <2>3. passed \subseteq Values /\ more \subseteq Values
    BY Passed
  <2> HIDE DEF passed, more
  <2>4. /\ Task("phi", KindOf(passed, "phi")) \subseteq AllTasks
        /\ Task("load", KindOf(passed, "load")) \subseteq AllTasks
        /\ Task("arg", KindOf(passed, "arg")) \subseteq AllTasks
    BY <2>3, KnownTasks DEF Procs
  <2> QED BY <1>2, <2>2, <2>3, <2>4 DEF Found
<1>4. CASE Kind(v) = "call"
  <2> DEFINE callees == getCalledFunction(v)
               \cup (IF Kind(callee[v]) = "phi" THEN KindOf(ToSet(Args(callee[v])), "func") ELSE {})
             given == UNION {ToSet(module.values[f].returns) : f \in callees}
  <2>1. Results(t) = getCallInst(v)
    BY <1>1, <1>4 DEF Results
  <2>2. Results(t) = Found({}, Task("arg", KindOf(given, "arg")))
    BY <2>1 DEF getCallInst
  <2>3. v \in Calls /\ callee[v] \in Values
    BY <1>4 DEF Calls, KindOf
  <2>4. Kind(callee[v]) = "phi" => ToSet(Args(callee[v])) \subseteq Values
    BY <2>3, ModuleFacts DEF HasOperands, ToSet
  <2>5. \A f \in callees : f \in Values /\ Kind(f) = "func"
    BY <2>3, <2>4 DEF getCalledFunction, KindOf
  <2> HIDE DEF callees
  <2>6. given \subseteq Values
    BY <2>5, ModuleFacts DEF ToSet
  <2> HIDE DEF given
  <2>7. Task("arg", KindOf(given, "arg")) \subseteq AllTasks
    BY <2>6, KnownTasks DEF Procs
  <2> QED BY <2>2, <2>7 DEF Found
<1>5. CASE Kind(v) = "phi"
  <2> DEFINE incoming == ToSet(Args(v))
  <2>1. Results(t) = getPhiNode(v)
    BY <1>1, <1>5 DEF Results
  <2>2. Results(t) = Found(KindOf(incoming, "func") \cup KindOf(incoming, "null"),
                           Task("phi", KindOf(incoming, "phi"))
                             \cup Task("arg", KindOf(incoming, "arg")))
    BY <2>1 DEF getPhiNode
  <2>3. incoming \subseteq Values
    BY <1>5, ModuleFacts DEF HasOperands, ToSet
  <2> HIDE DEF incoming
  <2>4. /\ Task("phi", KindOf(incoming, "phi")) \subseteq AllTasks
        /\ Task("arg", KindOf(incoming, "arg")) \subseteq AllTasks
    BY <2>3, KnownTasks DEF Procs
  <2> QED BY <1>2, <2>2, <2>3, <2>4 DEF Found
<1>6. CASE Kind(v) = "load"
  <2> DEFINE p == Args(v)[1]
             stored == Stored({p})
  <2>1. Results(t) = getLoadInst(v)
    BY <1>1, <1>6 DEF Results
  <2>2. Results(t) = Found(KindOf(stored, "func"),
                           Task("arg", KindOf(stored, "arg"))
                             \cup Task("load", KindOf(stored, "load"))
                             \cup Task("gep", KindOf({p}, "gep")))
    BY <2>1 DEF getLoadInst
  <2>3. stored \subseteq Values
    BY StoredWith
  <2>4. p \in Values
    BY <1>6, ModuleFacts DEF HasOperands
  <2> HIDE DEF stored, p
  <2>5. /\ Task("arg", KindOf(stored, "arg")) \subseteq AllTasks
        /\ Task("load", KindOf(stored, "load")) \subseteq AllTasks
        /\ Task("gep", KindOf({p}, "gep")) \subseteq AllTasks
    BY <2>3, <2>4, KnownTasks DEF Procs
  <2> QED BY <1>2, <2>2, <2>3, <2>5 DEF Found
<1>7. CASE Kind(v) = "gep"
  <2>1. Results(t) = getGetElementPtrInst(v)
    BY <1>1, <1>7 DEF Results
  <2> QED BY <1>2, <2>1, StoredWith DEF getGetElementPtrInst, Found
<1> QED BY <1>1, <1>3, <1>4, <1>5, <1>6, <1>7 DEF Procs

\* All tasks that follow are found: as many rounds as there are values are enough.
LEMMA FollowsAll ==
  ASSUME IsModule(module), callee \in [Calls -> Values], NEW tasks \in SUBSET AllTasks
  PROVE  /\ Following(tasks) \in SUBSET AllTasks /\ tasks \subseteq Following(tasks)
         /\ \A t \in Following(tasks) : Results(t).tasks \subseteq Following(tasks)
<1> DEFINE U == AllTasks
           N == Cardinality(Values)
           more(S) == S \cup UNION {Results(t).tasks : t \in S}
           F == [S \in SUBSET U |-> more(S)]
           closure == CHOOSE c : c = [n \in Nat |-> IF n = 0 THEN tasks ELSE more(c[n - 1])]
<1>1. IsFiniteSet(U) /\ Cardinality(U) <= N /\ N \in Nat
  <2> DEFINE at == [t \in U |-> t.at]
  <2>1. at \in Injection(U, Values)
    BY DEF AllTasks, Injection, IsInjective
  <2>2. IsFiniteSet(Values)
    BY ModuleFacts
  <2> HIDE DEF at, U
  <2> QED BY <2>1, <2>2, FS_Injection, FS_CardinalityType
<1>2. \A S \in SUBSET U : more(S) \in SUBSET U
  BY ResultsKnown
<1>3. tasks \in SUBSET U
  OBVIOUS
<1>4. F \in Steps(U) /\ Adding(F, U)
  BY <1>2 DEF Steps, Adding
<1>5. \A S \in SUBSET U : F[S] = more(S)
  OBVIOUS
<1> HIDE DEF F, U
<1>6. PICK s : s \in [Nat -> SUBSET U] /\ Runs(s, tasks, F, U)
  BY <1>3, <1>4, SequenceExists
<1> HIDE DEF more
<1>7. s = [n \in Nat |-> IF n = 0 THEN tasks ELSE more(s[n - 1])]
  <2>1. \A n \in Nat : s[n] = IF n = 0 THEN tasks ELSE more(s[n - 1])
    <3> TAKE n \in Nat
    <3>1. CASE n = 0
      BY <1>6, <3>1 DEF Runs
    <3>2. CASE n # 0
      <4>1. n - 1 \in Nat /\ (n - 1) + 1 = n
        BY <3>2
      <4>2. s[n] = F[s[n - 1]] /\ s[n - 1] \in SUBSET U
        BY <1>6, <4>1 DEF Runs
      <4> QED BY <1>5, <3>2, <4>2
    <3> QED BY <3>1, <3>2
  <2> QED BY <1>6, <2>1
<1>8. closure = [n \in Nat |-> IF n = 0 THEN tasks ELSE more(closure[n - 1])]
  BY <1>7
<1> HIDE DEF closure
<1>9. closure[0] = tasks /\ \A n \in Nat : closure[n + 1] = more(closure[n])
  BY <1>8
<1>10. Runs(closure, tasks, F, U)
  BY <1>5, <1>9 DEF Runs
<1> HIDE DEF N
<1>11. IsLeast(closure[N], tasks, F, U)
  BY <1>1, <1>3, <1>4, <1>10, LeastSet
<1>12. more(closure[N]) = closure[N]
  BY <1>5, <1>11 DEF IsLeast
<1>13. Following(tasks) = closure[N]
  BY DEF Following, closure, N, more
<1> QED BY <1>11, <1>12, <1>13 DEF more, U, IsLeast

-----------------------------------------------------------------------------
(* What the calls of the module do call.                                   *)

Functions == KindOf(Values, "func")
Pairs == Values \X Functions
Own == {<<f, f>> : f \in Functions}
More(may) == may \cup UNION {{<<v, f>> : f \in UNION {Image(w, may) : w \in Sources(v, may)}} :
                               v \in Values}

LEMMA ImageOf ==
  ASSUME NEW may \in SUBSET Pairs, NEW v
  PROVE  /\ \A f : f \in Image(v, may) <=> <<v, f>> \in may
         /\ Image(v, may) \subseteq Functions
BY DEF Image, Pairs

\* The functions that a value may be come from values, and more functions have more
\* sources.
LEMMA SourcesKnown ==
  ASSUME IsModule(module), NEW v \in Values, NEW may \in SUBSET Pairs, NEW few \in SUBSET may
  PROVE  Sources(v, may) \subseteq Values /\ Sources(v, few) \subseteq Sources(v, may)
<1>1. \A u : Image(u, few) \subseteq Image(u, may) /\ Image(u, may) \subseteq Functions
  BY ImageOf DEF Image
<1>2. CASE Kind(v) = "phi"
  BY <1>2, ModuleFacts DEF Sources, HasOperands, ToSet
<1>3. CASE Kind(v) = "arg"
  <2> DEFINE no == module.values[v].no
             of == module.values[v].of
  <2>1. \A S : Sources(v, S) = {Args(c)[no] : c \in {d \in CallsOf(of, S) : Passes(d, no)}}
    BY <1>3 DEF Sources
  <2>2. CallsOf(of, few) \subseteq CallsOf(of, may) /\ CallsOf(of, may) \subseteq Calls
    BY DEF CallsOf
  <2>3. no \in Nat \ {0}
    BY <1>3, ModuleFacts
  <2> HIDE DEF no, of
  <2>4. ASSUME NEW c \in Calls, Passes(c, no) PROVE Args(c)[no] \in Values
    <3>1. no \in 1..(Len(Args(c)) - 1)
      BY <2>3, <2>4, CallOperands DEF Passes
    <3> QED BY <3>1, CallOperands
  <2> QED BY <2>1, <2>2, <2>4
<1>4. CASE Kind(v) = "load"
  <2>1. \A S : Sources(v, S) = StoredIn(Args(v)[1])
    BY <1>4 DEF Sources
  <2> QED BY <2>1, StoredWith DEF StoredIn
<1>5. CASE Kind(v) = "call"
  <2>1. \A S : Sources(v, S) = UNION {ToSet(module.values[f].returns) : f \in Image(Read(v), S)}
    BY <1>5 DEF Sources
  <2>2. \A f \in Functions : ToSet(module.values[f].returns) \subseteq Values
    BY ModuleFacts DEF Functions, KindOf, ToSet
  <2> QED BY <1>1, <2>1, <2>2
<1>6. CASE Kind(v) \notin {"phi", "arg", "load", "call"}
  BY <1>6 DEF Sources
<1> QED BY <1>2, <1>3, <1>4, <1>5, <1>6

LEMMA MoreKnown ==
  ASSUME IsModule(module), NEW may \in SUBSET Pairs, NEW few \in SUBSET may
  PROVE  More(may) \in SUBSET Pairs /\ may \subseteq More(may) /\ More(few) \subseteq More(may)
<1>1. \A v \in Values : Sources(v, few) \subseteq Sources(v, may)
  BY SourcesKnown
<1>2. \A u : Image(u, few) \subseteq Image(u, may) /\ Image(u, may) \subseteq Functions
  BY ImageOf DEF Image
<1>3. \A v \in Values : /\ UNION {Image(w, few) : w \in Sources(v, few)}
                             \subseteq UNION {Image(w, may) : w \in Sources(v, may)}
                        /\ UNION {Image(w, may) : w \in Sources(v, may)} \subseteq Functions
  BY <1>1, <1>2
<1> DEFINE Add(S, v) == UNION {Image(w, S) : w \in Sources(v, S)}
<1>4. \A S : More(S) = S \cup UNION {{<<v, f>> : f \in Add(S, v)} : v \in Values}
  BY DEF More
<1>5. \A v \in Values : Add(few, v) \subseteq Add(may, v) /\ Add(may, v) \subseteq Functions
  BY <1>3
<1> HIDE DEF Add
<1>6. More(may) \subseteq Pairs
  BY <1>4, <1>5 DEF Pairs
<1>7. More(few) \subseteq More(may)
  BY <1>4, <1>5
<1> QED BY <1>4, <1>6, <1>7

\* MayBe is what it is meant to be, for every module: the functions that flow into a
\* value from its sources, and no others.
LEMMA MayBeLeast ==
  ASSUME IsModule(module)
  PROVE  /\ MayBe \in SUBSET Pairs /\ Own \subseteq MayBe /\ More(MayBe) = MayBe
         /\ \A K \in SUBSET Pairs :
              Own \subseteq K /\ (\A S \in SUBSET K : More(S) \subseteq K) => MayBe \subseteq K
<1> DEFINE U == Pairs
           N == Cardinality(Values) * Cardinality(Functions)
           F == [S \in SUBSET U |-> More(S)]
           after == CHOOSE c : c = [n \in Nat |-> IF n = 0 THEN Own ELSE More(c[n - 1])]
<1>1. IsFiniteSet(U) /\ Cardinality(U) <= N /\ N \in Nat
  <2>1. IsFiniteSet(Values) /\ Functions \in SUBSET Values
    BY ModuleFacts DEF Functions, KindOf
  <2>2. IsFiniteSet(Functions)
    BY <2>1, FS_Subset
  <2>3. IsFiniteSet(Pairs) /\ Cardinality(Pairs) = N
    BY <2>1, <2>2, FS_Product DEF Pairs
  <2>4. N \in Nat
    BY <2>3, FS_CardinalityType
  <2> QED BY <2>3, <2>4
<1>2. \A S \in SUBSET U : More(S) \in SUBSET U /\ S \subseteq More(S)
  BY MoreKnown
<1>3. Own \in SUBSET U
  BY DEF Own, Pairs, Functions, KindOf
<1>4. F \in Steps(U) /\ Adding(F, U)
  BY <1>2 DEF Steps, Adding
<1>5. \A S \in SUBSET U : F[S] = More(S)
  OBVIOUS
<1> HIDE DEF F, U
<1>6. PICK s : s \in [Nat -> SUBSET U] /\ Runs(s, Own, F, U)
  BY <1>3, <1>4, SequenceExists
<1>7. s = [n \in Nat |-> IF n = 0 THEN Own ELSE More(s[n - 1])]
  <2>1. \A n \in Nat : s[n] = IF n = 0 THEN Own ELSE More(s[n - 1])
    <3> TAKE n \in Nat
    <3>1. CASE n = 0
      BY <1>6, <3>1 DEF Runs
    <3>2. CASE n # 0
      <4>1. n - 1 \in Nat /\ (n - 1) + 1 = n
        BY <3>2
      <4>2. s[n] = F[s[n - 1]] /\ s[n - 1] \in SUBSET U
        BY <1>6, <4>1 DEF Runs
      <4> QED BY <1>5, <3>2, <4>2
    <3> QED BY <3>1, <3>2
  <2> QED BY <1>6, <2>1
<1>8. after = [n \in Nat |-> IF n = 0 THEN Own ELSE More(after[n - 1])]
  BY <1>7
<1>9. after[N] = MayBe
  BY DEF MayBe, Own, More, Functions
<1> HIDE DEF after
<1>10. after[0] = Own /\ \A n \in Nat : after[n + 1] = More(after[n])
  BY <1>8
<1>11. Runs(after, Own, F, U)
  BY <1>5, <1>10 DEF Runs
<1> HIDE DEF N
<1>12. IsLeast(after[N], Own, F, U)
  BY <1>1, <1>3, <1>4, <1>11, LeastSet
<1>13. MayBe \in SUBSET U /\ Own \subseteq MayBe /\ F[MayBe] = MayBe
  BY <1>9, <1>12 DEF IsLeast
<1>14. ASSUME NEW K \in SUBSET U, Own \subseteq K, \A S \in SUBSET K : More(S) \subseteq K
       PROVE  MayBe \subseteq K
  <2>1. \A S \in SUBSET K : F[S] \subseteq K
    BY <1>5, <1>14
  <2> QED BY <1>9, <1>12, <1>14, <2>1 DEF IsLeast
<1>15. More(MayBe) = MayBe
  BY <1>5, <1>13
<1> QED BY <1>13, <1>14, <1>15 DEF U

\* The values from which the callee of c comes.
LEMMA AllSources ==
  ASSUME IsModule(module), NEW c \in Calls, NEW may \in SUBSET Pairs, Followed(c, may)
  PROVE  \E S \in SUBSET Values :
           /\ Read(c) \in S
           /\ \A v \in S : \A w \in Sources(v, may) : w \in S /\ Follows(v, w, may)
<1> DEFINE U == Values
           N == Cardinality(Values)
           A == {Read(c)}
           more(S) == S \cup UNION {Sources(v, may) : v \in S}
           F == [S \in SUBSET U |-> more(S)]
           sources == CHOOSE s : s = [n \in Nat |-> IF n = 0 THEN A ELSE more(s[n - 1])]
<1>1. IsFiniteSet(U) /\ Cardinality(U) <= N /\ N \in Nat
  <2>1. IsFiniteSet(Values)
    BY ModuleFacts
  <2> QED BY <2>1, FS_CardinalityType
<1>2. \A S \in SUBSET U : more(S) \in SUBSET U
  BY SourcesKnown
<1>3. A \in SUBSET U
  BY CallOperands
<1>4. F \in Steps(U) /\ Adding(F, U)
  BY <1>2 DEF Steps, Adding
<1>5. \A S \in SUBSET U : F[S] = more(S)
  OBVIOUS
<1>6. \A v \in sources[N] : \A w \in Sources(v, may) : Follows(v, w, may)
  BY DEF Followed
<1> HIDE DEF F, U, A
<1>7. PICK s : s \in [Nat -> SUBSET U] /\ Runs(s, A, F, U)
  BY <1>3, <1>4, SequenceExists
<1> HIDE DEF more
<1>8. s = [n \in Nat |-> IF n = 0 THEN A ELSE more(s[n - 1])]
  <2>1. \A n \in Nat : s[n] = IF n = 0 THEN A ELSE more(s[n - 1])
    <3> TAKE n \in Nat
    <3>1. CASE n = 0
      BY <1>7, <3>1 DEF Runs
    <3>2. CASE n # 0
      <4>1. n - 1 \in Nat /\ (n - 1) + 1 = n
        BY <3>2
      <4>2. s[n] = F[s[n - 1]] /\ s[n - 1] \in SUBSET U
        BY <1>7, <4>1 DEF Runs
      <4> QED BY <1>5, <3>2, <4>2
    <3> QED BY <3>1, <3>2
  <2> QED BY <1>7, <2>1
<1>9. sources = [n \in Nat |-> IF n = 0 THEN A ELSE more(sources[n - 1])]
  BY <1>8
<1> HIDE DEF sources
<1>10. sources[0] = A /\ \A n \in Nat : sources[n + 1] = more(sources[n])
  BY <1>9
<1>11. Runs(sources, A, F, U)
  BY <1>5, <1>10 DEF Runs
<1> HIDE DEF N
<1>12. IsLeast(sources[N], A, F, U)
  BY <1>1, <1>3, <1>4, <1>11, LeastSet
<1>13. sources[N] \in SUBSET U /\ A \subseteq sources[N] /\ more(sources[N]) = sources[N]
  BY <1>5, <1>12 DEF IsLeast
<1>14. \A v \in sources[N] : Sources(v, may) \subseteq sources[N]
  BY <1>13 DEF more
<1> QED BY <1>6, <1>13, <1>14 DEF U, A

-----------------------------------------------------------------------------
(* The pass follows every source that Follows speaks of.                   *)

\* A call that was replaced was no direct one, and if a phi node chose its callee,
\* the node had no function but the one that took its place.
CalleesRight ==
  \A c \in Calls : callee[c] # Read(c) =>
    /\ Kind(Read(c)) # "func"
    /\ Kind(Read(c)) = "phi" => KindOf(ToSet(Args(Read(c))), "func") \subseteq {callee[c]}

\* What a task finds of a source: the function itself, or a task about the value.
Takes(t, w) ==
  \/ Kind(w) = "null"
  \/ Kind(w) = "func" /\ w \in Results(t).values
  \/ Kind(w) \in Procs /\ [proc |-> Kind(w), at |-> w] \in Results(t).tasks

TaskOf(v) == [proc |-> Kind(v), at |-> v]

LEMMA TaskIn ==
  ASSUME NEW S, NEW w \in S, NEW k, Kind(w) = k
  PROVE  w \in KindOf(S, k) /\ TaskOf(w) \in Task(k, KindOf(S, k))
BY DEF KindOf, Task, TaskOf

LEMMA FollowsPhi ==
  ASSUME NEW v \in Values, Kind(v) = "phi", NEW may,
         NEW w \in Sources(v, may), Follows(v, w, may)
  PROVE  Takes(TaskOf(v), w)
<1> DEFINE incoming == ToSet(Args(v))
<1>1. w \in incoming /\ Kind(w) \in {"func", "null", "phi", "arg"}
  BY DEF Sources, Follows
<1>2. Results(TaskOf(v)) = getPhiNode(v)
  BY DEF Results, TaskOf
<1>3. /\ Results(TaskOf(v)).values = KindOf(incoming, "func") \cup KindOf(incoming, "null")
      /\ Results(TaskOf(v)).tasks = Task("phi", KindOf(incoming, "phi"))
                                      \cup Task("arg", KindOf(incoming, "arg"))
  BY <1>2 DEF getPhiNode, Found
<1> HIDE DEF incoming
<1>4. \A k : Kind(w) = k => w \in KindOf(incoming, k) /\ TaskOf(w) \in Task(k, KindOf(incoming, k))
  BY <1>1, TaskIn
<1>5. CASE Kind(w) \in {"func", "null"}
  BY <1>3, <1>4, <1>5 DEF Takes
<1>6. CASE Kind(w) \in {"phi", "arg"}
  <2>1. TaskOf(w) \in Results(TaskOf(v)).tasks
    BY <1>3, <1>4, <1>6
  <2> QED BY <1>6, <2>1 DEF Takes, TaskOf, Procs
<1> QED BY <1>1, <1>5, <1>6

\* An argument comes from direct calls, or is a function that a call through a phi
\* node passes; the node, or the function in its place, is an operand of the call.
LEMMA FollowsArg ==
  ASSUME IsModule(module), callee \in [Calls -> Values], CalleesRight,
         NEW v \in Values, Kind(v) = "arg", NEW may,
         NEW w \in Sources(v, may), Follows(v, w, may)
  PROVE  Takes(TaskOf(v), w)
<1> DEFINE no == module.values[v].no
           f == module.values[v].of
           parent == {f}
           passed == PassedAt(parent, no)
           through == KindOf(passed, "phi") \cup KindOf(UNION {Users(g) : g \in parent}, "phi")
           more == PassedAt(through, no)
<1>1. no \in Nat \ {0} /\ Kind(f) = "func"
  BY ModuleFacts DEF KindOf
<1>2. PICK c \in CallsOf(f, may) : Passes(c, no) /\ w = Args(c)[no]
  BY DEF Sources
<1>3. /\ Kind(w) \in {"func", "null", "phi", "load", "arg"}
      /\ \/ Read(c) = f
         \/ Kind(Read(c)) = "phi" /\ f \in ToSet(Args(Read(c))) /\ Kind(w) = "func"
  BY <1>2 DEF Follows
<1>4. c \in Calls /\ no \in 1..(Len(Args(c)) - 1) /\ Read(c) \in Values
  BY <1>1, <1>2, CallOperands DEF CallsOf, Passes
<1>5. Results(TaskOf(v)) = getArgFuncptr(v)
  BY DEF Results, TaskOf
<1>6. /\ Results(TaskOf(v)).values = KindOf(passed \cup more, "func")
      /\ Results(TaskOf(v)).tasks = Task("phi", KindOf(passed, "phi"))
             \cup Task("load", KindOf(passed, "load")) \cup Task("arg", KindOf(passed, "arg"))
  BY <1>5 DEF getArgFuncptr, Found
<1>7. callee[c] = f => w \in passed
  BY <1>2, <1>4, Passed
<1>8. CASE w \in passed
  <2> HIDE DEF passed, more
  <2>1. \A k : Kind(w) = k => /\ w \in KindOf(passed, k)
                              /\ TaskOf(w) \in Task(k, KindOf(passed, k))
    BY <1>8, TaskIn
  <2>2. CASE Kind(w) = "func"
    BY <1>6, <1>8, <2>2 DEF Takes, KindOf
  <2>3. CASE Kind(w) \in {"phi", "load", "arg"}
    <3>1. TaskOf(w) \in Results(TaskOf(v)).tasks
      BY <1>6, <2>1, <2>3
    <3> QED BY <2>3, <3>1 DEF Takes, TaskOf, Procs
  <2> QED BY <1>3, <2>2, <2>3 DEF Takes
<1>9. CASE w \notin passed
  <2>1. callee[c] # f
    BY <1>7, <1>9
  <2>2. Kind(Read(c)) = "phi" /\ f \in ToSet(Args(Read(c))) /\ Kind(w) = "func"
    <3>1. Read(c) # f
      BY <1>1, <1>4, <2>1 DEF CalleesRight
    <3> QED BY <1>3, <3>1
  <2>3. callee[c] = Read(c)
    <3>1. f \in KindOf(ToSet(Args(Read(c))), "func")
      BY <1>1, <2>2 DEF KindOf
    <3> QED BY <1>4, <2>1, <2>2, <3>1 DEF CalleesRight
  <2>4. Read(c) \in Users(f)
    <3>1. PICK i \in DOMAIN Args(Read(c)) : Args(Read(c))[i] = f
      BY <2>2 DEF ToSet
    <3>2. Args(Read(c)) \in Seq(Values)
      BY <1>4, <2>2, ModuleFacts DEF HasOperands
    <3> QED BY <1>4, <2>2, <3>1, <3>2, OtherOperands DEF HasOperands
  <2>5. callee[c] \in through
    BY <2>2, <2>3, <2>4 DEF KindOf
  <2> HIDE DEF through
  <2>6. w \in more
    BY <1>2, <1>4, <2>5, Passed
  <2> QED BY <1>6, <2>2, <2>6 DEF Takes, KindOf
<1> QED BY <1>8, <1>9

\* A load has what was stored with its pointer, or with a pointer to the same element.
LEMMA FollowsLoad ==
  ASSUME IsModule(module), NEW v \in Values, Kind(v) = "load", NEW may,
         NEW w \in Sources(v, may), Follows(v, w, may)
  PROVE  \/ Takes(TaskOf(v), w)
         \/ \E t \in Results(TaskOf(v)).tasks : Takes(t, w) /\ Kind(w) = "func"
<1> DEFINE p == Args(v)[1]
           stored == Stored({p})
<1>1. Args(v) \in Seq(Values) /\ Len(Args(v)) = 1
  BY ModuleFacts DEF HasOperands
<1>2. p \in Values
  BY <1>1
<1>3. PICK s \in KindOf(Values, "store") :
        /\ w = Args(s)[1]
        /\ \/ Args(s)[2] = p
           \/ Kind(p) = "gep" /\ Kind(Args(s)[2]) = "gep" /\ Same(Args(s)[2], p)
  BY DEF Sources, StoredIn
<1>4. Results(TaskOf(v)) = getLoadInst(v)
  BY DEF Results, TaskOf
<1>5. /\ Results(TaskOf(v)).values = KindOf(stored, "func")
      /\ Results(TaskOf(v)).tasks = Task("arg", KindOf(stored, "arg"))
             \cup Task("load", KindOf(stored, "load")) \cup Task("gep", KindOf({p}, "gep"))
  BY <1>4 DEF getLoadInst, Found
<1>6. CASE Kind(p) # "gep"
  <2>1. Kind(w) \in {"func", "null", "arg", "load"}
    BY <1>6 DEF Follows
  <2>2. w \in stored
    BY <1>3, <1>6, StoredWith
  <2> HIDE DEF stored, p
  <2>3. \A k : Kind(w) = k => w \in KindOf(stored, k) /\ TaskOf(w) \in Task(k, KindOf(stored, k))
    BY <2>2, TaskIn
  <2>4. CASE Kind(w) \in {"func", "null"}
    BY <1>5, <2>3, <2>4 DEF Takes
  <2>5. CASE Kind(w) \in {"arg", "load"}
    <3>1. TaskOf(w) \in Results(TaskOf(v)).tasks
      BY <1>5, <2>3, <2>5
    <3> QED BY <2>5, <3>1 DEF Takes, TaskOf, Procs
  <2> QED BY <2>1, <2>4, <2>5
<1>7. CASE Kind(p) = "gep"
  <2> DEFINE of == {h \in KindOf(Users(Args(p)[1]), "gep") : Same(p, h)}
             h == Args(s)[2]
  <2>1. Kind(w) \in {"func", "null"}
    BY <1>7 DEF Follows
  <2>2. TaskOf(p) \in Results(TaskOf(v)).tasks
    <3>1. TaskOf(p) \in Task("gep", KindOf({p}, "gep"))
      <4>1. p \in {p}
        OBVIOUS
      <4> HIDE DEF p
      <4> QED BY <1>7, <4>1, TaskIn
    <3> HIDE DEF p, stored
    <3> QED BY <1>5, <3>1
  <2>3. Results(TaskOf(p)).values = KindOf(Stored(of), "func")
    BY <1>7 DEF Results, TaskOf, getGetElementPtrInst, Found
  <2>4. h \in Values /\ Kind(h) = "gep" /\ Same(p, h)
    <3>1. s \in Values /\ Kind(s) = "store" /\ Len(Args(s)) = 2 /\ Args(s) \in Seq(Values)
      BY ModuleFacts DEF KindOf, HasOperands
    <3>2. 2 \in 1..Len(Args(s))
      BY <3>1
    <3>3. h \in Values
      BY <3>1, <3>2, OtherOperands DEF HasOperands
    <3> QED BY <1>3, <1>7, <3>3 DEF Same
  <2>5. h \in Users(Args(p)[1])
    <3>1. 1 \in 1..Len(Args(h)) /\ Args(h)[1] = Args(p)[1]
      BY <2>4, ModuleFacts DEF Same, HasOperands
    <3>2. h \in Users(Args(h)[1])
      BY <2>4, <3>1, OtherOperands DEF HasOperands
    <3> QED BY <3>1, <3>2
  <2>6. h \in of
    BY <2>4, <2>5 DEF KindOf
  <2> HIDE DEF of
  <2>7. w \in Stored(of)
    BY <1>3, <2>6, StoredWith
  <2>8. Kind(w) = "func" => Takes(TaskOf(p), w)
    BY <2>3, <2>7 DEF Takes, KindOf
  <2> HIDE DEF p
  <2> QED BY <2>1, <2>2, <2>8 DEF Takes
<1> QED BY <1>6, <1>7

\* The result of a call comes from the arguments that its callees return.
LEMMA FollowsCall ==
  ASSUME IsModule(module), callee \in [Calls -> Values], CalleesRight,
         NEW v \in Calls, NEW may \in SUBSET Pairs,
         NEW w \in Sources(v, may), Follows(v, w, may)
  PROVE  Takes(TaskOf(v), w)
<1> DEFINE callees == getCalledFunction(v)
             \cup (IF Kind(callee[v]) = "phi" THEN KindOf(ToSet(Args(callee[v])), "func") ELSE {})
           given == UNION {ToSet(module.values[f].returns) : f \in callees}
<1>1. v \in Values /\ Kind(v) = "call"
  BY DEF Calls, KindOf
<1>2. PICK g \in Image(Read(v), may) : w \in ToSet(module.values[g].returns)
  BY <1>1 DEF Sources
<1>3. /\ Kind(w) = "arg"
      /\ g = Read(v) \/ (Kind(Read(v)) = "phi" /\ g \in ToSet(Args(Read(v))))
  BY <1>1, <1>2 DEF Follows
<1>4. Kind(g) = "func"
  BY <1>2, ImageOf DEF Functions, KindOf
<1>5. g \in callees
  <2>1. CASE callee[v] = g
    BY <1>4, <2>1 DEF getCalledFunction, KindOf
  <2>2. CASE callee[v] # g
    <3>1. g # Read(v)
      BY <1>4, <2>2 DEF CalleesRight
    <3>2. Kind(Read(v)) = "phi" /\ g \in KindOf(ToSet(Args(Read(v))), "func")
      BY <1>3, <1>4, <3>1 DEF KindOf
    <3>3. callee[v] = Read(v)
      BY <2>2, <3>2 DEF CalleesRight
    <3> QED BY <3>2, <3>3
  <2> QED BY <2>1, <2>2
<1>6. Results(TaskOf(v)) = getCallInst(v)
  BY <1>1 DEF Results, TaskOf
<1>7. Results(TaskOf(v)).tasks = Task("arg", KindOf(given, "arg"))
  BY <1>6 DEF getCallInst, Found
<1> HIDE DEF callees
<1>8. w \in given
  BY <1>2, <1>5
<1> HIDE DEF given
<1>9. TaskOf(w) \in Results(TaskOf(v)).tasks
  BY <1>3, <1>7, <1>8, TaskIn
<1> QED BY <1>3, <1>9 DEF Takes, TaskOf, Procs

\* Whatever source a task has, it takes care of it.
LEMMA FollowsSource ==
  ASSUME IsModule(module), callee \in [Calls -> Values], CalleesRight,
         NEW v \in Values, NEW may \in SUBSET Pairs,
         NEW w \in Sources(v, may), Follows(v, w, may)
  PROVE  /\ Kind(v) \in {"phi", "arg", "load", "call"}
         /\ \/ Takes(TaskOf(v), w)
            \/ \E t \in Results(TaskOf(v)).tasks : Takes(t, w) /\ Kind(w) = "func"
<1>1. Kind(v) \in {"phi", "arg", "load", "call"}
  BY DEF Sources
<1>2. Kind(v) = "call" => v \in Calls
  BY DEF Calls, KindOf
<1> QED BY <1>1, <1>2, FollowsPhi, FollowsArg, FollowsLoad, FollowsCall

\* The pass finds every function that the callee of a followed call may be: by the
\* leastness of MayBe, of the values that it follows.
LEMMA Finds ==
  ASSUME IsModule(module), callee \in [Calls -> Values], CalleesRight,
         NEW c \in Calls, callee[c] = Read(c), Indirect(c), Followed(c, MayBe)
  PROVE  Image(Read(c), MayBe) \subseteq
           UNION {Results(t).values : t \in Following(getFunc(c))}
<1> DEFINE T == Following(getFunc(c))
           values == UNION {Results(t).values : t \in T}
           r == Read(c)
<1>1. r \in Values /\ Kind(r) # "func"
  BY CallOperands DEF Indirect, getCalledFunction, KindOf
<1>2. MayBe \in SUBSET Pairs /\ Own \subseteq MayBe /\ More(MayBe) = MayBe
  BY MayBeLeast
<1>3. PICK S \in SUBSET Values :
        /\ r \in S
        /\ \A v \in S : \A w \in Sources(v, MayBe) : w \in S /\ Follows(v, w, MayBe)
  BY <1>2, AllSources
<1>4. /\ getFunc(c) \in SUBSET AllTasks
      /\ Kind(r) \in {"phi", "arg", "load", "call"} => TaskOf(r) \in getFunc(c)
  BY <1>1 DEF getFunc, Task, KindOf, AllTasks, TaskOf, Procs
<1>5. /\ getFunc(c) \subseteq T
      /\ \A t \in T : Results(t).tasks \subseteq T
  BY <1>4, FollowsAll
<1> HIDE DEF T
<1>6. \A t \in T : \A w : Takes(t, w) /\ Kind(w) = "func" => w \in values
  BY DEF Takes, Procs
<1> HIDE DEF values, r
<1> DEFINE K == {e \in MayBe :
                   /\ e[1] \in S /\ TaskOf(e[1]) \in T => e[2] \in values
                   /\ Kind(e[1]) \notin {"phi", "arg", "load", "call"} =>
                        Kind(e[1]) = "func" /\ e[2] = e[1]}
<1>7. \A v, f : <<v, f>> \in K <=>
        /\ <<v, f>> \in MayBe
        /\ v \in S /\ TaskOf(v) \in T => f \in values
        /\ Kind(v) \notin {"phi", "arg", "load", "call"} => Kind(v) = "func" /\ f = v
  OBVIOUS
<1>8. K \in SUBSET Pairs /\ K \in SUBSET MayBe
  BY <1>2
<1> HIDE DEF K
<1>9. Own \subseteq K
  <2> SUFFICES ASSUME NEW f \in Functions PROVE <<f, f>> \in K
    BY DEF Own
  <2>1. Kind(f) = "func" /\ <<f, f>> \in MayBe
    BY <1>2 DEF Own, Functions, KindOf
  <2>2. TaskOf(f) \notin T
    <3>1. \A t \in T : t.proc \in Procs
      BY <1>4, FollowsAll DEF T, AllTasks
    <3> QED BY <2>1, <3>1 DEF TaskOf, Procs
  <2> QED BY <1>7, <2>1, <2>2
<1>10. ASSUME NEW X \in SUBSET K PROVE More(X) \subseteq K
  <2>1. X \in SUBSET MayBe /\ X \in SUBSET Pairs
    BY <1>8
  <2>2. More(X) \subseteq MayBe
    BY <1>2, <2>1, MoreKnown
  <2>3. ASSUME NEW v \in Values, NEW w \in Sources(v, X), NEW f \in Image(w, X)
        PROVE  <<v, f>> \in K
    <3>1. <<v, f>> \in More(X)
      BY DEF More
    <3>2. <<w, f>> \in K
      BY <2>1, ImageOf
    <3>3. w \in Sources(v, MayBe)
      BY <1>2, <2>1, SourcesKnown
    <3>4. Kind(v) \in {"phi", "arg", "load", "call"}
      BY DEF Sources
    <3>5. ASSUME v \in S, TaskOf(v) \in T PROVE f \in values
      <4>1. w \in S /\ Follows(v, w, MayBe)
        BY <1>3, <3>3, <3>5
      <4>2. \/ Takes(TaskOf(v), w)
            \/ \E t \in Results(TaskOf(v)).tasks : Takes(t, w) /\ Kind(w) = "func"
        BY <1>2, <3>3, <4>1, FollowsSource
      <4>3. PICK t \in T : Takes(t, w)
        BY <1>5, <3>5, <4>2
      <4>4. CASE Kind(w) = "null"
        BY <1>7, <3>2, <4>4
      <4>5. CASE Kind(w) = "func"
        BY <1>6, <1>7, <3>2, <4>3, <4>5
      <4>6. CASE TaskOf(w) \in Results(t).tasks
        BY <1>5, <1>7, <3>2, <4>1, <4>3, <4>6
      <4> QED BY <4>3, <4>4, <4>5, <4>6 DEF Takes, TaskOf
    <3> QED BY <1>7, <2>2, <3>1, <3>4, <3>5
  <2> QED BY <2>3 DEF More
<1>11. MayBe \subseteq K
  BY <1>8, <1>9, <1>10, MayBeLeast
<1>12. ASSUME NEW f \in Image(r, MayBe) PROVE f \in values
  <2>1. <<r, f>> \in K
    BY <1>2, <1>11, <1>12, ImageOf
  <2>2. Kind(r) \in {"phi", "arg", "load", "call"}
    BY <1>1, <1>7, <2>1
  <2> QED BY <1>3, <1>4, <1>5, <1>7, <2>1, <2>2
<1> QED BY <1>12 DEF values, r, T

-----------------------------------------------------------------------------
(* The steps.                                                              *)

\* What the module does is not changed by a step.
LEMMA SameModule ==
  ASSUME module' = module
  PROVE  /\ MayBe' = MayBe /\ Values' = Values /\ Calls' = Calls
         /\ \A c, may : Followed(c, may)' <=> Followed(c, may)
         /\ \A v : Kind(v)' = Kind(v) /\ Args(v)' = Args(v) /\ Read(v)' = Read(v)
<1>1. Values' = Values /\ Calls' = Calls
  BY DEF Values, Calls, KindOf, Kind
<1>2. MayBe' = MayBe
  BY DEF MayBe, Values, Calls, KindOf, Kind, Args, Read, Sources, StoredIn, CallsOf, Image, Same,
         Passes
<1>3. \A c, may : Followed(c, may)' <=> Followed(c, may)
  BY DEF Followed, Follows, Values, Calls, KindOf, Kind, Args, Read, Sources, StoredIn, CallsOf,
         Image, Same, Passes
<1>4. \A v : Kind(v)' = Kind(v) /\ Args(v)' = Args(v) /\ Read(v)' = Read(v)
  BY DEF Kind, Args, Read
<1> QED BY <1>1, <1>2, <1>3, <1>4

Typed ==
  /\ module \in Module
  /\ pc # "crashed" => callee \in [Calls -> Values]
  /\ call_list \subseteq Values \cup {"NULL"} /\ IsFiniteSet(_call_list)
  /\ displayed \in Seq(SUBSET (Values \cup {"NULL"}))
  /\ next = Len(displayed) + 1 /\ next <= Len(module.code) + 1
  /\ pc = "done" => next = Len(module.code) + 1

\* The calls to come are as they were read.
ToCome == \A i \in next..Len(module.code) : callee[module.code[i]] = Read(module.code[i])

\* Those the pass came to were displayed with all that they may call, ...
Listed ==
  \A i \in 1..Len(displayed) :
    Followed(module.code[i], MayBe) => Image(Read(module.code[i]), MayBe) \subseteq displayed[i]

\* ... and if they were replaced, that is all that they may call.
Replaced ==
  \A c \in Calls :
    callee[c] # Read(c) /\ Followed(c, MayBe) => Image(Read(c), MayBe) \subseteq {callee[c]}

\* What took the place of a pointer was displayed alone, but for null: the names
\* displayed are those of the values kept.
Shown ==
  /\ call_list \ {"NULL"} \subseteq _call_list
  /\ \A i \in 1..Len(displayed) :
       callee[module.code[i]] # Read(module.code[i]) =>
         displayed[i] \subseteq {callee[module.code[i]], "NULL"}

IInv == Typed /\ CalleesRight /\ ToCome /\ Listed /\ Replaced /\ Shown

\* A call was right to replace, whatever replaced it.
LEMMA CalleesFrom ==
  ASSUME module' = module,
         \A c \in Calls : callee'[c] # Read(c) =>
           /\ Kind(Read(c)) # "func"
           /\ Kind(Read(c)) = "phi"
                => KindOf(ToSet(Args(Read(c))), "func") \subseteq {callee'[c]}
           /\ Followed(c, MayBe) => Image(Read(c), MayBe) \subseteq {callee'[c]}
  PROVE  CalleesRight' /\ Replaced'
<1>1. /\ MayBe' = MayBe /\ Calls' = Calls
      /\ \A c, may : Followed(c, may)' <=> Followed(c, may)
      /\ \A v : Kind(v)' = Kind(v) /\ Args(v)' = Args(v) /\ Read(v)' = Read(v)
  BY SameModule
<1>2. \A c : KindOf(ToSet(Args(Read(c))), "func")' = KindOf(ToSet(Args(Read(c))), "func")
  BY <1>1 DEF KindOf
<1>3. \A c : Image(Read(c), MayBe)' = Image(Read(c), MayBe)
  BY <1>1 DEF Image
<1>4. CalleesRight'
  BY <1>1, <1>2 DEF CalleesRight
<1>5. Replaced'
  BY <1>1, <1>3 DEF Replaced
<1> QED BY <1>4, <1>5

\* The facts that hold while the pass runs.
LEMMA CallAtHand ==
  ASSUME IInv, pc = "running", next <= Len(module.code)
  PROVE  /\ IsModule(module) /\ callee \in [Calls -> Values]
         /\ module.code \in Seq(Calls) /\ next \in 1..Len(module.code)
         /\ Call \in Calls /\ callee[Call] = Read(Call)
<1>1. IsModule(module) /\ callee \in [Calls -> Values]
  BY ModuleAssumption DEF IInv, Typed
<1>2. module.code \in Seq(Calls)
  BY <1>1, ModuleFacts
<1>3. next \in 1..Len(module.code)
  BY <1>2 DEF IInv, Typed
<1> QED BY <1>1, <1>2, <1>3 DEF IInv, ToCome, Call

\* A set is displayed for one more call, and the parts of the invariant that speak of
\* the calls displayed, and to come, follow.
LEMMA DisplayOne ==
  ASSUME IInv, pc = "running", next <= Len(module.code), module' = module, next' = next + 1,
         NEW S \in SUBSET (Values \cup {"NULL"}), displayed' = Append(displayed, S),
         Followed(Call, MayBe) => Image(Read(Call), MayBe) \subseteq S,
         callee'[Call] # Read(Call) => S \subseteq {callee'[Call], "NULL"},
         call_list' \ {"NULL"} \subseteq _call_list',
         \A c \in Calls : c # Call => callee'[c] = callee[c]
  PROVE  /\ displayed' \in Seq(SUBSET (Values \cup {"NULL"}))
         /\ next' = Len(displayed') + 1 /\ next' <= Len(module.code) + 1
         /\ ToCome' /\ Listed' /\ Shown'
<1>1. /\ module.code \in Seq(Calls) /\ IsInjective(module.code)
      /\ next \in 1..Len(module.code) /\ Call = module.code[next]
  BY CallAtHand, ModuleFacts DEF Call
<1>2. /\ displayed \in Seq(SUBSET (Values \cup {"NULL"})) /\ next = Len(displayed) + 1
  BY DEF IInv, Typed
<1>3. /\ displayed' \in Seq(SUBSET (Values \cup {"NULL"})) /\ Len(displayed') = Len(displayed) + 1
      /\ \A i \in 1..Len(displayed) : displayed'[i] = displayed[i]
      /\ displayed'[next] = S
  BY <1>2
<1>4. ASSUME NEW i \in 1..Len(displayed'), Followed(module.code[i], MayBe)
      PROVE  Image(Read(module.code[i]), MayBe) \subseteq displayed'[i]
  <2>1. CASE i = next
    BY <1>1, <1>3, <1>4, <2>1
  <2>2. CASE i # next
    <3>1. i \in 1..Len(displayed)
      BY <1>2, <1>3, <2>2
    <3> QED BY <1>3, <1>4, <3>1 DEF IInv, Listed
  <2> QED BY <2>1, <2>2
<1>5. Listed'
  BY <1>4, SameModule DEF Listed, Image
<1>6. ASSUME NEW i \in (next + 1)..Len(module.code)
      PROVE  callee'[module.code[i]] = Read(module.code[i])
  <2>1. /\ i \in next..Len(module.code) /\ i # next /\ i \in DOMAIN module.code
        /\ next \in DOMAIN module.code /\ module.code[i] \in Calls
    BY <1>1
  <2>2. module.code[i] # Call
    BY <1>1, <2>1 DEF IsInjective
  <2> QED BY <2>1, <2>2 DEF IInv, ToCome
<1>7. ToCome'
  BY <1>6, SameModule DEF ToCome
<1>8. ASSUME NEW i \in 1..Len(displayed'), callee'[module.code[i]] # Read(module.code[i])
      PROVE  displayed'[i] \subseteq {callee'[module.code[i]], "NULL"}
  <2>1. CASE i = next
    BY <1>1, <1>3, <1>8, <2>1
  <2>2. CASE i # next
    <3>1. i \in 1..Len(displayed) /\ i \in DOMAIN module.code /\ next \in DOMAIN module.code
      BY <1>1, <1>2, <1>3, <2>2
    <3>2. module.code[i] # Call /\ module.code[i] \in Calls
      BY <1>1, <2>2, <3>1 DEF IsInjective
    <3>3. callee'[module.code[i]] = callee[module.code[i]]
      BY <3>2
    <3> QED BY <1>3, <1>8, <3>1, <3>3 DEF IInv, Shown
  <2> QED BY <2>1, <2>2
<1>9. Shown'
  BY <1>8, SameModule DEF Shown
<1> QED BY <1>1, <1>2, <1>3, <1>5, <1>7, <1>9

\* What the pass finds for a call.
LEMMA FoundKnown ==
  ASSUME IsModule(module), callee \in [Calls -> Values], NEW c \in Calls
  PROVE  UNION {Results(t).values : t \in Following(getFunc(c))} \subseteq Values
<1>1. getFunc(c) \in SUBSET AllTasks
  <2>1. callee[c] \in Values
    OBVIOUS
  <2> QED BY <2>1 DEF getFunc, Task, KindOf, AllTasks, Procs
<1> QED BY <1>1, FollowsAll, ResultsKnown

\* The functions found join the lists.
LEMMA ListsFound ==
  ASSUME IsModule(module), NEW values \in SUBSET Values, NEW nulls, nulls = KindOf(values, "null"),
         NEW func, NEW shown \in SUBSET {"NULL"}, NEW added \in SUBSET {func},
         call_list \subseteq Values \cup {"NULL"}, IsFiniteSet(_call_list),
         call_list \ {"NULL"} \subseteq _call_list,
         call_list' = call_list \cup (values \ nulls) \cup shown,
         _call_list' = _call_list \cup (values \ nulls) \cup added
  PROVE  /\ call_list' \subseteq Values \cup {"NULL"} /\ IsFiniteSet(_call_list')
         /\ KindOf(values, "func") \subseteq call_list'
         /\ KindOf(values, "func") \subseteq _call_list'
         /\ call_list' \ {"NULL"} \subseteq _call_list'
<1>1. IsFiniteSet(values \ nulls)
  <2>1. IsFiniteSet(Values) /\ values \ nulls \in SUBSET Values
    BY ModuleFacts
  <2> QED BY <2>1, FS_Subset
<1>2. IsFiniteSet(added)
  BY FS_Singleton, FS_Subset
<1>3. KindOf(values, "func") \subseteq values \ nulls
  BY DEF KindOf
<1>4. IsFiniteSet(_call_list')
  <2>1. IsFiniteSet(_call_list \cup (values \ nulls))
    BY <1>1, FS_Union
  <2> QED BY <1>2, <2>1, FS_Union
<1> QED BY <1>3, <1>4

\* A function may be called as itself only.
LEMMA FunctionIsItself ==
  ASSUME IsModule(module), NEW r \in Values, Kind(r) = "func"
  PROVE  Image(r, MayBe) \subseteq {r}
<1> DEFINE K == {e \in MayBe : e[1] = r => e[2] = r}
<1>1. MayBe \in SUBSET Pairs /\ Own \subseteq MayBe /\ More(MayBe) = MayBe
  BY MayBeLeast
<1>2. \A v, f : <<v, f>> \in K <=> <<v, f>> \in MayBe /\ (v = r => f = r)
  OBVIOUS
<1>3. K \in SUBSET MayBe /\ K \in SUBSET Pairs
  BY <1>1
<1> HIDE DEF K
<1>4. Own \subseteq K
  BY <1>1, <1>2 DEF Own
<1>5. ASSUME NEW X \in SUBSET K PROVE More(X) \subseteq K
  <2>1. X \in SUBSET MayBe /\ X \in SUBSET Pairs
    BY <1>3
  <2>2. More(X) \subseteq MayBe
    BY <1>1, <2>1, MoreKnown
  <2>3. Sources(r, X) = {}
    BY DEF Sources
  <2>4. ASSUME NEW v \in Values, NEW w \in Sources(v, X), NEW f \in Image(w, X)
        PROVE  <<v, f>> \in K
    <3>1. <<v, f>> \in More(X)
      BY DEF More
    <3> QED BY <1>2, <2>2, <2>3, <3>1
  <2> QED BY <2>4 DEF More
<1>6. MayBe \subseteq K
  BY <1>3, <1>4, <1>5, MayBeLeast
<1>7. ASSUME NEW f \in Image(r, MayBe) PROVE f = r
  <2>1. <<r, f>> \in MayBe
    BY <1>1, <1>7, ImageOf
  <2> QED BY <1>2, <1>6, <2>1
<1> QED BY <1>7

\* A direct call is displayed, and nothing is replaced.
LEMMA DisplayKeeps ==
  ASSUME IInv, DisplayDirect
  PROVE  IInv'
<1>1. /\ module' = module /\ callee' = callee /\ pc = "running" /\ pc' = pc
      /\ call_list' = call_list /\ _call_list' = _call_list
      /\ next' = next + 1 /\ displayed' = Append(displayed, {callee[Call]})
      /\ next <= Len(module.code) /\ ~Indirect(Call)
  BY DEF DisplayDirect
<1>2. /\ IsModule(module) /\ callee \in [Calls -> Values]
      /\ Call \in Calls /\ callee[Call] = Read(Call) /\ callee[Call] \in Values
  BY <1>1, CallAtHand
<1>3. Kind(callee[Call]) = "func"
  BY <1>1 DEF Indirect, getCalledFunction, KindOf
<1>4. Image(Read(Call), MayBe) \subseteq {callee[Call]}
  BY <1>2, <1>3, FunctionIsItself
<1>5. /\ {callee[Call]} \in SUBSET (Values \cup {"NULL"})
      /\ call_list' \ {"NULL"} \subseteq _call_list'
  BY <1>1, <1>2 DEF IInv, Shown
<1>6. /\ displayed' \in Seq(SUBSET (Values \cup {"NULL"}))
      /\ next' = Len(displayed') + 1 /\ next' <= Len(module.code) + 1
      /\ ToCome' /\ Listed' /\ Shown'
  BY <1>1, <1>2, <1>4, <1>5, DisplayOne
<1>7. CalleesRight' /\ Replaced'
  BY <1>1, CalleesFrom DEF IInv, CalleesRight, Replaced
<1>8. Typed'
  BY <1>1, <1>6, SameModule DEF IInv, Typed
<1> QED BY <1>6, <1>7, <1>8 DEF IInv

\* An indirect call: all that it may call is found, and displayed, and if it is
\* replaced, that is by the only one found.
LEMMA ResolveKeeps ==
  ASSUME IInv, Resolve
  PROVE  IInv'
<1>1. /\ module' = module /\ pc = "running" /\ next' = next + 1
      /\ next <= Len(module.code) /\ Indirect(Call)
      /\ displayed' = Append(displayed, call_list')
  BY DEF Resolve
<1>2. /\ IsModule(module) /\ callee \in [Calls -> Values]
      /\ Call \in Calls /\ callee[Call] = Read(Call) /\ callee[Call] \in Values
  BY <1>1, CallAtHand
<1> DEFINE values == UNION {Results(t).values : t \in Following(getFunc(Call))}
           single == Only(_call_list')
<1>3. /\ call_list' \subseteq Values \cup {"NULL"} /\ IsFiniteSet(_call_list')
      /\ KindOf(values, "func") \subseteq call_list'
      /\ KindOf(values, "func") \subseteq _call_list'
      /\ call_list' \ {"NULL"} \subseteq _call_list'
  <2> DEFINE nulls == KindOf(values, "null")
  <2>1. values \in SUBSET Values
    BY <1>2, FoundKnown
  <2>2. PICK func :
          /\ call_list' = call_list \cup (values \ nulls) \cup {"NULL" : n \in nulls}
          /\ _call_list' = _call_list \cup (values \ nulls) \cup {func : n \in nulls}
    BY DEF Resolve
  <2>3. /\ call_list \subseteq Values \cup {"NULL"} /\ IsFiniteSet(_call_list)
        /\ call_list \ {"NULL"} \subseteq _call_list
    BY DEF IInv, Typed, Shown
  <2> HIDE DEF values
  <2> DEFINE shown == {"NULL" : n \in nulls}
             added == {func : n \in nulls}
  <2>4. nulls = KindOf(values, "null") /\ shown \in SUBSET {"NULL"} /\ added \in SUBSET {func}
    OBVIOUS
  <2>5. /\ call_list' = call_list \cup (values \ nulls) \cup shown
        /\ _call_list' = _call_list \cup (values \ nulls) \cup added
    BY <2>2
  <2> HIDE DEF nulls, shown, added
  <2> QED BY <1>2, <2>1, <2>3, <2>4, <2>5, ListsFound
<1>4. /\ callee' = [callee EXCEPT ![Call] = IF single = {} THEN @ ELSE CHOOSE v \in single : TRUE]
      /\ pc' = IF single \subseteq Values THEN "running" ELSE "crashed"
  <2> HIDE DEF values
  <2>1. callee' = [callee EXCEPT ![Call] = IF single = {} THEN @ ELSE CHOOSE v \in single : TRUE]
    BY Zenon DEF Resolve
  <2>2. pc' = IF single \subseteq Values THEN "running" ELSE "crashed"
    BY Zenon DEF Resolve
  <2> QED BY <2>1, <2>2
<1>5. single = {} \/ \E x : single = {x} /\ _call_list' = {x}
  BY <1>3, FS_Singleton DEF Only
<1>6. /\ \A c \in Calls : c # Call => callee'[c] = callee[c]
      /\ callee'[Call] # Read(Call) => /\ KindOf(values, "func") \subseteq {callee'[Call]}
                                       /\ call_list' \subseteq {callee'[Call], "NULL"}
      /\ pc' # "crashed" => callee' \in [Calls -> Values]
  <2> HIDE DEF single, values
  <2>1. CASE single = {}
    BY <1>2, <1>4, <2>1
  <2>2. CASE single # {}
    <3>1. PICK x : single = {x} /\ _call_list' = {x}
      BY <1>5, <2>2
    <3>2. callee' = [callee EXCEPT ![Call] = x]
      BY <1>4, <3>1
    <3> QED BY <1>2, <1>3, <1>4, <3>1, <3>2
  <2> QED BY <2>1, <2>2
<1>7. Kind(Read(Call)) # "func"
  BY <1>1, <1>2 DEF Indirect, getCalledFunction, KindOf
<1>8. Followed(Call, MayBe) => Image(Read(Call), MayBe) \subseteq KindOf(values, "func")
  <2> SUFFICES ASSUME Followed(Call, MayBe), NEW f \in Image(Read(Call), MayBe)
               PROVE  f \in KindOf(values, "func")
    OBVIOUS
  <2>1. f \in values
    BY <1>1, <1>2, Finds DEF IInv
  <2>2. MayBe \in SUBSET Pairs
    BY <1>2, MayBeLeast
  <2>3. Kind(f) = "func"
    BY <2>2, ImageOf DEF Functions, KindOf
  <2> HIDE DEF values
  <2> QED BY <2>1, <2>3 DEF KindOf
<1>9. Kind(Read(Call)) = "phi"
        => KindOf(ToSet(Args(Read(Call))), "func") \subseteq KindOf(values, "func")
  <2> SUFFICES ASSUME Kind(Read(Call)) = "phi"
               PROVE  KindOf(ToSet(Args(Read(Call))), "func") \subseteq KindOf(values, "func")
    OBVIOUS
  <2> DEFINE t == TaskOf(Read(Call))
  <2>1. getFunc(Call) \in SUBSET AllTasks /\ t \in getFunc(Call)
    BY <1>2 DEF getFunc, Task, KindOf, AllTasks, TaskOf, Procs
  <2>2. t \in Following(getFunc(Call))
    BY <1>2, <2>1, FollowsAll
  <2>3. KindOf(ToSet(Args(Read(Call))), "func") \subseteq Results(t).values
    BY DEF Results, TaskOf, getPhiNode, Found
  <2>4. KindOf(ToSet(Args(Read(Call))), "func") \subseteq values
    BY <2>2, <2>3
  <2> HIDE DEF values
  <2> QED BY <2>4 DEF KindOf
<1> HIDE DEF values
<1>10. call_list' \in SUBSET (Values \cup {"NULL"})
  BY <1>3
<1>11. Followed(Call, MayBe) => Image(Read(Call), MayBe) \subseteq call_list'
  BY <1>3, <1>8
<1>12. /\ displayed' \in Seq(SUBSET (Values \cup {"NULL"}))
       /\ next' = Len(displayed') + 1 /\ next' <= Len(module.code) + 1
       /\ ToCome' /\ Listed' /\ Shown'
  BY <1>1, <1>3, <1>6, <1>10, <1>11, DisplayOne
<1>13. ASSUME NEW c \in Calls, callee'[c] # Read(c)
       PROVE  /\ Kind(Read(c)) # "func"
              /\ Kind(Read(c)) = "phi"
                   => KindOf(ToSet(Args(Read(c))), "func") \subseteq {callee'[c]}
              /\ Followed(c, MayBe) => Image(Read(c), MayBe) \subseteq {callee'[c]}
  <2>1. CASE c = Call
    BY <1>6, <1>7, <1>8, <1>9, <1>13, <2>1
  <2>2. CASE c # Call
    BY <1>6, <1>13, <2>2 DEF IInv, CalleesRight, Replaced
  <2> QED BY <2>1, <2>2
<1>14. CalleesRight' /\ Replaced'
  BY <1>1, <1>13, CalleesFrom
<1>15. Typed'
  <2>1. pc' \in {"running", "crashed"}
    BY <1>4
  <2> QED BY <1>1, <1>3, <1>6, <1>12, <2>1, SameModule DEF IInv, Typed
<1> QED BY <1>12, <1>14, <1>15 DEF IInv

\* What the pass displays and replaces is right, for every module.
THEOREM Invariance == Spec => []IInv
<1>1. Init => IInv
  <2> SUFFICES ASSUME Init PROVE IInv
    OBVIOUS
  <2>1. IsModule(module)
    BY ModuleAssumption DEF Init
  <2>2. \A c \in Calls : callee[c] = Read(c) /\ Read(c) \in Values
    BY <2>1, CallOperands DEF Init, Calls, KindOf, Values, Kind, Read, Args
  <2>3. callee \in [Calls -> Values]
    <3>1. callee = [c \in Calls |-> Last(module.values[c].args)]
      BY DEF Init, Calls, KindOf, Values, Kind
    <3> QED BY <2>2, <3>1
  <2>4. module.code \in Seq(Calls)
    BY <2>1, ModuleFacts
  <2>5. ToCome
    <3>1. next = 1 /\ \A i \in 1..Len(module.code) : module.code[i] \in Calls
      BY <2>4 DEF Init
    <3> QED BY <2>2, <3>1 DEF ToCome
  <2>6. Typed
    BY <2>3, <2>4, FS_EmptySet DEF Init, Typed
  <2>7. Listed
    BY DEF Init, Listed
  <2>8. Shown
    BY DEF Init, Shown
  <2> QED BY <2>2, <2>5, <2>6, <2>7, <2>8 DEF IInv, CalleesRight, Replaced
<1>2. IInv /\ [Next]_vars => IInv'
  <2> SUFFICES ASSUME IInv, [Next]_vars PROVE IInv'
    OBVIOUS
  <2>1. ASSUME module' = module, callee' = callee,
               call_list' = call_list, _call_list' = _call_list, next' = next,
               displayed' = displayed, pc' \in {pc, "overflow", "done"},
               pc # pc' => pc = "running", pc' = "done" => next = Len(module.code) + 1
        PROVE  IInv'
    <3>1. CalleesRight' /\ Replaced'
      BY <2>1, CalleesFrom DEF IInv, CalleesRight, Replaced
    <3>2. ToCome'
      BY <2>1, SameModule DEF IInv, ToCome
    <3>3. Listed'
      BY <2>1, SameModule DEF IInv, Listed, Image
    <3>4. Typed'
      BY <2>1, SameModule DEF IInv, Typed
    <3>5. Shown'
      BY <2>1, SameModule DEF IInv, Shown
    <3> QED BY <3>1, <3>2, <3>3, <3>4, <3>5 DEF IInv
  <2>2. CASE Overflow
    BY <2>1, <2>2 DEF Overflow
  <2>3. CASE End
    BY <2>1, <2>3 DEF End
  <2>4. CASE UNCHANGED vars
    BY <2>1, <2>4 DEF vars, IInv, Typed
  <2> QED BY <2>2, <2>3, <2>4, DisplayKeeps, ResolveKeeps DEF Next, Stopped
<1> QED BY <1>1, <1>2, PTL DEF Spec

\* Every function that a call may call is displayed for it, if its callee comes from
\* sources that the pass follows.
THEOREM AllListed == Spec => []ListsAll
<1>1. IInv => ListsAll
  <2> SUFFICES ASSUME IInv, NEW i \in DOMAIN displayed, Followed(module.code[i], MayBe)
               PROVE  Image(Read(module.code[i]), MayBe) \subseteq displayed[i]
    BY DEF ListsAll
  <2>1. i \in 1..Len(displayed)
    BY DEF IInv, Typed
  <2> QED BY <2>1 DEF IInv, Listed
<1> QED BY <1>1, Invariance, PTL

\* A call that may call some function, all by sources that the pass follows, is
\* replaced only by its only one, and no other was displayed for it.
THEOREM OnlyTheOne == Spec => []ReplacesRight
<1>1. IInv => ReplacesRight
  <2> SUFFICES ASSUME IInv, pc = "done", NEW i \in DOMAIN displayed, NEW c, c = module.code[i],
                      callee[c] # Read(c), Followed(c, MayBe), Image(Read(c), MayBe) # {}
               PROVE  /\ Image(Read(c), MayBe) = {callee[c]}
                      /\ displayed[i] \in {{callee[c]}, {callee[c], "NULL"}}
    BY DEF ReplacesRight
  <2>1. i \in 1..Len(displayed) /\ i \in 1..Len(module.code)
    BY DEF IInv, Typed
  <2>2. c \in Calls
    <3>1. module.code \in Seq(Calls)
      BY ModuleAssumption, ModuleFacts DEF IInv, Typed
    <3> QED BY <2>1, <3>1
  <2>3. Image(Read(c), MayBe) = {callee[c]}
    BY <2>2 DEF IInv, Replaced
  <2>4. callee[c] \in displayed[i]
    BY <2>1, <2>3 DEF IInv, Listed
  <2>5. displayed[i] \subseteq {callee[c], "NULL"}
    BY <2>1 DEF IInv, Shown
  <2> QED BY <2>3, <2>4, <2>5
<1> QED BY <1>1, Invariance, PTL
=============================================================================
