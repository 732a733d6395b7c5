------------------------ MODULE LiveVariable_proofs -------------------------
(***************************************************************************)
(* Proofs about the live variable analysis, for every set of functions.    *)
(***************************************************************************)
EXTENDS LiveVariable, FiniteSetTheorems, TLAPS

-----------------------------------------------------------------------------
(* Facts about functions and sequences.                                    *)

\* An instruction is named by its block and its place in the block.
LEMMA InstrElement ==
  ASSUME NEW f, NEW b \in f.block, NEW i \in 1..f.len[b]
  PROVE  <<b, i>> \in Instr(f)
BY DEF Instr

LEMMA InstrPlace ==
  ASSUME NEW f, NEW b, NEW i, <<b, i>> \in Instr(f)
  PROVE  b \in f.block /\ i \in 1..f.len[b]
BY DEF Instr

LEMMA InstrCases ==
  ASSUME NEW f, NEW q \in Instr(f)
  PROVE  \E b \in f.block : \E i \in 1..f.len[b] : q = <<b, i>>
BY DEF Instr

LEMMA PositionElement ==
  ASSUME NEW f, NEW b \in f.block, NEW i \in 1..(f.len[b] + 1)
  PROVE  <<b, i>> \in Position(f)
BY DEF Position

LEMMA PositionCases ==
  ASSUME NEW f, NEW q \in Position(f)
  PROVE  \E b \in f.block : \E i \in 1..(f.len[b] + 1) : q = <<b, i>>
BY DEF Position

\* What an instruction defines, reads and reads through a phi node are values.
LEMMA OperandTypes ==
  ASSUME NEW f, IsFunction(f), NEW b \in f.block, NEW i \in 1..f.len[b]
  PROVE  /\ Use(f, b, i) \subseteq Value(f)
         /\ \A p \in f.block : PhiUse(f, b, i, p) \subseteq Value(f)
BY InstrElement DEF Use, PhiUse, IsFunction

LEMMA TailRange ==
  ASSUME NEW S, NEW s \in Seq(S), s # <<>>
  PROVE  /\ Tail(s) \in Seq(S)
         /\ Head(s) \in S
         /\ Range(s) = Range(Tail(s)) \cup {Head(s)}
<1>1. /\ Tail(s) \in Seq(S)
      /\ Head(s) \in S
      /\ Len(Tail(s)) = Len(s) - 1
      /\ \A i \in 1..Len(Tail(s)) : Tail(s)[i] = s[i + 1]
  BY SMT
<1>2. Range(s) \subseteq Range(Tail(s)) \cup {Head(s)}
  <2> SUFFICES ASSUME NEW i \in 1..Len(s), s[i] # Head(s)
               PROVE  s[i] \in Range(Tail(s))
    BY DEF Range
  <2>1. i # 1
    OBVIOUS
  <2>2. i - 1 \in 1..Len(Tail(s)) /\ Tail(s)[i - 1] = s[i]
    BY <1>1, <2>1
  <2>3. i - 1 \in DOMAIN Tail(s)
    BY <1>1, <2>2
  <2> QED
    BY <2>2, <2>3 DEF Range
<1>3. Range(Tail(s)) \cup {Head(s)} \subseteq Range(s)
  <2>1. Head(s) = s[1] /\ 1 \in 1..Len(s)
    OBVIOUS
  <2>2. \A i \in 1..Len(Tail(s)) : i + 1 \in 1..Len(s)
    BY <1>1
  <2> QED
    BY <1>1, <2>1, <2>2 DEF Range
<1> QED
  BY <1>1, <1>2, <1>3

LEMMA ConcatRange ==
  ASSUME NEW S, NEW s \in Seq(S), NEW t \in Seq(S)
  PROVE  /\ s \o t \in Seq(S)
         /\ Range(s \o t) = Range(s) \cup Range(t)
<1>1. /\ s \o t \in Seq(S)
      /\ Len(s \o t) = Len(s) + Len(t)
      /\ \A i \in 1..Len(s) : (s \o t)[i] = s[i]
      /\ \A i \in 1..Len(t) : (s \o t)[Len(s) + i] = t[i]
  BY SMT
<1>2. Range(s \o t) \subseteq Range(s) \cup Range(t)
  <2> SUFFICES ASSUME NEW i \in 1..(Len(s) + Len(t))
               PROVE  (s \o t)[i] \in Range(s) \cup Range(t)
    BY <1>1 DEF Range
  <2>1. CASE i <= Len(s)
    BY <1>1, <2>1 DEF Range
  <2>2. CASE i > Len(s)
    <3>1. i - Len(s) \in 1..Len(t) /\ i = Len(s) + (i - Len(s))
      BY <2>2
    <3> QED
      BY <1>1, <3>1 DEF Range
  <2> QED
    BY <2>1, <2>2
<1>3. Range(s) \cup Range(t) \subseteq Range(s \o t)
  <2>1. \A i \in 1..Len(s) : i \in 1..Len(s \o t)
    BY <1>1
  <2>2. \A i \in 1..Len(t) : Len(s) + i \in 1..Len(s \o t)
    BY <1>1
  <2>3. Range(s) \subseteq Range(s \o t)
    BY <1>1, <2>1 DEF Range
  <2>4. Range(t) \subseteq Range(s \o t)
    <3> SUFFICES ASSUME NEW i \in 1..Len(t) PROVE t[i] \in Range(s \o t)
      BY <1>1 DEF Range
    <3> DEFINE j == Len(s) + i
    <3>1. j \in DOMAIN (s \o t)
      BY <1>1, <2>2
    <3>2. t[i] = (s \o t)[j]
      BY <1>1, <2>2
    <3> QED BY <3>1, <3>2 DEF Range
  <2> QED BY <2>3, <2>4
<1> QED
  BY <1>1, <1>2, <1>3

\* A listing of a set of blocks is a sequence of blocks with exactly its members.
LEMMA ListingRange ==
  ASSUME NEW S, NEW T \in SUBSET S, IsFiniteSet(T), NEW s \in Listings(T)
  PROVE  s \in Seq(S) /\ Range(s) = T
<1>1. Cardinality(T) \in Nat
  BY FS_CardinalityType
<1> QED
  BY <1>1 DEF Listings

-----------------------------------------------------------------------------
(* Type correctness.                                                       *)

LEMMA FunctionFacts ==
  ASSUME TypeOK
  PROVE  /\ IsFunction(fn)
         /\ \A S \in SUBSET fn.block : IsFiniteSet(S)
         /\ \A S \in SUBSET Value(fn) : IsFiniteSet(S) /\ Cardinality(S) \in Nat
<1>1. IsFunction(fn)
  BY FunctionAssumption DEF TypeOK
<1>2. IsFiniteSet(fn.block) /\ IsFiniteSet(Value(fn))
  BY <1>1 DEF IsFunction
<1> QED
  BY <1>1, <1>2, FS_Subset, FS_CardinalityType

\* The type invariant holds in every reachable state: the solver's sets hold
\* values of the function, the worklist its blocks, and the instruction loop of
\* transferFunc and the counting loop of evalFunc stay inside their blocks.
THEOREM TypeCorrect == Spec => []TypeOK
<1>1. Init => TypeOK
  <2> SUFFICES ASSUME Init PROVE TypeOK
    OBVIOUS
  <2>1. IsFunction(fn)
    BY FunctionAssumption DEF Init
  <2>2. Exit(fn) \in SUBSET fn.block /\ IsFiniteSet(Exit(fn))
    BY <2>1, FS_Subset DEF Exit, IsFunction
  <2>3. worklist \in Seq(fn.block)
    BY <2>2, ListingRange DEF Init
  <2> QED
    BY <2>3 DEF Init, TypeOK
<1>2. TypeOK /\ [Next]_vars => TypeOK'
  <2> SUFFICES ASSUME TypeOK, [Next]_vars PROVE TypeOK'
    OBVIOUS
  <2>f. IsFunction(fn)
    BY FunctionFacts
  <2>1. CASE TakeBlock
    <3>1. /\ Tail(worklist) \in Seq(fn.block)
          /\ Head(worklist) \in fn.block
      BY <2>1, TailRange DEF TakeBlock, TypeOK
    <3>2. NewOut(Head(worklist)) \subseteq Value(fn)
      BY <2>f, <3>1 DEF NewOut, TypeOK, IsFunction
    <3>3. <<Head(worklist), fn.len[Head(worklist)]>> \in Instr(fn)
      BY <2>f, <3>1, InstrElement DEF IsFunction
    <3> QED
      BY <2>1, <3>1, <3>2, <3>3 DEF TakeBlock, TypeOK, stats
  <2>2. CASE TransferInstr
    <3>1. /\ cur \in fn.block
          /\ ii \in 1..fn.len[cur]
          /\ fn.len[cur] \in Nat
      <4>1. <<cur, ii>> \in Instr(fn)
        BY <2>2 DEF TransferInstr, TypeOK
      <4>2. cur \in fn.block /\ ii \in 1..fn.len[cur]
        BY <4>1, InstrPlace
      <4> QED
        BY <2>f, <4>2 DEF IsFunction
    <3>2. OutNowIn(cur, ii) \subseteq Value(fn)
      <4>1. CASE ii = fn.len[cur]
        BY <3>1, <4>1 DEF OutNowIn, TypeOK
      <4>2. CASE ii # fn.len[cur]
        <5>1. ii + 1 \in 1..fn.len[cur]
          BY <3>1, <4>2
        <5> QED
          BY <3>1, <4>2, <5>1, InstrElement DEF OutNowIn, TypeOK
      <4> QED
        BY <4>1, <4>2
    <3>3. Transferred(cur, ii) \subseteq Value(fn)
      BY <2>f, <3>1, <3>2, OperandTypes DEF Transferred
    <3>4. \A p \in fn.block : PhiUse(fn, cur, ii, p) \subseteq Value(fn)
      BY <2>f, <3>1, OperandTypes
    <3>5. ii # 1 => <<cur, ii - 1>> \in Instr(fn)
      BY <3>1, InstrElement
    <3> QED
      BY <2>2, <3>3, <3>4, <3>5 DEF TransferInstr, TypeOK, stats
  <2>3. CASE CompareIn
    <3>1. cur \in fn.block
      BY <2>3 DEF CompareIn, TypeOK
    <3>2. <<cur, 1>> \in Instr(fn)
      BY <2>f, <3>1, InstrElement DEF IsFunction
    <3>3. Requeued \in SUBSET fn.block /\ IsFiniteSet(Requeued)
      BY FunctionFacts DEF Requeued, Pred
    <3>4. PICK again \in Listings(Requeued) : worklist' = worklist \o again
      BY <2>3 DEF CompareIn
    <3>5. worklist' \in Seq(fn.block)
      BY <3>3, <3>4, ListingRange, ConcatRange DEF TypeOK
    <3> QED
      BY <2>3, <3>1, <3>2, <3>5 DEF CompareIn, TypeOK, stats
  <2>4. CASE Drained
    BY <2>4 DEF Drained, TypeOK, solver, stats
  <2>5. CASE Finalize
    <3>1. \A b \in fn.block : UNION {nbr[p] : p \in Pred(fn, b)} \subseteq Value(fn)
      BY DEF TypeOK, Pred
    <3>2. <<cur', 1>> \in Instr(fn)
      BY <2>5, <2>f, InstrElement DEF Finalize, IsFunction
    <3> QED
      BY <2>5, <3>1, <3>2 DEF Finalize, TypeOK, stats
  <2>6. CASE Calculate
    <3>1. /\ cur \in fn.block
          /\ ii \in 1..fn.len[cur]
          /\ fn.len[cur] \in Nat
      <4>1. <<cur, ii>> \in Instr(fn)
        BY <2>6 DEF Calculate, TypeOK
      <4>2. cur \in fn.block /\ ii \in 1..fn.len[cur]
        BY <4>1, InstrPlace
      <4> QED
        BY <2>f, <4>2 DEF IsFunction
    <3>2. Cardinality(instrIn[<<cur, ii>>]) \in Nat
      BY <2>6, FunctionFacts DEF Calculate, TypeOK
    <3>3. ASSUME NEW c \in Nat
          PROVE  /\ Bound(c) \in Nat
                 /\ DOMAIN Recorded(c) \in SUBSET Nat
                 /\ Recorded(c) \in [DOMAIN Recorded(c) -> Nat \ {0}]
      BY DEF Bound, Recorded, TypeOK
    <3>4. /\ n' \in Nat
          /\ DOMAIN dump' \in SUBSET Nat
          /\ dump' \in [DOMAIN dump' -> Nat \ {0}]
      BY <2>6, <3>2, <3>3 DEF Calculate, TypeOK, stats
    <3>5. pc' \in {"calculate", "done"}
      BY <2>6 DEF Calculate
    <3>6. pc' = "calculate" => <<cur', ii'>> \in Instr(fn)
      <4>1. CASE ii < fn.len[cur] /\ ii' = ii + 1 /\ cur' = cur
        <5>1. ii + 1 \in 1..fn.len[cur]
          BY <3>1, <4>1
        <5> QED
          BY <3>1, <4>1, <5>1, InstrElement
      <4>2. CASE cur' \in NextBlock(cur) /\ ii' = 1
        BY <2>f, <4>2, InstrElement DEF NextBlock, IsFunction
      <4> QED
        BY <2>6, <4>1, <4>2 DEF Calculate
    <3> QED
      BY <2>6, <3>4, <3>5, <3>6 DEF Calculate, TypeOK, solver
  <2>7. CASE Terminated
    BY <2>7 DEF Terminated, TypeOK, vars, solver, stats
  <2>8. CASE UNCHANGED vars
    BY <2>8 DEF TypeOK, vars, solver, stats
  <2> QED
    BY <2>1, <2>2, <2>3, <2>4, <2>5, <2>6, <2>7, <2>8 DEF Next
<1> QED
  BY <1>1, <1>2, PTL DEF Spec

-----------------------------------------------------------------------------
(* No value is claimed live where it is not.                               *)

\* Every fact the solver has recorded about v lies in the closed set L.
Below(v, L) ==
  /\ \A q \in Instr(fn) : v \in instrIn[q] => q \in L
  /\ \A b \in fn.block :
       /\ v \in in[b] => <<b, 1>> \in L
       /\ v \in out[b] \cup nbr[b] => <<b, fn.len[b] + 1>> \in L

\* While the solver runs its sets lie in every closed set: each step adds only
\* what the closure conditions put there.
BelowClosed ==
  pc \notin {"calculate", "done"} =>
    \A v \in Value(fn) : \A L \in SUBSET Position(fn) :
      ClosedFor(fn, v, L) => Below(v, L)

LEMMA BelowClosedIsOnlyLive ==
  ASSUME TypeOK, BelowClosed
  PROVE  OnlyLive
<1> SUFFICES ASSUME pc \notin {"calculate", "done"}, NEW v \in Value(fn)
             PROVE  /\ \A q \in Instr(fn) : v \in instrIn[q] => q \in LiveSet(fn, v)
                    /\ \A b \in fn.block :
                         /\ v \in in[b] => <<b, 1>> \in LiveSet(fn, v)
                         /\ v \in out[b] \cup nbr[b] =>
                              <<b, fn.len[b] + 1>> \in LiveSet(fn, v)
  BY DEF OnlyLive
<1>1. IsFunction(fn)
  BY FunctionFacts
<1>2. \A b \in fn.block : fn.len[b] \in Nat \ {0}
  BY <1>1 DEF IsFunction
<1>3. \A q \in Instr(fn) : q \in Position(fn)
  <2> SUFFICES ASSUME NEW q \in Instr(fn) PROVE q \in Position(fn)
    OBVIOUS
  <2>1. PICK b \in fn.block : \E i \in 1..fn.len[b] : q = <<b, i>>
    BY InstrCases
  <2> QED
    BY <1>2, <2>1, PositionElement
<1>4. \A b \in fn.block : /\ <<b, 1>> \in Position(fn)
                          /\ <<b, fn.len[b] + 1>> \in Position(fn)
  BY <1>2, PositionElement
<1> QED
  BY <1>3, <1>4 DEF BelowClosed, Below, LiveSet

\* The solver never reports a value live at a point from which no read of it can
\* be reached before it is redefined, in whatever order the blocks are met.
THEOREM NothingSpurious == Spec => []OnlyLive
<1>1. Init => BelowClosed
  BY InstrElement DEF Init, BelowClosed, Below
<1>2. TypeOK /\ BelowClosed /\ [Next]_vars => BelowClosed'
  <2> SUFFICES ASSUME TypeOK, BelowClosed, [Next]_vars PROVE BelowClosed'
    OBVIOUS
  <2>f. IsFunction(fn)
    BY FunctionFacts
  <2>1. CASE TakeBlock
    <3> DEFINE b == Head(worklist)
    <3>1. b \in fn.block
      BY <2>1, TailRange DEF TakeBlock, TypeOK
    <3>2. SUFFICES ASSUME NEW v \in Value(fn), NEW L \in SUBSET Position(fn),
                          ClosedFor(fn, v, L), Below(v, L)
                   PROVE  Below(v, L)'
      BY <2>1 DEF TakeBlock, BelowClosed
    <3>3. v \in NewOut(b) => <<b, fn.len[b] + 1>> \in L
      BY <2>f, <3>1, <3>2 DEF NewOut, Below, ClosedFor, IsFunction
    <3> QED
      BY <2>1, <3>1, <3>2, <3>3 DEF TakeBlock, Below, TypeOK
  <2>2. CASE TransferInstr
    <3>1. cur \in fn.block /\ ii \in 1..fn.len[cur]
      BY <2>2, InstrPlace DEF TransferInstr, TypeOK
    <3>2. SUFFICES ASSUME NEW v \in Value(fn), NEW L \in SUBSET Position(fn),
                          ClosedFor(fn, v, L), Below(v, L)
                   PROVE  Below(v, L)'
      BY <2>2 DEF TransferInstr, BelowClosed
    <3>3. v \in OutNowIn(cur, ii) => <<cur, ii + 1>> \in L
      <4>1. CASE ii = fn.len[cur]
        BY <3>1, <3>2, <4>1 DEF OutNowIn, Below
      <4>2. CASE ii # fn.len[cur]
        <5>1. ii + 1 \in 1..fn.len[cur]
          BY <2>f, <3>1, <4>2 DEF IsFunction
        <5> QED
          BY <3>1, <3>2, <4>2, <5>1, InstrElement DEF OutNowIn, Below
      <4> QED
        BY <4>1, <4>2
    <3>4. v \in Transferred(cur, ii) => <<cur, ii>> \in L
      BY <3>1, <3>2, <3>3 DEF Transferred, ClosedFor
    <3>5. \A p \in fn.block : v \in PhiUse(fn, cur, ii, p) => <<p, fn.len[p] + 1>> \in L
      BY <3>1, <3>2 DEF ClosedFor
    <3> QED
      BY <2>2, <3>1, <3>2, <3>4, <3>5 DEF TransferInstr, Below, TypeOK
  <2>3. CASE CompareIn
    <3>1. cur \in fn.block /\ <<cur, 1>> \in Instr(fn)
      <4>1. cur \in fn.block
        BY <2>3 DEF CompareIn, TypeOK
      <4>2. 1 \in 1..fn.len[cur]
        BY <2>f, <4>1 DEF IsFunction
      <4> QED
        BY <4>1, <4>2, InstrElement
    <3>2. SUFFICES ASSUME NEW v \in Value(fn), NEW L \in SUBSET Position(fn),
                          Below(v, L)
                   PROVE  Below(v, L)'
      BY <2>3 DEF CompareIn, BelowClosed
    <3> QED
      BY <2>3, <3>1, <3>2 DEF CompareIn, Below, TypeOK
  <2>4. CASE Drained
    BY <2>4 DEF Drained, BelowClosed, Below, solver
  <2>5. CASE Finalize
    BY <2>5 DEF Finalize, BelowClosed
  <2>6. CASE Calculate
    BY <2>6 DEF Calculate, BelowClosed
  <2>7. CASE Terminated
    BY <2>7 DEF Terminated, BelowClosed, Below, vars, solver
  <2>8. CASE UNCHANGED vars
    BY <2>8 DEF BelowClosed, Below, vars, solver
  <2> QED
    BY <2>1, <2>2, <2>3, <2>4, <2>5, <2>6, <2>7, <2>8 DEF Next
<1> QED
  BY <1>1, <1>2, TypeCorrect, BelowClosedIsOnlyLive, PTL DEF Spec

-----------------------------------------------------------------------------
(* The worklist covers every block that is out of date.                    *)

\* The block in hand: its OUT set is up to date with its successors' IN sets,
\* and the instructions transferred so far satisfy the equations.
InHandSolved ==
  /\ pc \in {"transfer", "compare"} =>
       \A s \in fn.succ[cur] : in[s] \subseteq out[cur]
  /\ pc = "transfer" => SolvedAfter(cur, ii)
  /\ pc = "compare" => SolvedAfter(cur, 0)
  /\ pc = "finalize" => worklist = <<>>

CoverInv == WorklistCovers /\ InHandSolved

\* SolvedAfter speaks of one block's sets and of the recorded phi operands only.
LEMMA SolvedStable ==
  ASSUME TypeOK, NEW b \in fn.block, NEW i \in Nat, SolvedAfter(b, i),
         fn' = fn,
         \A j \in 1..fn.len[b] : instrIn'[<<b, j>>] = instrIn[<<b, j>>],
         out'[b] = out[b],
         \A p \in fn.block : nbr[p] \subseteq nbr'[p]
  PROVE  SolvedAfter(b, i)'
<1>1. fn.len[b] \in Nat \ {0}
  BY FunctionFacts DEF IsFunction
<1> SUFFICES ASSUME NEW j \in 1..fn.len[b], j > i
             PROVE  /\ instrIn'[<<b, j>>] = Transferred(b, j)'
                    /\ \A p \in fn.block : PhiUse(fn, b, j, p) \subseteq nbr'[p]
  BY DEF SolvedAfter
<1>2. OutNowIn(b, j)' = OutNowIn(b, j)
  <2>1. j # fn.len[b] => j + 1 \in 1..fn.len[b]
    BY <1>1
  <2> QED
    BY <2>1 DEF OutNowIn
<1>3. Transferred(b, j)' = Transferred(b, j)
  BY <1>2 DEF Transferred
<1> QED
  BY <1>3 DEF SolvedAfter

LEMMA CoverInvariant == Spec => []CoverInv
<1>1. Init => CoverInv
  <2> SUFFICES ASSUME Init PROVE CoverInv
    OBVIOUS
  <2>1. IsFunction(fn)
    BY FunctionAssumption DEF Init
  <2>2. Exit(fn) \in SUBSET fn.block /\ IsFiniteSet(Exit(fn))
    BY <2>1, FS_Subset DEF Exit, IsFunction
  <2>3. Range(worklist) = Exit(fn)
    BY <2>2, ListingRange DEF Init
  <2> QED
    BY <2>3 DEF Init, CoverInv, WorklistCovers, InHandSolved, InHand, Exit
<1>2. TypeOK /\ CoverInv /\ [Next]_vars => CoverInv'
  <2> SUFFICES ASSUME TypeOK, CoverInv, [Next]_vars PROVE CoverInv'
    OBVIOUS
  <2>f. /\ IsFunction(fn)
        /\ \A b \in fn.block : fn.len[b] \in Nat \ {0} /\ fn.succ[b] \subseteq fn.block
    BY FunctionFacts DEF IsFunction
  <2>1. CASE TakeBlock
    <3>1. PICK h \in fn.block :
            /\ h = Head(worklist)
            /\ Range(worklist) = Range(Tail(worklist)) \cup {h}
      BY <2>1, TailRange DEF TakeBlock, TypeOK
    <3>2. InHand = {} /\ InHand' = {h}
      BY <2>1, <3>1 DEF TakeBlock, InHand
    <3>3. out' = [out EXCEPT ![h] = NewOut(h)]
      BY <2>1, <3>1 DEF TakeBlock
    <3>4. \A s \in fn.succ[h] : in[s] \subseteq out'[h]
      BY <3>1, <3>3 DEF NewOut, TypeOK
    <3>5. InHandSolved'
      <4>1. SolvedAfter(cur, ii)'
        BY <2>f, <2>1, <3>1 DEF TakeBlock, SolvedAfter
      <4> QED
        BY <2>1, <3>1, <3>4, <4>1 DEF TakeBlock, InHandSolved
    <3>6. ASSUME NEW b \in fn.block, b \notin Range(worklist') \cup {h}
          PROVE  IF b \in visited'
                 THEN /\ \A s \in fn.succ[b] : in'[s] \subseteq out'[b]
                      /\ SolvedAfter(b, 0)'
                      /\ in'[b] = instrIn'[<<b, 1>>]
                 ELSE /\ fn.succ[b] # {}
                      /\ fn.succ[b] \cap visited' \subseteq {h}
      <4>1. b \notin Range(worklist) \cup InHand
        BY <2>1, <3>1, <3>2, <3>6 DEF TakeBlock
      <4>2. CASE b \in visited
        <5>1. /\ \A s \in fn.succ[b] : in[s] \subseteq out[b]
              /\ SolvedAfter(b, 0)
              /\ in[b] = instrIn[<<b, 1>>]
          BY <2>1, <4>1, <4>2 DEF TakeBlock, CoverInv, WorklistCovers
        <5>2. out'[b] = out[b]
          BY <3>3, <3>6 DEF TypeOK
        <5>3. SolvedAfter(b, 0)'
          BY <2>1, <5>1, <5>2, SolvedStable DEF TakeBlock
        <5> QED
          BY <2>1, <4>2, <5>1, <5>2, <5>3 DEF TakeBlock
      <4>3. CASE b \notin visited
        <5>1. fn.succ[b] # {} /\ fn.succ[b] \cap visited \subseteq {}
          BY <2>1, <3>2, <4>1, <4>3 DEF TakeBlock, CoverInv, WorklistCovers
        <5> QED
          BY <2>1, <3>1, <3>6, <4>3, <5>1 DEF TakeBlock
      <4> QED
        BY <4>2, <4>3
    <3> QED
      BY <2>1, <3>2, <3>5, <3>6 DEF TakeBlock, CoverInv, WorklistCovers
  <2>2. CASE TransferInstr
    <3>0. PICK c \in fn.block : c = cur
      BY <2>2, InstrPlace DEF TransferInstr, TypeOK
    <3>1. PICK i \in 1..fn.len[c] : i = ii /\ <<c, i>> \in Instr(fn)
      BY <2>2, <3>0, InstrPlace DEF TransferInstr, TypeOK
    <3>2. InHand = {c} /\ InHand' = {c}
      BY <2>2, <3>0, <3>1 DEF TransferInstr, InHand
    <3>3. instrIn' = [instrIn EXCEPT ![<<c, i>>] = Transferred(c, i)]
      BY <2>2, <3>0, <3>1 DEF TransferInstr
    <3>4. \A p \in fn.block : nbr'[p] = nbr[p] \cup PhiUse(fn, c, i, p)
      BY <2>2, <3>0, <3>1 DEF TransferInstr
    <3>5. \A b \in fn.block : \A j \in 1..fn.len[b] :
            <<b, j>> # <<c, i>> => instrIn'[<<b, j>>] = instrIn[<<b, j>>]
      BY <3>3, InstrElement DEF TypeOK
    <3>6. SolvedAfter(c, i - 1)'
      <4> SUFFICES ASSUME NEW j \in 1..fn.len[c], j > i - 1
                   PROVE  /\ instrIn'[<<c, j>>] = Transferred(c, j)'
                          /\ \A p \in fn.block : PhiUse(fn, c, j, p) \subseteq nbr'[p]
        BY <2>2, <3>0, <3>1 DEF TransferInstr, SolvedAfter
      <4>1. SolvedAfter(c, i)
        BY <2>2, <3>0, <3>1 DEF TransferInstr, CoverInv, InHandSolved
      <4>2. OutNowIn(c, j)' = OutNowIn(c, j)
        <5>1. CASE j = fn.len[c]
          BY <2>2, <3>0, <3>1, <5>1 DEF TransferInstr, OutNowIn
        <5>2. CASE j # fn.len[c]
          <6>1. j + 1 \in 1..fn.len[c] /\ j + 1 # i
            BY <2>f, <3>1, <5>2
          <6>2. instrIn'[<<c, j + 1>>] = instrIn[<<c, j + 1>>]
            BY <3>1, <3>5, <6>1
          <6> QED
            BY <2>2, <3>0, <3>1, <5>2, <6>2 DEF TransferInstr, OutNowIn
        <5> QED
          BY <5>1, <5>2
      <4>3. Transferred(c, j)' = Transferred(c, j)
        BY <2>2, <3>0, <3>1, <4>2 DEF TransferInstr, Transferred
      <4>4. CASE j = i
        BY <3>1, <3>3, <3>4, <4>3, <4>4 DEF TypeOK
      <4>5. CASE j # i
        <5>1. j > i
          BY <3>1, <4>5
        <5>2. /\ instrIn[<<c, j>>] = Transferred(c, j)
              /\ \A p \in fn.block : PhiUse(fn, c, j, p) \subseteq nbr[p]
          BY <4>1, <5>1 DEF SolvedAfter
        <5> QED
          BY <3>1, <3>4, <3>5, <4>3, <4>5, <5>2
      <4> QED
        BY <4>4, <4>5
    <3>7. InHandSolved'
      <4>1. \A s \in fn.succ[c] : in[s] \subseteq out[c]
        BY <2>2, <3>0, <3>1 DEF TransferInstr, CoverInv, InHandSolved
      <4>2. CASE i = 1
        <5>1. pc' = "compare" /\ cur' = c /\ fn' = fn
          BY <2>2, <3>0, <3>1, <4>2 DEF TransferInstr
        <5>2. SolvedAfter(cur, 0)'
          BY <3>6, <4>2, <5>1 DEF SolvedAfter
        <5> QED
          BY <2>2, <4>1, <5>1, <5>2 DEF TransferInstr, InHandSolved
      <4>3. CASE i # 1
        <5>1. pc' = "transfer" /\ cur' = c /\ fn' = fn /\ ii' = i - 1
          BY <2>2, <3>0, <3>1, <4>3 DEF TransferInstr
        <5>2. SolvedAfter(cur, ii)'
          BY <3>6, <5>1 DEF SolvedAfter
        <5> QED
          BY <2>2, <4>1, <5>1, <5>2 DEF TransferInstr, InHandSolved
      <4> QED
        BY <4>2, <4>3
    <3>8. ASSUME NEW b \in fn.block, b \notin Range(worklist) \cup {c}
          PROVE  IF b \in visited
                 THEN /\ \A s \in fn.succ[b] : in[s] \subseteq out[b]
                      /\ SolvedAfter(b, 0)'
                      /\ in[b] = instrIn'[<<b, 1>>]
                 ELSE /\ fn.succ[b] # {}
                      /\ fn.succ[b] \cap visited \subseteq {c}
      <4>1. IF b \in visited
            THEN /\ \A s \in fn.succ[b] : in[s] \subseteq out[b]
                 /\ SolvedAfter(b, 0)
                 /\ in[b] = instrIn[<<b, 1>>]
            ELSE /\ fn.succ[b] # {}
                 /\ fn.succ[b] \cap visited \subseteq {c}
        BY <2>2, <3>0, <3>1, <3>2, <3>8 DEF TransferInstr, CoverInv, WorklistCovers
      <4>2. \A j \in 1..fn.len[b] : instrIn'[<<b, j>>] = instrIn[<<b, j>>]
        BY <3>5, <3>8
      <4>3. b \in visited => SolvedAfter(b, 0)'
        BY <2>2, <3>0, <3>1, <3>4, <4>1, <4>2, SolvedStable DEF TransferInstr
      <4>4. 1 \in 1..fn.len[b]
        BY <2>f
      <4> QED
        BY <4>1, <4>2, <4>3, <4>4
    <3> QED
      BY <2>2, <3>0, <3>1, <3>2, <3>7, <3>8 DEF TransferInstr, CoverInv, WorklistCovers
  <2>3. CASE CompareIn
    <3>1. cur \in fn.block /\ cur \in visited
      BY <2>3 DEF CompareIn, TypeOK
    <3>2. InHand = {cur} /\ InHand' = {}
      BY <2>3 DEF CompareIn, InHand
    <3>3. PICK again \in Listings(Requeued) : worklist' = worklist \o again
      BY <2>3 DEF CompareIn
    <3>4. Range(worklist') = Range(worklist) \cup Requeued
      <4>1. Requeued \in SUBSET fn.block /\ IsFiniteSet(Requeued)
        BY FunctionFacts DEF Requeued, Pred
      <4>2. again \in Seq(fn.block) /\ Range(again) = Requeued
        BY <4>1, ListingRange
      <4> QED
        BY <3>3, <4>2, ConcatRange DEF TypeOK
    <3>5. /\ in' = [in EXCEPT ![cur] = instrIn[<<cur, 1>>]]
          /\ UNCHANGED <<fn, out, nbr, instrIn, visited>>
      BY <2>3 DEF CompareIn
    <3>6. /\ SolvedAfter(cur, 0)
          /\ \A s \in fn.succ[cur] : in[s] \subseteq out[cur]
      BY <2>3 DEF CompareIn, CoverInv, InHandSolved
    <3>7. ASSUME NEW b \in fn.block, b \notin Range(worklist) \cup Requeued
          PROVE  IF b \in visited
                 THEN /\ \A s \in fn.succ[b] : in'[s] \subseteq out[b]
                      /\ SolvedAfter(b, 0)'
                      /\ in'[b] = instrIn[<<b, 1>>]
                 ELSE /\ fn.succ[b] # {}
                      /\ fn.succ[b] \cap visited \subseteq {}
      <4>1. CASE b \in visited
        <5>1. /\ \A s \in fn.succ[b] : in[s] \subseteq out[b]
              /\ SolvedAfter(b, 0)
              /\ b # cur => in[b] = instrIn[<<b, 1>>]
          BY <2>3, <3>2, <3>6, <3>7, <4>1 DEF CompareIn, CoverInv, WorklistCovers
        <5>2. cur \in fn.succ[b] => in'[cur] = in[cur]
          BY <3>1, <3>5, <3>7 DEF Requeued, Pred, Changed, TypeOK
        <5>3. \A s \in fn.succ[b] : in'[s] = in[s]
          BY <2>f, <3>5, <5>2 DEF TypeOK
        <5>4. in'[b] = instrIn[<<b, 1>>]
          BY <3>1, <3>5, <5>1 DEF TypeOK
        <5>5. SolvedAfter(b, 0)'
          BY <3>5, <5>1, SolvedStable
        <5> QED
          BY <4>1, <5>1, <5>3, <5>4, <5>5
      <4>2. CASE b \notin visited
        <5>1. fn.succ[b] # {} /\ fn.succ[b] \cap visited \subseteq {cur}
          BY <2>3, <3>1, <3>2, <3>7, <4>2 DEF CompareIn, CoverInv, WorklistCovers
        <5>2. cur \notin fn.succ[b]
          BY <3>7, <4>2 DEF Requeued, Pred
        <5> QED
          BY <4>2, <5>1, <5>2
      <4> QED
        BY <4>1, <4>2
    <3>8. WorklistCovers'
      BY <3>2, <3>4, <3>5, <3>7 DEF WorklistCovers
    <3> QED
      BY <2>3, <3>8 DEF CompareIn, CoverInv, InHandSolved
  <2>4. CASE Drained
    BY <2>4 DEF Drained, CoverInv, WorklistCovers, InHandSolved, InHand,
                SolvedAfter, Transferred, OutNowIn, solver
  <2>5. CASE Finalize
    BY <2>5 DEF Finalize, CoverInv, WorklistCovers, InHandSolved
  <2>6. CASE Calculate
    BY <2>6 DEF Calculate, CoverInv, WorklistCovers, InHandSolved
  <2>7. CASE UNCHANGED vars
    BY <2>7 DEF CoverInv, WorklistCovers, InHandSolved, InHand,
                SolvedAfter, Transferred, OutNowIn, vars, solver
  <2>8. CASE Terminated
    BY <2>7, <2>8 DEF Terminated
  <2> QED
    BY <2>1, <2>2, <2>3, <2>4, <2>5, <2>6, <2>7, <2>8 DEF Next
<1> QED
  BY <1>1, <1>2, TypeCorrect, PTL DEF Spec

\* In the middle of the iteration, whatever the order of the predecessors: a
\* block that is neither queued nor in hand is up to date, and an unvisited block
\* that is not queued has no finished successor.
THEOREM NoBlockForgotten == Spec => []WorklistCovers
<1>1. CoverInv => WorklistCovers
  BY DEF CoverInv
<1> QED
  BY <1>1, CoverInvariant, PTL

-----------------------------------------------------------------------------
(* What has been computed when the worklist is empty.                      *)

\* When every block was visited and no phi operand arrived too late, the values
\* found live before each instruction are exactly the live ones (with
\* NothingSpurious): the drained solver has solved the equations.
THEOREM Exactness == Spec => []ExactWhenDrained
<1>1. TypeOK /\ CoverInv => ExactWhenDrained
  <2> SUFFICES ASSUME TypeOK, CoverInv,
                      pc = "finalize", visited = fn.block, PhiOperandsMet,
                      NEW v \in Value(fn), NEW q \in LiveSet(fn, v) \cap Instr(fn)
               PROVE  v \in instrIn[q]
    BY DEF ExactWhenDrained
  <2>f. /\ IsFunction(fn)
        /\ \A b \in fn.block : fn.len[b] \in Nat \ {0} /\ fn.succ[b] \subseteq fn.block
    BY FunctionFacts DEF IsFunction
  <2> DEFINE found(b, i) ==
               IF i = fn.len[b] + 1 THEN v \in out[b] ELSE v \in instrIn[<<b, i>>]
             L == {r \in Position(fn) : found(r[1], r[2])}
  <2>1. \A b \in fn.block :
          /\ \A s \in fn.succ[b] : in[s] \subseteq out[b]
          /\ SolvedAfter(b, 0)
          /\ in[b] = instrIn[<<b, 1>>]
    <3>1. Range(worklist) = {} /\ InHand = {}
      BY DEF CoverInv, InHandSolved, InHand, Range
    <3> QED
      BY <3>1 DEF CoverInv, WorklistCovers
  <2>2. \A b \in fn.block : \A i \in 1..(fn.len[b] + 1) :
          <<b, i>> \in L <=> found(b, i)
    BY PositionElement
  <2>3. \A b \in fn.block : \A i \in 1..fn.len[b] :
          /\ instrIn[<<b, i>>] = Transferred(b, i)
          /\ \A p \in fn.block : PhiUse(fn, b, i, p) \subseteq out[p]
    <3> SUFFICES ASSUME NEW b \in fn.block, NEW i \in 1..fn.len[b]
                 PROVE  /\ instrIn[<<b, i>>] = Transferred(b, i)
                        /\ \A p \in fn.block : PhiUse(fn, b, i, p) \subseteq out[p]
      OBVIOUS
    <3>1. i > 0
      OBVIOUS
    <3>2. /\ instrIn[<<b, i>>] = Transferred(b, i)
          /\ \A p \in fn.block : PhiUse(fn, b, i, p) \subseteq nbr[p]
      BY <2>1, <3>1 DEF SolvedAfter
    <3> QED
      BY <3>2 DEF PhiOperandsMet
  <2>4. ClosedFor(fn, v, L)
    <3>1. ASSUME NEW b \in fn.block, NEW i \in 1..fn.len[b],
                 v \in Use(fn, b, i) \/ (<<b, i + 1>> \in L /\ v \notin Def(fn, b, i))
          PROVE  <<b, i>> \in L
      <4>1. i \in 1..(fn.len[b] + 1) /\ i + 1 \in 1..(fn.len[b] + 1) /\ i # fn.len[b] + 1
        BY <2>f
      <4>2. CASE v \in Use(fn, b, i)
        BY <2>2, <2>3, <4>1, <4>2 DEF Transferred
      <4>3. CASE <<b, i + 1>> \in L /\ v \notin Def(fn, b, i)
        <5>1. v \in OutNowIn(b, i)
          BY <2>2, <2>f, <4>1, <4>3 DEF OutNowIn
        <5> QED
          BY <2>2, <2>3, <4>1, <4>3, <5>1 DEF Transferred
      <4> QED
        BY <3>1, <4>2, <4>3
    <3>2. ASSUME NEW b \in fn.block, NEW s \in fn.succ[b], <<s, 1>> \in L
          PROVE  <<b, fn.len[b] + 1>> \in L
      <4>1. s \in fn.block /\ 1 \in 1..(fn.len[s] + 1) /\ 1 # fn.len[s] + 1
        BY <2>f
      <4>2. v \in out[b]
        BY <2>1, <2>2, <3>2, <4>1
      <4> QED
        BY <2>2, <2>f, <4>2
    <3>3. ASSUME NEW b \in fn.block, NEW i \in 1..fn.len[b], NEW p \in fn.block,
                 v \in PhiUse(fn, b, i, p)
          PROVE  <<p, fn.len[p] + 1>> \in L
      <4>1. v \in out[p]
        BY <2>3, <3>3
      <4>2. fn.len[p] + 1 \in 1..(fn.len[p] + 1)
        BY <2>f
      <4> QED
        BY <2>2, <4>1, <4>2
    <3> QED
      BY <3>1, <3>2, <3>3 DEF ClosedFor
  <2>5. q \in L
    BY <2>4 DEF LiveSet
  <2>6. PICK b \in fn.block : \E i \in 1..fn.len[b] : q = <<b, i>>
    BY InstrCases
  <2> QED
    BY <2>2, <2>5, <2>6, <2>f
<1> QED
  BY <1>1, TypeCorrect, CoverInvariant, PTL

\* Every block the solver has queued or visited reaches an exit.
QueuedReachExit ==
  \A R \in SUBSET fn.block :
    (Exit(fn) \subseteq R /\ \A c \in R : Pred(fn, c) \subseteq R) =>
      visited \cup Range(worklist) \subseteq R

\* The solver visits exactly the blocks from which an exit can be reached, so the
\* blocks of an infinite loop, and nothing else, keep their empty sets.
THEOREM ExitReachingVisited == Spec => []VisitsExitReaching
<1>1. Init => QueuedReachExit
  <2> SUFFICES ASSUME Init PROVE QueuedReachExit
    OBVIOUS
  <2>1. IsFunction(fn)
    BY FunctionAssumption DEF Init
  <2>2. Exit(fn) \in SUBSET fn.block /\ IsFiniteSet(Exit(fn))
    BY <2>1, FS_Subset DEF Exit, IsFunction
  <2>3. Range(worklist) = Exit(fn)
    BY <2>2, ListingRange DEF Init
  <2> QED
    BY <2>3 DEF Init, QueuedReachExit
<1>2. TypeOK /\ QueuedReachExit /\ [Next]_vars => QueuedReachExit'
  <2> SUFFICES ASSUME TypeOK, QueuedReachExit, [Next]_vars PROVE QueuedReachExit'
    OBVIOUS
  <2>1. CASE TakeBlock
    <3>1. Range(worklist) = Range(Tail(worklist)) \cup {Head(worklist)}
      BY <2>1, TailRange DEF TakeBlock, TypeOK
    <3> QED
      BY <2>1, <3>1 DEF TakeBlock, QueuedReachExit
  <2>2. CASE CompareIn
    <3>1. cur \in visited
      BY <2>2 DEF CompareIn, TypeOK
    <3>2. PICK again \in Listings(Requeued) : worklist' = worklist \o again
      BY <2>2 DEF CompareIn
    <3>3. Requeued \in SUBSET fn.block /\ IsFiniteSet(Requeued)
      BY FunctionFacts DEF Requeued, Pred
    <3>4. again \in Seq(fn.block) /\ Range(again) = Requeued
      BY <3>3, ListingRange
    <3>5. Range(worklist') = Range(worklist) \cup Requeued
      BY <3>2, <3>4, ConcatRange DEF TypeOK
    <3>6. Requeued \subseteq Pred(fn, cur)
      BY DEF Requeued
    <3> QED
      BY <2>2, <3>1, <3>5, <3>6 DEF CompareIn, QueuedReachExit
  <2>3. CASE UNCHANGED <<fn, visited, worklist>>
    BY <2>3 DEF QueuedReachExit
  <2> QED
    BY <2>1, <2>2, <2>3 DEF Next, TransferInstr, Drained, Finalize, Calculate,
                            Terminated, vars, solver
<1>3. TypeOK /\ CoverInv /\ QueuedReachExit => VisitsExitReaching
  <2> SUFFICES ASSUME TypeOK, CoverInv, QueuedReachExit PROVE VisitsExitReaching
    OBVIOUS
  <2>1. visited \subseteq ReachesExit(fn)
    BY DEF QueuedReachExit, ReachesExit, TypeOK
  <2>2. ASSUME pc = "finalize" PROVE ReachesExit(fn) \subseteq visited
    <3>1. Range(worklist) = {} /\ InHand = {}
      BY <2>2 DEF CoverInv, InHandSolved, InHand, Range
    <3>2. \A b \in fn.block \ visited : fn.succ[b] # {} /\ fn.succ[b] \cap visited = {}
      BY <2>2, <3>1 DEF CoverInv, WorklistCovers
    <3>3. Exit(fn) \subseteq visited /\ \A c \in visited : Pred(fn, c) \subseteq visited
      BY <3>2 DEF Exit, Pred
    <3> QED
      BY <3>3 DEF ReachesExit, TypeOK
  <2> QED
    BY <2>1, <2>2 DEF VisitsExitReaching
<1> QED
  BY <1>1, <1>2, <1>3, TypeCorrect, CoverInvariant, PTL DEF Spec

-----------------------------------------------------------------------------
(* The statistics.                                                         *)

\* A count that is recorded is below the bound, or the bound is moved one above
\* it: whatever counts come in whatever order, only the last line can be lost.
THEOREM OneLineDropped == Spec => []OnlyLastCountDropped
<1>1. Init => OnlyLastCountDropped
  BY DEF Init, OnlyLastCountDropped
<1>2. TypeOK /\ OnlyLastCountDropped /\ [Next]_vars => OnlyLastCountDropped'
  <2> SUFFICES ASSUME TypeOK, OnlyLastCountDropped, [Next]_vars
               PROVE  OnlyLastCountDropped'
    OBVIOUS
  <2>1. CASE UNCHANGED stats
    BY <2>1 DEF OnlyLastCountDropped, stats
  <2>2. CASE Calculate /\ <<cur, ii>> \notin fn.phis
    <3> DEFINE c == Cardinality(instrIn[<<cur, ii>>])
    <3>1. c \in Nat
      BY <2>2, FunctionFacts DEF Calculate, TypeOK
    <3>2. n' = Bound(c) /\ dump' = Recorded(c)
      BY <2>2 DEF Calculate
    <3> HIDE DEF c
    <3>3. DOMAIN dump' = DOMAIN dump \cup {c}
      BY <3>2 DEF Recorded
    <3>4. n \in Nat /\ DOMAIN dump \subseteq Nat
      BY DEF TypeOK
    <3>5. CASE c > n
      <4>1. n' = c + 1 /\ n' - 1 = c
        BY <3>1, <3>2, <3>5 DEF Bound
      <4>2. \A d \in DOMAIN dump : d <= c + 1
        BY <3>1, <3>4, <3>5 DEF OnlyLastCountDropped
      <4> QED BY <3>1, <3>3, <4>1, <4>2 DEF OnlyLastCountDropped
    <3>6. CASE ~(c > n)
      <4>1. n' = n /\ c <= n
        BY <3>1, <3>2, <3>4, <3>6 DEF Bound
      <4> QED BY <3>3, <4>1 DEF OnlyLastCountDropped
    <3> QED BY <3>5, <3>6
  <2>3. UNCHANGED stats \/ (Calculate /\ <<cur, ii>> \notin fn.phis)
    BY DEF Next, TakeBlock, TransferInstr, CompareIn, Drained, Finalize, Calculate,
           Terminated, vars
  <2> QED BY <2>1, <2>2, <2>3
<1> QED BY <1>1, <1>2, TypeCorrect, PTL DEF Spec

-----------------------------------------------------------------------------
(* No step removes a value.                                                *)

\* Every set is at most what computing it again would give.  Only then does a later
\* visit of a block add to what an earlier one found; in the end the IN sets are more
\* than what the instructions say, since finalizeBackwardAnalysis adds to them.
BelowRecomputed ==
  /\ \A b \in fn.block : out[b] \subseteq NewOut(b)
  /\ \A b \in fn.block : \A i \in 1..fn.len[b] : instrIn[<<b, i>>] \subseteq Transferred(b, i)
  /\ pc \notin {"calculate", "done"} => \A b \in fn.block : in[b] \subseteq instrIn[<<b, 1>>]

\* What SetsGrow says of a step.
Grows ==
  /\ \A b \in fn.block :
       in[b] \subseteq in'[b] /\ out[b] \subseteq out'[b] /\ nbr[b] \subseteq nbr'[b]
  /\ \A q \in Instr(fn) : instrIn[q] \subseteq instrIn'[q]

\* A set computed from larger ones is larger.
LEMMA RecomputedGrows ==
  ASSUME TypeOK, Grows, fn' = fn
  PROVE  /\ \A b \in fn.block : NewOut(b) \subseteq NewOut(b)'
         /\ \A b \in fn.block : \A i \in 1..fn.len[b] :
              Transferred(b, i) \subseteq Transferred(b, i)'
<1>1. IsFunction(fn)
  BY FunctionFacts
<1>2. ASSUME NEW b \in fn.block PROVE NewOut(b) \subseteq NewOut(b)'
  <2>1. fn.succ[b] \subseteq fn.block
    BY <1>1 DEF IsFunction
  <2>2. (UNION {in[s] : s \in fn.succ[b]}) \subseteq UNION {in'[s] : s \in fn.succ[b]}
    BY <2>1 DEF Grows
  <2>3. nbr[b] \subseteq nbr'[b]
    BY DEF Grows
  <2> QED BY <2>2, <2>3 DEF NewOut
<1>3. ASSUME NEW b \in fn.block, NEW i \in 1..fn.len[b]
      PROVE  Transferred(b, i) \subseteq Transferred(b, i)'
  <2>1. fn.len[b] \in Nat
    BY <1>1 DEF IsFunction
  <2>2. OutNowIn(b, i) \subseteq OutNowIn(b, i)'
    <3>1. CASE i = fn.len[b]
      BY <3>1 DEF OutNowIn, Grows
    <3>2. CASE i # fn.len[b]
      <4>1. <<b, i + 1>> \in Instr(fn)
        BY <2>1, <3>2, InstrElement
      <4> QED BY <3>2, <4>1 DEF OutNowIn, Grows
    <3> QED BY <3>1, <3>2
  <2> QED BY <2>2 DEF Transferred
<1> QED BY <1>2, <1>3

\* The set before an instruction is recomputed from what it was below.
LEMMA TransferGrows ==
  ASSUME TypeOK, BelowRecomputed, TransferInstr
  PROVE  /\ Grows
         /\ \A b \in fn.block : \A i \in 1..fn.len[b] :
              instrIn'[<<b, i>>] = IF <<b, i>> = <<cur, ii>> THEN Transferred(cur, ii)
                                   ELSE instrIn[<<b, i>>]
<1>1. cur \in fn.block /\ ii \in 1..fn.len[cur] /\ <<cur, ii>> \in Instr(fn)
  <2>1. <<cur, ii>> \in Instr(fn)
    BY DEF TransferInstr, TypeOK
  <2> QED BY <2>1, InstrPlace
<1>2. instrIn[<<cur, ii>>] \subseteq Transferred(cur, ii)
  BY <1>1 DEF BelowRecomputed
<1>3. \A q \in Instr(fn) :
        instrIn'[q] = IF q = <<cur, ii>> THEN Transferred(cur, ii) ELSE instrIn[q]
  BY DEF TransferInstr, TypeOK
<1>4. \A q \in Instr(fn) : instrIn[q] \subseteq instrIn'[q]
  BY <1>2, <1>3
<1>5. \A b \in fn.block : in'[b] = in[b] /\ out'[b] = out[b] /\ nbr[b] \subseteq nbr'[b]
  BY DEF TransferInstr
<1>6. Grows
  BY <1>4, <1>5 DEF Grows
<1>7. \A b \in fn.block : \A i \in 1..fn.len[b] : <<b, i>> \in Instr(fn)
  BY InstrElement
<1> QED BY <1>3, <1>6, <1>7

\* Each step keeps the sets below what computing them again would give, and removes
\* no value.
LEMMA StepGrows ==
  ASSUME TypeOK, BelowRecomputed, [Next]_vars
  PROVE  Grows /\ BelowRecomputed'
<1>1. IsFunction(fn) /\ \A b \in fn.block : fn.len[b] \in Nat \ {0} /\ <<b, 1>> \in Instr(fn)
  <2>1. IsFunction(fn)
    BY FunctionFacts
  <2>2. \A b \in fn.block : fn.len[b] \in Nat \ {0} /\ 1 \in 1..fn.len[b]
    BY <2>1 DEF IsFunction
  <2> QED BY <2>1, <2>2, InstrElement
<1>2. CASE TakeBlock
  <2> DEFINE h == Head(worklist)
  <2>1. h \in fn.block
    BY <1>2, TailRange DEF TakeBlock, TypeOK
  <2>2. \A b \in fn.block : out'[b] = IF b = h THEN NewOut(h) ELSE out[b]
    BY <1>2 DEF TakeBlock, TypeOK
  <2>3. /\ fn' = fn /\ in' = in /\ nbr' = nbr /\ instrIn' = instrIn
        /\ pc \notin {"calculate", "done"} /\ pc' \notin {"calculate", "done"}
    BY <1>2 DEF TakeBlock
  <2> HIDE DEF h
  <2>4. Grows
    BY <2>1, <2>2, <2>3 DEF Grows, BelowRecomputed
  <2>5. \A b \in fn.block : NewOut(b)' = NewOut(b)
    BY <2>3 DEF NewOut
  <2>6. \A b \in fn.block : out'[b] \subseteq NewOut(b)'
    BY <2>1, <2>2, <2>5 DEF BelowRecomputed
  <2>7. \A b \in fn.block : \A i \in 1..fn.len[b] : instrIn'[<<b, i>>] \subseteq Transferred(b, i)'
    BY <2>3, <2>4, RecomputedGrows DEF BelowRecomputed
  <2> QED BY <2>3, <2>4, <2>6, <2>7 DEF BelowRecomputed
<1>3. CASE TransferInstr
  <2>1. /\ fn' = fn /\ in' = in /\ out' = out /\ cur' = cur
        /\ pc \notin {"calculate", "done"}
    BY <1>3 DEF TransferInstr
  <2>2. /\ Grows
        /\ \A b \in fn.block : \A i \in 1..fn.len[b] :
             instrIn'[<<b, i>>] = IF <<b, i>> = <<cur, ii>> THEN Transferred(cur, ii)
                                  ELSE instrIn[<<b, i>>]
    BY <1>3, TransferGrows
  <2>3. \A b \in fn.block : out'[b] \subseteq NewOut(b)'
    BY <2>1, <2>2, RecomputedGrows DEF BelowRecomputed
  <2>4. ASSUME NEW b \in fn.block, NEW i \in 1..fn.len[b]
        PROVE  instrIn'[<<b, i>>] \subseteq Transferred(b, i)'
    <3>1. Transferred(b, i) \subseteq Transferred(b, i)'
      BY <2>1, <2>2, RecomputedGrows
    <3>2. instrIn'[<<b, i>>] \subseteq Transferred(b, i)
      BY <2>2 DEF BelowRecomputed
    <3> QED BY <3>1, <3>2
  <2>5. \A b \in fn.block : in'[b] \subseteq instrIn'[<<b, 1>>]
    BY <1>1, <2>1, <2>2 DEF BelowRecomputed, Grows
  <2> QED BY <2>1, <2>2, <2>3, <2>4, <2>5 DEF BelowRecomputed
<1>4. CASE CompareIn
  <2>1. /\ fn' = fn /\ out' = out /\ nbr' = nbr /\ instrIn' = instrIn
        /\ pc \notin {"calculate", "done"} /\ cur \in fn.block
    BY <1>4 DEF CompareIn, TypeOK
  <2>2. \A b \in fn.block : in'[b] = IF b = cur THEN instrIn[<<cur, 1>>] ELSE in[b]
    BY <1>4 DEF CompareIn, TypeOK
  <2>3. Grows
    BY <2>1, <2>2 DEF Grows, BelowRecomputed
  <2>4. \A b \in fn.block : out'[b] \subseteq NewOut(b)'
    BY <2>1, <2>3, RecomputedGrows DEF BelowRecomputed
  <2>5. \A b \in fn.block : \A i \in 1..fn.len[b] : instrIn'[<<b, i>>] \subseteq Transferred(b, i)'
    BY <2>1, <2>3, RecomputedGrows DEF BelowRecomputed
  <2>6. \A b \in fn.block : in'[b] \subseteq instrIn'[<<b, 1>>]
    BY <2>1, <2>2 DEF BelowRecomputed
  <2> QED BY <2>1, <2>3, <2>4, <2>5, <2>6 DEF BelowRecomputed
<1>5. CASE Finalize
  <2>1. /\ fn' = fn /\ out' = out /\ nbr' = nbr /\ instrIn' = instrIn /\ pc' = "calculate"
        /\ \A b \in fn.block : in[b] \subseteq in'[b]
    BY <1>5 DEF Finalize
  <2>2. Grows
    BY <2>1 DEF Grows
  <2>3. \A b \in fn.block : out'[b] \subseteq NewOut(b)'
    BY <2>1, <2>2, RecomputedGrows DEF BelowRecomputed
  <2>4. \A b \in fn.block : \A i \in 1..fn.len[b] : instrIn'[<<b, i>>] \subseteq Transferred(b, i)'
    BY <2>1, <2>2, RecomputedGrows DEF BelowRecomputed
  <2> QED BY <2>1, <2>2, <2>3, <2>4 DEF BelowRecomputed
<1> DEFINE Elsewhere == /\ UNCHANGED <<fn, solver>>
                        /\ pc \in {"calculate", "done"} => pc' \in {"calculate", "done"}
<1>6. CASE Elsewhere
  <2>1. /\ fn' = fn /\ in' = in /\ out' = out /\ nbr' = nbr /\ instrIn' = instrIn
        /\ pc' \notin {"calculate", "done"} => pc \notin {"calculate", "done"}
    BY <1>6 DEF solver
  <2>2. Grows
    BY <2>1 DEF Grows
  <2>3. \A b \in fn.block : out'[b] \subseteq NewOut(b)'
    BY <2>1, <2>2, RecomputedGrows DEF BelowRecomputed
  <2>4. \A b \in fn.block : \A i \in 1..fn.len[b] : instrIn'[<<b, i>>] \subseteq Transferred(b, i)'
    BY <2>1, <2>2, RecomputedGrows DEF BelowRecomputed
  <2> QED BY <2>1, <2>2, <2>3, <2>4 DEF BelowRecomputed
<1>7. TakeBlock \/ TransferInstr \/ CompareIn \/ Finalize \/ Elsewhere
  BY DEF Next, Drained, Calculate, Terminated, vars
<1> QED BY <1>2, <1>3, <1>4, <1>5, <1>6, <1>7

\* The iterates of the solver only grow, whatever order blocks come in: no visit of
\* a block loses what an earlier one found, and finalizeBackwardAnalysis only adds.
THEOREM NothingLostAgain == Spec => SetsGrow
<1>1. Init => BelowRecomputed
  <2> SUFFICES ASSUME Init PROVE BelowRecomputed
    OBVIOUS
  <2>1. \A b \in fn.block : \A i \in 1..fn.len[b] : <<b, i>> \in Instr(fn)
    BY InstrElement
  <2>2. \A b \in fn.block : 1 \in 1..fn.len[b]
    BY FunctionAssumption DEF Init, IsFunction
  <2>3. /\ \A b \in fn.block : in[b] = {} /\ out[b] = {}
        /\ \A q \in Instr(fn) : instrIn[q] = {}
    BY DEF Init
  <2> QED BY <2>1, <2>2, <2>3 DEF BelowRecomputed
<1>2. TypeOK /\ BelowRecomputed /\ [Next]_vars => BelowRecomputed'
  BY StepGrows
<1> DEFINE Adds == /\ \A b \in fn.block : /\ in[b] \subseteq in'[b]
                                          /\ out[b] \subseteq out'[b]
                                          /\ nbr[b] \subseteq nbr'[b]
                   /\ \A q \in Instr(fn) : instrIn[q] \subseteq instrIn'[q]
<1>3. TypeOK /\ BelowRecomputed /\ [Next]_vars => [Adds]_vars
  BY StepGrows DEF Grows
<1> QED BY <1>1, <1>2, <1>3, TypeCorrect, PTL DEF Spec, SetsGrow
=============================================================================
