-------------------------- MODULE ValueRange_proofs --------------------------
(***************************************************************************)
(* The ranges of names that can be relied on hold in every execution of a  *)
(* function without loops, and the range that is printed for a counting    *)
(* loop has the value it ends with, for every width of the integers and    *)
(* all functions as LLVM keeps them.                                       *)
(***************************************************************************)
EXTENDS ValueRange, FiniteSetTheorems, SequenceTheorems, WellFoundedInduction, TLAPS

\* The ranges with ends in S, the maps of names to ranges, and two uninitialised
\* numbers.
RangesOf(S) == {r \in Seq(S) : Len(r) \in {2, 4}}
IsMap(m) == \A n \in DOMAIN m : m[n] \in RangesOf(Integer)
Bounded == -Inf..Inf

Visiting == {"learning", "merging", "computing"}
Executing == {"running", "returned", "trapped"}

\* Everything is of its type, and the pass is at a place of the function.
TypeOK ==
  /\ fn \in Function
  /\ next \in 1..(Len(fn.blocks) + 1)
  /\ turn \in Nat \ {0}
  /\ in = [b \in Blocks(fn) |-> in[b]] /\ out = [b \in Blocks(fn) |-> out[b]]
  /\ \A b \in Blocks(fn) : IsMap(in[b]) /\ IsMap(out[b])
  /\ trusted = [b \in Blocks(fn) |-> trusted[b]]
  /\ pc \in {"start", "blocks", "done", "crashed"} \cup Visiting \cup Executing
  /\ pc \in Visiting => next \in Blocks(fn)
  /\ pc \in {"learning", "merging"} => next # 1 /\ preds \in SetToSeqs(Predecessors(fn, next))
  /\ pc \in {"blocks", "start"} => turn = 1 /\ (next = 1 => out[1] = NoRanges)
  /\ pc = "start" => next = 1 /\ printed = <<>>
  /\ pc \in {"done"} \cup Executing => next = Len(fn.blocks) + 1
  /\ printed \in Seq(Range(printed))

\* The loops are those of the function.
LoopsFound ==
  /\ order \in [Blocks(fn) -> Blocks(fn)] /\ IsInjective(order)
  /\ pc # "start" =>
       /\ back_edge = {e \in Blocks(fn) \X Blocks(fn) : e[2] <= e[1] /\ e[2] \in Successors(fn, e[1])}
       /\ loop_list = LET from == {b \in Blocks(fn) : \E h \in fn.headers : h <= b}
                      IN  from \cup UNION {Successors(fn, b) : b \in from}

\* The range r of the name n in block c is what the branch of block p says of it on
\* its way to c; ranges are those with which the blocks of f end.
FromBranch(f, ranges, p, c, n, r) ==
  /\ IsBranch(Terminator(f, p)) /\ Terminator(f, p).test # "none" /\ r # <<>>
  /\ \E i, e \in 1..2 : /\ Terminator(f, p).args[i] = [name |-> n]
                       /\ Terminator(f, p).at[e] = c
                       /\ r = Learnt(f, p, i, ranges[p])[e]

\* The range with which a name comes from block p.
Incoming(f, ranges, p, c, n, r) ==
  FromBranch(f, ranges, p, c, n, r) \/ (n \in DOMAIN ranges[p] /\ r = ranges[p][n])

\* Where the block c does not compute yet its ranges come from its predecessors.
EntriesLearnt ==
  \A c \in Blocks(fn) : (c > next \/ (c = next /\ pc \notin {"computing", "crashed"})) /\ c # 1 =>
    \A n \in DOMAIN in[c] :
      \E p \in Predecessors(fn, c) : p < next /\ Incoming(fn, out, p, c, n, in[c][n])

\* Every range of a predecessor that was merged is there.
EntriesMerged ==
  pc = "merging" => \A k \in DOMAIN preds : k < turn => DOMAIN out[preds[k]] \subseteq DOMAIN in[next]

\* The j-th instruction of block b gives its name a range that is right if those of
\* its operands are; m are the ranges of the block, names those of each block that
\* can be relied on.
ComputingOp(f, names, b, j, m) ==
  LET instr == f.blocks[b][j]
  IN  /\ instr.op \in BinaryOp
      /\ \A i \in 1..2 : /\ Usable(instr.args[i], names[b], m)
                         /\ IsConst(instr.args[i]) \/ Known(f, instr.args[i].name, b, j)
      /\ Computes(instr, m)
      /\ \E g \in Leftovers \X Leftovers : m[instr.to] = Computed(instr, m, g)
ComputingPhi(f, ranges, names, b, j, m) ==
  LET instr == f.blocks[b][j]
  IN  /\ instr.op = "phi"
      /\ \A i \in DOMAIN instr.args :
           IF IsConst(instr.args[i]) THEN instr.args[i].const \in Bounded
           ELSE instr.args[i].name \in names[instr.at[i]]
      /\ m[instr.to] = Joined(instr, ranges)

\* The name n of block b can be relied on because it was computed before the i-th
\* instruction or comes from the single predecessor; a parameter has no range in the
\* first block.
Explained(f, ranges, names, b, i, n, m) ==
  \/ \E j \in DOMAIN f.blocks[b] :
       /\ j < i /\ Assigns(f, b, j, n) /\ n \in DOMAIN m
       /\ ComputingOp(f, names, b, j, m) \/ ComputingPhi(f, ranges, names, b, j, m)
  \/ b = 1 /\ n \in ToSet(f.params) /\ n \notin DOMAIN m
  \/ /\ b # 1 /\ Known(f, n, b, 1)
     /\ \E p \in Blocks(f) :
          /\ Predecessors(f, b) = {p}
          /\ n \in Carried(f, p, names[p], ranges[p])
          /\ \/ tryGetRange([name |-> n], m) = tryGetRange([name |-> n], ranges[p])
             \/ FromBranch(f, ranges, p, b, n, tryGetRange([name |-> n], m))

BlockRight(f, ranges, names, b, i, m) ==
  /\ \A n \in DOMAIN m : Known(f, n, b, i)
  /\ \A n \in names[b] :
       /\ tryGetRange([name |-> n], m) \in RangesOf(Bounded)
       /\ Explained(f, ranges, names, b, i, n, m)

\* A return that was visited has its line, m being the ranges of its block.
RangeLine(f, b, m) ==
  LET r == tryGetRange(Terminator(f, b).args[1], m)
  IN  Line(b, r[1], r[2], r[1] = -Inf, r[2] = Inf)
HasLine(f, lines, b, m) ==
  IsReturn(Terminator(f, b)) => \E j \in DOMAIN lines : lines[j] = RangeLine(f, b, m)

\* What the pass knows of a function without loops.
RangesRight ==
  Forward(fn) /\ pc # "start" =>
    /\ \A b \in Blocks(fn) : b < next =>
         /\ BlockRight(fn, out, trusted, b, Len(fn.blocks[b]) + 1, out[b])
         /\ HasLine(fn, printed, b, out[b])
    /\ pc = "computing" =>
         /\ BlockRight(fn, out, trusted, next, turn, AtHand)
         /\ turn > Len(fn.blocks[next]) => HasLine(fn, printed, next, AtHand)

\* The values s of the names that block b will not assign any more from its i-th
\* instruction on lie in their ranges.
InRanges(f, ranges, names, s, b, i) ==
  \A n \in names[b] : Known(f, n, b, i) => Within(s[n], tryGetRange([name |-> n], ranges[b]))

\* Where an execution is, and that the names have values of their ranges: in the
\* block those that it will not assign any more, and all of the block before.
ExecutionRight ==
  /\ place = [block |-> place.block, i |-> place.i, from |-> place.from]
  /\ pc \notin Executing => place = [block |-> 1, i |-> 1, from |-> 0]
  /\ pc \in Executing =>
       /\ Forward(fn)
       /\ place.block \in Blocks(fn) /\ place.i \in DOMAIN fn.blocks[place.block]
       /\ place.block # 1 => place.from \in Predecessors(fn, place.block)
  /\ pc = "running" =>
       /\ DOMAIN store = Names(fn)
       /\ InRanges(fn, out, trusted, store, place.block, place.i)
       /\ place.block # 1 =>
            InRanges(fn, out, trusted, store, place.from, Len(fn.blocks[place.from]) + 1)

\* In a function with loops every line is an answer of processLoop, and a return that
\* was visited has printed one.
LoopLine(line) ==
  \E leftover \in Signs \cup {"none"}, g \in Leftovers \X Leftovers, b \in Blocks(fn) :
    line = Line(b, processLoop(leftover, g)[1], processLoop(leftover, g)[2], FALSE, FALSE)
LoopPrinted ==
  back_edge # {} =>
    /\ \A line \in Range(printed) : LoopLine(line)
    /\ \A b \in Blocks(fn) :
         /\ b < next \/ (b = next /\ pc = "computing" /\ turn > Len(fn.blocks[b]))
         /\ IsReturn(Terminator(fn, b))
         => printed # <<>>

IInv ==
  /\ TypeOK /\ LoopsFound
  /\ Forward(fn) => EntriesLearnt
  /\ EntriesMerged
  /\ RangesRight
  /\ ExecutionRight
  /\ LoopPrinted

-----------------------------------------------------------------------------
(* Numbers.                                                                *)

\* The integers of the program.
LEMMA Halves ==
  \E Q \in Nat \ {0} : /\ 2^(Width - 1) = Q /\ 2^Width = 2 * Q
                       /\ Greatest = Q - 1 /\ Integer = (-Q)..(Q - 1)
<1>1. Width - 1 \in 0..(Width - 1)
  BY WidthAssumption
<1>2. 2^(Width - 1) \in Nat \ {0} /\ 2^Width = 2 * 2^(Width - 1)
  BY <1>1, WidthAssumption
<1> QED BY <1>2 DEF Integer, Least, Greatest

\* Inf and the ranges up to it are among them.
LEMMA Ranging ==
  /\ Inf \in Nat /\ Bounded \subseteq Integer /\ Integer \subseteq Int /\ 0 \in Bounded
  /\ Greatest \in Nat /\ Integer = (-Greatest - 1)..Greatest
  /\ Inf \in Bounded /\ -Inf \in Bounded
<1>1. PICK Q \in Nat \ {0} : Greatest = Q - 1 /\ Integer = (-Q)..(Q - 1)
  BY Halves
<1> QED BY <1>1, RangeAssumption DEF Bounded

\* An integer is its own low bits.
LEMMA SignedSame ==
  ASSUME NEW n \in Integer
  PROVE  Signed(n) = n
<1>1. PICK Q \in Nat \ {0} : 2^(Width - 1) = Q /\ 2^Width = 2 * Q /\ Integer = (-Q)..(Q - 1)
  BY Halves
<1>2. Signed(n) = IF n % (2 * Q) >= Q THEN (n % (2 * Q)) - 2 * Q ELSE n % (2 * Q)
  BY <1>1 DEF Signed
<1>3. n \in (-Q)..(Q - 1)
  BY <1>1
<1>4. CASE n >= 0
  <2>1. n % (2 * Q) = n
    BY <1>3, <1>4
  <2> QED BY <2>1, <1>2, <1>3
<1>5. CASE n < 0
  <2>1. n % (2 * Q) = n + 2 * Q
    BY <1>3, <1>5
  <2> QED BY <2>1, <1>2, <1>3, <1>5
<1> QED BY <1>3, <1>4, <1>5

\* The low bits of a number make an integer of the program.
LEMMA SignedInteger ==
  ASSUME NEW n \in Int
  PROVE  Signed(n) \in Integer
<1>1. PICK Q \in Nat \ {0} : 2^(Width - 1) = Q /\ 2^Width = 2 * Q /\ Integer = (-Q)..(Q - 1)
  BY Halves
<1>2. Signed(n) = IF n % (2 * Q) >= Q THEN (n % (2 * Q)) - 2 * Q ELSE n % (2 * Q)
  BY <1>1 DEF Signed
<1>3. n % (2 * Q) \in 0..(2 * Q - 1)
  BY <1>1
<1> QED BY <1>1, <1>2, <1>3

\* The least and the greatest of two numbers, and of four.
LEMMA Extremes2 ==
  ASSUME NEW a \in Int, NEW b \in Int
  PROVE  /\ Max({a, b}) = IF a >= b THEN a ELSE b
         /\ Min({a, b}) = IF a <= b THEN a ELSE b
<1>1. \E x \in {a, b} : \A y \in {a, b} : x >= y
  OBVIOUS
<1>2. \E x \in {a, b} : \A y \in {a, b} : x <= y
  OBVIOUS
<1>3. Max({a, b}) \in {a, b} /\ \A y \in {a, b} : Max({a, b}) >= y
  BY <1>1 DEF Max
<1>4. Min({a, b}) \in {a, b} /\ \A y \in {a, b} : Min({a, b}) <= y
  BY <1>2 DEF Min
<1> QED BY <1>3, <1>4

LEMMA Extremes4 ==
  ASSUME NEW a \in Int, NEW b \in Int, NEW c \in Int, NEW d \in Int, NEW S, S = {a, b, c, d}
  PROVE  /\ Max(S) \in S /\ \A y \in S : Max(S) >= y
         /\ Min(S) \in S /\ \A y \in S : Min(S) <= y
<1>1. \E x \in S : \A y \in S : x >= y
  OBVIOUS
<1>2. \E x \in S : \A y \in S : x <= y
  OBVIOUS
<1> QED BY <1>1, <1>2 DEF Max, Min

\* A nonempty set of natural numbers has a least member.
LEMMA LeastNatural ==
  ASSUME NEW S \in SUBSET Nat, S # {}
  PROVE  \E m \in S : \A k \in S : m <= k
<1> DEFINE R == OpToRel(<, Nat)
<1>1. \E m \in S : \A k \in S : ~(<<k, m>> \in R)
  <2> HIDE DEF R
  <2> QED BY NatLessThanWellFounded, WFMin DEF R
<1>2. PICK m \in S : \A k \in S : ~(<<k, m>> \in R)
  BY <1>1
<1>3. \A k \in S : ~(k < m) /\ k \in Nat /\ m \in Nat
  BY <1>2 DEF OpToRel
<1> QED BY <1>3

\* So has a set of integers from A to B, and a greatest one.
LEMMA Extremes ==
  ASSUME NEW A \in Int, NEW B \in Int, NEW S \in SUBSET (A..B), S # {}
  PROVE  /\ Min(S) \in S /\ \A y \in S : Min(S) <= y
         /\ Max(S) \in S /\ \A y \in S : Max(S) >= y
<1> DEFINE up == {n \in Nat : A + n \in S}
           down == {n \in Nat : B - n \in S}
<1>1. PICK x \in S : TRUE
  OBVIOUS
<1>2. x - A \in up /\ B - x \in down
  BY <1>1
<1>3. PICK m \in up : \A k \in up : m <= k
  <2>1. up \in SUBSET Nat /\ up # {}
    BY <1>2
  <2> HIDE DEF up
  <2> QED BY <2>1, LeastNatural
<1>4. PICK n \in down : \A k \in down : n <= k
  <2>1. down \in SUBSET Nat /\ down # {}
    BY <1>2
  <2> HIDE DEF down
  <2> QED BY <2>1, LeastNatural
<1>5. A + m \in S /\ \A y \in S : A + m <= y
  <2>1. \A y \in S : y - A \in up
    OBVIOUS
  <2> QED BY <1>3, <2>1
<1>6. B - n \in S /\ \A y \in S : B - n >= y
  <2>1. \A y \in S : B - y \in down
    OBVIOUS
  <2> QED BY <1>4, <2>1
<1> QED BY <1>5, <1>6 DEF Min, Max

-----------------------------------------------------------------------------
(* Ranges.                                                                 *)

Operand == [const : Integer] \cup [name : STRING]

LEMMA OperandKinds ==
  /\ \A o \in Operand : IF IsConst(o) THEN o.const \in Integer /\ o = [const |-> o.const]
                       ELSE o.name \in STRING /\ o = [name |-> o.name]
  /\ \A n : ~IsConst([name |-> n]) /\ [name |-> n].name = n
<1>1. \A n : DOMAIN [name |-> n] = {"name"} /\ [name |-> n].name = n
  OBVIOUS
<1>2. \A c : DOMAIN [const |-> c] = {"const"}
  OBVIOUS
<1>3. \A o \in [const : Integer] : o = [const |-> o.const] /\ o.const \in Integer
  OBVIOUS
<1>4. \A o \in [name : STRING] : o = [name |-> o.name] /\ o.name \in STRING
  OBVIOUS
<1> QED BY <1>1, <1>2, <1>3, <1>4 DEF Operand, IsConst

\* The numbers of a range.
LEMMA RangeNumbers ==
  ASSUME NEW S, NEW r \in RangesOf(S)
  PROVE  /\ r \in Seq(S) /\ r # <<>>
         /\ r[1] \in S /\ r[2] \in S
         /\ Len(r) # 2 => Len(r) = 4 /\ r[3] \in S /\ r[4] \in S
  BY DEF RangesOf

LEMMA RangeMade ==
  ASSUME NEW S, NEW a \in S, NEW b \in S
  PROVE  <<a, b>> \in RangesOf(S) /\ Len(<<a, b>>) = 2
<1>1. <<a, b>> \in Seq(S) /\ Len(<<a, b>>) = 2
  OBVIOUS
<1> QED BY <1>1 DEF RangesOf

LEMMA RangeWithHole ==
  ASSUME NEW S, NEW a \in S, NEW b \in S, NEW c \in S, NEW d \in S
  PROVE  <<a, b, c, d>> \in RangesOf(S) /\ Len(<<a, b, c, d>>) = 4
<1>1. <<a, b, c, d>> \in Seq(S) /\ Len(<<a, b, c, d>>) = 4
  OBVIOUS
<1> QED BY <1>1 DEF RangesOf

LEMMA RangesLarger ==
  ASSUME NEW S, NEW T, S \subseteq T
  PROVE  RangesOf(S) \subseteq RangesOf(T)
<1>1. Seq(S) \subseteq Seq(T)
  OBVIOUS
<1> QED BY <1>1 DEF RangesOf

\* A name has a range, and so has an operand.
LEMMA RangeFound ==
  ASSUME NEW m, IsMap(m), NEW o \in Operand
  PROVE  tryGetRange(o, m) \in RangesOf(Integer) /\ RangeOf(o, m) \in RangesOf(Integer)
<1>1. Full \in RangesOf(Integer)
  BY RangeMade, Ranging DEF Full
<1>2. tryGetRange(o, m) \in RangesOf(Integer)
  BY <1>1 DEF tryGetRange, IsMap
<1>3. IsConst(o) => Single(o.const) \in RangesOf(Integer)
  BY OperandKinds, RangeMade DEF Single
<1> QED BY <1>2, <1>3 DEF RangeOf

\* What two ranges have in common.
Upper(a, b) == IF a >= b THEN a ELSE b
Lower(a, b) == IF a <= b THEN a ELSE b

LEMMA Common ==
  ASSUME NEW left, NEW right, left[1] \in Int, left[2] \in Int, right[1] \in Int, right[2] \in Int
  PROVE  Intersect(left, right) =
           IF Upper(left[1], right[1]) <= Lower(left[2], right[2])
           THEN <<Upper(left[1], right[1]), Lower(left[2], right[2])>> ELSE <<>>
<1>1. /\ Max({left[1], right[1]}) = Upper(left[1], right[1])
      /\ Min({left[2], right[2]}) = Lower(left[2], right[2])
  BY Extremes2 DEF Upper, Lower
<1> QED BY <1>1 DEF Intersect

\* It is between the ends of the second.
LEMMA CommonType ==
  ASSUME NEW A \in Int, NEW B \in Int, NEW left, left[1] \in Int, left[2] \in Int,
         NEW right, right[1] \in A..B, right[2] \in A..B
  PROVE  Intersect(left, right) \in {<<>>} \cup RangesOf(A..B)
<1> DEFINE lo == Upper(left[1], right[1])
           hi == Lower(left[2], right[2])
<1>1. lo <= hi => lo \in A..B /\ hi \in A..B
  BY DEF Upper, Lower
<1>2. Intersect(left, right) = IF lo <= hi THEN <<lo, hi>> ELSE <<>>
  BY Common
<1> HIDE DEF lo, hi
<1>3. CASE lo <= hi
  BY <1>1, <1>2, <1>3, RangeMade
<1> QED BY <1>2, <1>3

\* A value that both have is there.
LEMMA CommonHolds ==
  ASSUME NEW left, NEW right, left[1] \in Int, left[2] \in Int, right[1] \in Int, right[2] \in Int,
         NEW v \in left[1]..left[2], v \in right[1]..right[2]
  PROVE  Intersect(left, right) # <<>> /\ Within(v, Intersect(left, right))
<1> DEFINE lo == Upper(left[1], right[1])
           hi == Lower(left[2], right[2])
<1>1. lo <= v /\ v <= hi /\ lo <= hi /\ v \in lo..hi
  BY DEF Upper, Lower
<1>2. Intersect(left, right) = IF lo <= hi THEN <<lo, hi>> ELSE <<>>
  BY Common
<1> HIDE DEF lo, hi
<1>3. Intersect(left, right) = <<lo, hi>>
  BY <1>1, <1>2
<1>4. Intersect(left, right)[1] = lo /\ Intersect(left, right)[2] = hi /\ Intersect(left, right) # <<>>
  BY <1>3
<1> QED BY <1>1, <1>4 DEF Within

\* A range without a point, if it has the point.
LEMMA CutOut ==
  ASSUME NEW A \in Int, NEW B \in Int, NEW left, left[1] \in A..B, left[2] \in A..B, NEW c \in Int
  PROVE  /\ Cut(left, c) \in {<<>>} \cup RangesOf(A..B)
         /\ \A v \in left[1]..left[2] : v # c /\ Cut(left, c) # <<>> => Within(v, Cut(left, c))
<1>1. /\ Single(c)[1] = c /\ Single(c)[2] = c
  BY DEF Single
<1>2. CASE Intersect(left, Single(c)) = <<>>
  BY <1>2 DEF Cut
<1>3. CASE Intersect(left, Single(c)) # <<>>
  <2>1. Upper(left[1], c) <= Lower(left[2], c)
    BY <1>1, <1>3, Common
  <2>2. left[1] <= c /\ c <= left[2]
    BY <2>1 DEF Upper, Lower
  <2>3. CASE left[1] < c /\ c < left[2]
    <3>1. Cut(left, c) = <<left[1], c - 1, c + 1, left[2]>>
      BY <1>3, <2>3 DEF Cut
    <3>2. c - 1 \in A..B /\ c + 1 \in A..B
      BY <2>3
    <3>3. Cut(left, c) \in RangesOf(A..B) /\ Len(Cut(left, c)) = 4
      <4> DEFINE S == A..B
                 p == c - 1
                 q == c + 1
      <4>1. left[1] \in S /\ p \in S /\ q \in S /\ left[2] \in S /\ Cut(left, c) = <<left[1], p, q, left[2]>>
        BY <3>1, <3>2
      <4> HIDE DEF S, p, q
      <4>2. Cut(left, c) \in RangesOf(S) /\ Len(Cut(left, c)) = 4
        BY <4>1, RangeWithHole
      <4> QED BY <4>2 DEF S
    <3>4. /\ Cut(left, c)[1] = left[1] /\ Cut(left, c)[2] = c - 1
          /\ Cut(left, c)[3] = c + 1 /\ Cut(left, c)[4] = left[2]
      BY <3>1
    <3> QED BY <3>3, <3>4 DEF Within
  <2>4. CASE left[1] = c /\ c < left[2]
    <3>1. Cut(left, c) = <<c + 1, left[2]>>
      BY <1>3, <2>4 DEF Cut
    <3>2. c + 1 \in A..B
      BY <2>4
    <3>3. Cut(left, c) \in RangesOf(A..B)
      BY <3>1, <3>2, RangeMade
    <3>4. Cut(left, c)[1] = c + 1 /\ Cut(left, c)[2] = left[2]
      BY <3>1
    <3> QED BY <2>4, <3>3, <3>4 DEF Within
  <2>5. CASE left[1] < c /\ c = left[2]
    <3>1. Cut(left, c) = <<left[1], c - 1>>
      BY <1>3, <2>5 DEF Cut
    <3>2. c - 1 \in A..B
      BY <2>5
    <3>3. Cut(left, c) \in RangesOf(A..B)
      BY <3>1, <3>2, RangeMade
    <3>4. Cut(left, c)[1] = left[1] /\ Cut(left, c)[2] = c - 1
      BY <3>1
    <3> QED BY <2>5, <3>3, <3>4 DEF Within
  <2>6. CASE left[1] = c /\ c = left[2]
    BY <1>3, <2>6 DEF Cut
  <2> QED BY <2>2, <2>3, <2>4, <2>5, <2>6
<1> QED BY <1>2, <1>3

\* The range of an operand without a point, and the point alone.
LEMMA WithoutPoint ==
  ASSUME NEW A \in Int, NEW B \in Int, NEW r \in RangesOf(A..B), NEW c \in Int
  PROVE  /\ (IF Cut(r, c) = <<>> THEN r ELSE Cut(r, c)) \in RangesOf(A..B)
         /\ Intersect(r, Single(c)) \in {<<>>} \cup RangesOf(A..B)
         /\ \A v \in r[1]..r[2] :
              /\ v # c => Within(v, IF Cut(r, c) = <<>> THEN r ELSE Cut(r, c))
              /\ v = c => Within(v, Intersect(r, Single(c)))
<1>1. r[1] \in A..B /\ r[2] \in A..B
  BY RangeNumbers
<1>2. Single(c)[1] = c /\ Single(c)[2] = c
  BY DEF Single
<1>3. /\ Cut(r, c) \in {<<>>} \cup RangesOf(A..B)
      /\ \A v \in r[1]..r[2] : v # c /\ Cut(r, c) # <<>> => Within(v, Cut(r, c))
  BY <1>1, CutOut
<1>4. Intersect(r, Single(c)) \in {<<>>} \cup RangesOf(A..B)
  <2> DEFINE lo == Upper(r[1], c)
             hi == Lower(r[2], c)
  <2>1. lo <= hi => lo \in A..B /\ hi \in A..B
    BY <1>1 DEF Upper, Lower
  <2>2. Intersect(r, Single(c)) = IF lo <= hi THEN <<lo, hi>> ELSE <<>>
    BY <1>1, <1>2, Common
  <2> HIDE DEF lo, hi
  <2>3. CASE lo <= hi
    BY <2>1, <2>2, <2>3, RangeMade
  <2> QED BY <2>2, <2>3
<1>5. \A v \in r[1]..r[2] : v = c => Within(v, Intersect(r, Single(c)))
  <2> TAKE v \in r[1]..r[2]
  <2> HAVE v = c
  <2>1. v \in Single(c)[1]..Single(c)[2]
    BY <1>2
  <2> QED BY <1>1, <1>2, <2>1, CommonHolds
<1>6. \A v \in r[1]..r[2] : Within(v, r)
  BY DEF Within
<1> QED BY <1>3, <1>4, <1>5, <1>6

\* What a comparison says of its left operand, by the four kinds of tests.
LEMMA BoundsOfTests ==
  ASSUME NEW test \in Tests \ {"eq", "ne"}, NEW r, r[1] \in Int, r[2] \in Int, NEW e \in 1..2
  PROVE  /\ Bounds(test, r)[e][1] \in Int /\ Bounds(test, r)[e][2] \in Int
         /\ \A v \in Bounded, w \in r[1]..r[2] :
              test \notin Unsigns /\ (Compares(test, v, w) <=> e = 1)
                => v \in Bounds(test, r)[e][1]..Bounds(test, r)[e][2]
<1>1. Inf \in Int /\ -Inf \in Int /\ \A v \in Bounded : v \in Int /\ -Inf <= v /\ v <= Inf
  BY Ranging DEF Bounded
<1>2. e = 1 \/ e = 2
  OBVIOUS
<1>3. CASE test \in {"sgt", "ugt"}
  <2>1. Bounds(test, r) = <<<<r[1] + 1, Inf>>, <<-Inf, r[2]>>>>
    BY <1>3 DEF Bounds, Greater, Less, GreaterEqual, LessEqual
  <2>2. test \notin Unsigns => \A v, w : Compares(test, v, w) <=> v > w
    BY <1>3 DEF Compares, Unsigns
  <2> QED BY <1>1, <1>2, <2>1, <2>2
<1>4. CASE test \in {"slt", "ult"}
  <2>1. Bounds(test, r) = <<<<-Inf, r[2] - 1>>, <<r[1], Inf>>>>
    BY <1>4 DEF Bounds, Greater, Less, GreaterEqual, LessEqual
  <2>2. test \notin Unsigns => \A v, w : Compares(test, v, w) <=> v < w
    BY <1>4 DEF Compares, Unsigns
  <2> QED BY <1>1, <1>2, <2>1, <2>2
<1>5. CASE test \in {"sge", "uge"}
  <2>1. Bounds(test, r) = <<<<r[1], Inf>>, <<-Inf, r[2] - 1>>>>
    BY <1>5 DEF Bounds, Greater, Less, GreaterEqual, LessEqual
  <2>2. test \notin Unsigns => \A v, w : Compares(test, v, w) <=> v >= w
    BY <1>5 DEF Compares, Unsigns
  <2> QED BY <1>1, <1>2, <2>1, <2>2
<1>6. CASE test \in {"sle", "ule"}
  <2>1. Bounds(test, r) = <<<<-Inf, r[2]>>, <<r[1] + 1, Inf>>>>
    BY <1>6 DEF Bounds, Greater, Less, GreaterEqual, LessEqual
  <2>2. test \notin Unsigns => \A v, w : Compares(test, v, w) <=> v <= w
    BY <1>6 DEF Compares, Unsigns
  <2> QED BY <1>1, <1>2, <2>1, <2>2
<1> QED BY <1>3, <1>4, <1>5, <1>6 DEF Tests, Signs, Unsigns

\* Every range that a comparison gives an operand has ends between those of its
\* range, A and B.
LEMMA RefinedType ==
  ASSUME NEW A \in Int, NEW B \in Int, NEW test \in Tests, NEW m, NEW x \in Operand, NEW y \in Operand,
         tryGetRange(x, m) \in RangesOf(A..B), RangeOf(y, m) \in RangesOf(Integer), NEW e \in 1..2
  PROVE  Refined(test, x, y, m)[e] \in {<<>>} \cup RangesOf(A..B)
<1> DEFINE r == tryGetRange(x, m)
<1>1. e = 1 \/ e = 2
  OBVIOUS
<1>2. IsConst(y) => y.const \in Int
  BY OperandKinds, Ranging
<1>3. IsConst(y) => /\ (IF Cut(r, y.const) = <<>> THEN r ELSE Cut(r, y.const)) \in RangesOf(A..B)
                   /\ Intersect(r, Single(y.const)) \in {<<>>} \cup RangesOf(A..B)
  BY <1>2, WithoutPoint
<1>4. CASE test = "eq" /\ IsConst(y)
  <2>1. Refined(test, x, y, m) = Equal(x, y.const, m)
    BY <1>4 DEF Refined
  <2>2. Equal(x, y.const, m) = <<<<>>, <<>>>> \/
        Equal(x, y.const, m) = <<Intersect(r, Single(y.const)), IF Cut(r, y.const) = <<>> THEN r ELSE Cut(r, y.const)>>
    BY DEF Equal
  <2> QED BY <1>1, <1>3, <1>4, <2>1, <2>2
<1>5. CASE test = "ne" /\ IsConst(y)
  <2>1. Refined(test, x, y, m) = NotEqual(x, y.const, m)
    BY <1>5 DEF Refined
  <2>2. NotEqual(x, y.const, m) = <<IF Cut(r, y.const) = <<>> THEN r ELSE Cut(r, y.const), Intersect(r, Single(y.const))>>
    BY DEF NotEqual
  <2> QED BY <1>1, <1>3, <1>5, <2>1, <2>2
<1>6. CASE test \in {"eq", "ne"} /\ ~IsConst(y)
  <2>1. Refined(test, x, y, m) = <<<<>>, <<>>>>
    BY <1>6 DEF Refined
  <2> QED BY <1>1, <2>1
<1>7. CASE test \notin {"eq", "ne"}
  <2>1. Refined(test, x, y, m)[e] = Intersect(Bounds(test, RangeOf(y, m))[e], r)
    BY <1>7 DEF Refined
  <2>2. RangeOf(y, m)[1] \in Int /\ RangeOf(y, m)[2] \in Int
    BY RangeNumbers, Ranging
  <2>3. Bounds(test, RangeOf(y, m))[e][1] \in Int /\ Bounds(test, RangeOf(y, m))[e][2] \in Int
    BY <1>7, <2>2, BoundsOfTests
  <2>4. r[1] \in A..B /\ r[2] \in A..B
    BY RangeNumbers
  <2> HIDE DEF r
  <2> QED BY <2>1, <2>3, <2>4, CommonType
<1> QED BY <1>4, <1>5, <1>6, <1>7

\* A value of an operand stays in the range that the comparison gives it on the edge
\* that is taken, if both are in their ranges.
LEMMA RefinedHolds ==
  ASSUME NEW test \in Tests \ Unsigns, NEW m, NEW x \in Operand, NEW y \in Operand, NEW e \in 1..2,
         tryGetRange(x, m) \in RangesOf(Bounded), RangeOf(y, m) \in RangesOf(Integer),
         NEW v \in tryGetRange(x, m)[1]..tryGetRange(x, m)[2],
         NEW w \in RangeOf(y, m)[1]..RangeOf(y, m)[2],
         IsConst(y) => w = y.const,
         Compares(test, v, w) <=> e = 1,
         Refined(test, x, y, m)[e] # <<>>
  PROVE  Within(v, Refined(test, x, y, m)[e])
<1> DEFINE r == tryGetRange(x, m)
<1>1. e = 1 \/ e = 2
  OBVIOUS
<1>2. IsConst(y) => y.const \in Int
  BY OperandKinds, Ranging
<1>3. IsConst(y) =>
        /\ v # y.const => Within(v, IF Cut(r, y.const) = <<>> THEN r ELSE Cut(r, y.const))
        /\ v = y.const => Within(v, Intersect(r, Single(y.const)))
  <2>1. Bounded = (-Inf)..Inf /\ -Inf \in Int /\ Inf \in Int
    BY Ranging DEF Bounded
  <2> QED BY <1>2, <2>1, WithoutPoint
<1>4. CASE test = "eq" /\ IsConst(y)
  <2>1. Refined(test, x, y, m) = Equal(x, y.const, m)
    BY <1>4 DEF Refined
  <2>2. \/ Equal(x, y.const, m) = <<<<>>, <<>>>>
        \/ Equal(x, y.const, m) = <<Intersect(r, Single(y.const)), IF Cut(r, y.const) = <<>> THEN r ELSE Cut(r, y.const)>>
    BY DEF Equal
  <2>3. Compares(test, v, w) <=> v = y.const
    BY <1>4 DEF Compares, Unsigns
  <2> HIDE DEF r
  <2> QED BY <1>1, <1>3, <1>4, <2>1, <2>2, <2>3
<1>5. CASE test = "ne" /\ IsConst(y)
  <2>1. Refined(test, x, y, m) = NotEqual(x, y.const, m)
    BY <1>5 DEF Refined
  <2>2. NotEqual(x, y.const, m) = <<IF Cut(r, y.const) = <<>> THEN r ELSE Cut(r, y.const), Intersect(r, Single(y.const))>>
    BY DEF NotEqual
  <2>3. Compares(test, v, w) <=> v # y.const
    BY <1>5 DEF Compares, Unsigns
  <2> HIDE DEF r
  <2> QED BY <1>1, <1>3, <1>5, <2>1, <2>2, <2>3
<1>6. CASE test \in {"eq", "ne"} /\ ~IsConst(y)
  <2>1. Refined(test, x, y, m) = <<<<>>, <<>>>>
    BY <1>6 DEF Refined
  <2> QED BY <1>1, <2>1
<1>7. CASE test \notin {"eq", "ne"}
  <2> DEFINE s == RangeOf(y, m)
             left == Bounds(test, s)[e]
  <2>1. Refined(test, x, y, m)[e] = Intersect(left, r)
    BY <1>7 DEF Refined
  <2>2. s[1] \in Int /\ s[2] \in Int
    BY RangeNumbers, Ranging
  <2>3. r[1] \in Bounded /\ r[2] \in Bounded
    BY RangeNumbers
  <2>4. r[1] \in Int /\ r[2] \in Int /\ v \in Bounded
    BY <2>3, Ranging DEF Bounded
  <2>5. test \in Tests \ {"eq", "ne"} /\ test \notin Unsigns
    BY <1>7
  <2>6. left[1] \in Int /\ left[2] \in Int /\ v \in left[1]..left[2]
    <3> HIDE DEF r
    <3> QED BY <2>2, <2>4, <2>5, BoundsOfTests
  <2>7. v \in r[1]..r[2]
    OBVIOUS
  <2> HIDE DEF r, s, left
  <2> QED BY <2>1, <2>4, <2>6, <2>7, CommonHolds
<1> QED BY <1>4, <1>5, <1>6, <1>7

\* A comparison seen from the right.
LEMMA TurnedRight ==
  ASSUME NEW test \in Tests
  PROVE  /\ Turned(test) \in Tests /\ (Turned(test) \in Unsigns <=> test \in Unsigns)
         /\ \A v, w \in Int : test \notin Unsigns => (Compares(Turned(test), w, v) <=> Compares(test, v, w))
<1>1. CASE test \in {"eq", "ne"}
  <2>1. Turned(test) = test
    BY <1>1 DEF Turned
  <2> QED BY <1>1, <2>1 DEF Compares, Unsigns
<1>2. CASE test \in Unsigns
  <2>1. Turned(test) \in Unsigns
    BY <1>2 DEF Turned, Unsigns
  <2> QED BY <1>2, <2>1 DEF Tests
<1>3. CASE test \in Signs
  <2>2. /\ test = "sgt" => Turned(test) = "slt"
        /\ test = "slt" => Turned(test) = "sgt"
        /\ test = "sge" => Turned(test) = "sle"
        /\ test = "sle" => Turned(test) = "sge"
    BY DEF Turned
  <2>3. \A v, w \in Int : /\ Compares("sgt", v, w) <=> v > w
                          /\ Compares("slt", v, w) <=> v < w
                          /\ Compares("sge", v, w) <=> v >= w
                          /\ Compares("sle", v, w) <=> v <= w
    BY DEF Compares, Unsigns
  <2> QED BY <1>3, <2>2, <2>3 DEF Tests, Signs, Unsigns
<1> QED BY <1>1, <1>2, <1>3 DEF Tests

-----------------------------------------------------------------------------
(* Arithmetic of ranges.                                                   *)

\* A product is between those of the ends.
LEMMA Between ==
  ASSUME NEW a \in Int, NEW b \in Int, NEW v \in a..b, NEW w \in Int
  PROVE  (a * w <= v * w /\ v * w <= b * w) \/ (b * w <= v * w /\ v * w <= a * w)
<1>1. CASE w >= 0
  <2>1. (v - a) * w >= 0 /\ (b - v) * w >= 0
    BY <1>1
  <2>2. (v - a) * w = v * w - a * w /\ (b - v) * w = b * w - v * w
    OBVIOUS
  <2>3. v * w \in Int /\ a * w \in Int /\ b * w \in Int
    OBVIOUS
  <2> QED BY <2>1, <2>2, <2>3
<1>2. CASE w < 0
  <2>1. (v - a) * w <= 0 /\ (b - v) * w <= 0
    BY <1>2
  <2>2. (v - a) * w = v * w - a * w /\ (b - v) * w = b * w - v * w
    OBVIOUS
  <2>3. v * w \in Int /\ a * w \in Int /\ b * w \in Int
    OBVIOUS
  <2> QED BY <2>1, <2>2, <2>3
<1> QED BY <1>1, <1>2

\* The four products of the ends of two ranges.
Products(r, s) == {r[i] * s[j] : i, j \in 1..2}

LEMMA ProductsAre ==
  ASSUME NEW r, NEW s, r[1] \in Int, r[2] \in Int, s[1] \in Int, s[2] \in Int
  PROVE  /\ Min(Products(r, s)) \in Int /\ Max(Products(r, s)) \in Int
         /\ \A v \in r[1]..r[2], w \in s[1]..s[2] :
              Min(Products(r, s)) <= v * w /\ v * w <= Max(Products(r, s))
<1> DEFINE a == r[1] * s[1]
           b == r[1] * s[2]
           c == r[2] * s[1]
           d == r[2] * s[2]
<1>1. a \in Int /\ b \in Int /\ c \in Int /\ d \in Int
  OBVIOUS
<1>2. Products(r, s) = {a, b, c, d}
  <2>1. 1..2 = {1, 2}
    OBVIOUS
  <2> QED BY <2>1 DEF Products
<1>3. ASSUME NEW v \in r[1]..r[2], NEW w \in s[1]..s[2]
      PROVE  \E x, y \in {a, b, c, d} : x <= v * w /\ v * w <= y
  <2>1. (r[1] * w <= v * w /\ v * w <= r[2] * w) \/ (r[2] * w <= v * w /\ v * w <= r[1] * w)
    BY Between
  <2>2. \/ s[1] * r[1] <= w * r[1] /\ w * r[1] <= s[2] * r[1]
        \/ s[2] * r[1] <= w * r[1] /\ w * r[1] <= s[1] * r[1]
    BY Between
  <2>3. \/ s[1] * r[2] <= w * r[2] /\ w * r[2] <= s[2] * r[2]
        \/ s[2] * r[2] <= w * r[2] /\ w * r[2] <= s[1] * r[2]
    BY Between
  <2>4. /\ s[1] * r[1] = a /\ s[2] * r[1] = b /\ s[1] * r[2] = c /\ s[2] * r[2] = d
        /\ w * r[1] = r[1] * w /\ w * r[2] = r[2] * w
    OBVIOUS
  <2>5. v * w \in Int /\ r[1] * w \in Int /\ r[2] * w \in Int
    OBVIOUS
  <2> DEFINE p == r[1] * w
             q == r[2] * w
             u == v * w
  <2>6. /\ (p <= u /\ u <= q) \/ (q <= u /\ u <= p)
        /\ (a <= p /\ p <= b) \/ (b <= p /\ p <= a)
        /\ (c <= q /\ q <= d) \/ (d <= q /\ q <= c)
    BY <2>1, <2>2, <2>3, <2>4
  <2>7. p \in Int /\ q \in Int /\ u \in Int
    BY <2>5
  <2>8. \E x, y \in {a, b, c, d} : x <= u /\ u <= y
    <3> HIDE DEF a, b, c, d, p, q, u
    <3> QED BY <1>1, <2>6, <2>7
  <2> QED BY <2>8
<1> DEFINE S == Products(r, s)
<1>4. /\ Max(S) \in S /\ \A y \in S : Max(S) >= y
      /\ Min(S) \in S /\ \A y \in S : Min(S) <= y
  <2> HIDE DEF a, b, c, d, S
  <2> QED BY <1>1, <1>2, Extremes4 DEF S
<1>5. \A v \in r[1]..r[2], w \in s[1]..s[2] : v * w \in Int
  OBVIOUS
<1>6. Min(S) \in Int /\ Max(S) \in Int
  <2> HIDE DEF a, b, c, d
  <2> QED BY <1>1, <1>2, <1>4
<1>7. \A v \in r[1]..r[2], w \in s[1]..s[2] : Min(S) <= v * w /\ v * w <= Max(S)
  <2> TAKE v \in r[1]..r[2], w \in s[1]..s[2]
  <2> DEFINE u == v * w
  <2>1. PICK x, y \in S : x <= u /\ u <= y
    BY <1>2, <1>3
  <2>2. u \in Int /\ x \in Int /\ y \in Int
    <3> HIDE DEF a, b, c, d, u
    <3> QED BY <1>1, <1>2, <1>5 DEF u
  <2>3. Min(S) <= x /\ y <= Max(S)
    BY <1>4
  <2> HIDE DEF u, S
  <2>4. Min(S) <= u /\ u <= Max(S)
    BY <1>6, <2>1, <2>2, <2>3
  <2> QED BY <2>4 DEF u
<1> QED BY <1>6, <1>7

\* The product of two ranges is made of integers and has the products of their
\* values; for the square of a range nothing is left over.
LEMMA ProductRight ==
  ASSUME NEW r, NEW s, r[1] \in Int, r[2] \in Int, s[1] \in Int, s[2] \in Int,
         NEW square \in BOOLEAN, NEW g, g[1] \in Int, g[2] \in Int
  PROVE  /\ Product(r, s, square, g)[1] \in Int /\ Product(r, s, square, g)[2] \in Int
         /\ ~square => \A v \in r[1]..r[2], w \in s[1]..s[2] :
              v * w \in Product(r, s, square, g)[1]..Product(r, s, square, g)[2]
         /\ square => \A v \in r[1]..r[2] :
              v * v \in Product(r, s, square, g)[1]..Product(r, s, square, g)[2]
<1>1. CASE ~square
  <2>1. Product(r, s, square, g) = <<Min(Products(r, s)), Max(Products(r, s))>>
    BY <1>1 DEF Product, Products
  <2>2. /\ Min(Products(r, s)) \in Int /\ Max(Products(r, s)) \in Int
        /\ \A v \in r[1]..r[2], w \in s[1]..s[2] :
              Min(Products(r, s)) <= v * w /\ v * w <= Max(Products(r, s))
    BY ProductsAre
  <2>3. \A v \in r[1]..r[2], w \in s[1]..s[2] : v * w \in Int
    OBVIOUS
  <2> DEFINE lo == Min(Products(r, s))
             hi == Max(Products(r, s))
  <2>4. \A v \in r[1]..r[2], w \in s[1]..s[2] : v * w \in lo..hi
    <3> TAKE v \in r[1]..r[2], w \in s[1]..s[2]
    <3> DEFINE u == v * w
    <3>1. lo <= u /\ u <= hi /\ u \in Int /\ lo \in Int /\ hi \in Int
      BY <2>2, <2>3
    <3> HIDE DEF u, lo, hi
    <3>2. u \in lo..hi
      BY <3>1
    <3> QED BY <3>2 DEF u
  <2>5. Product(r, s, square, g)[1] = lo /\ Product(r, s, square, g)[2] = hi
    BY <2>1
  <2>6. lo \in Int /\ hi \in Int
    BY <2>2
  <2> HIDE DEF lo, hi
  <2> QED BY <1>1, <2>4, <2>5, <2>6
<1>2. CASE square
  <2>1. \A a, b \in Int : (a <= b /\ b <= 0) => b * b <= a * a
    <3> TAKE a, b \in Int
    <3> HAVE a <= b /\ b <= 0
    <3>1. (b - a) * (-b - a) >= 0
      OBVIOUS
    <3>2. (b - a) * (-b - a) = a * a - b * b /\ a * a \in Int /\ b * b \in Int
      OBVIOUS
    <3> QED BY <3>1, <3>2
  <2>2. \A a, b \in Int : (0 <= a /\ a <= b) => a * a <= b * b
    <3> TAKE a, b \in Int
    <3> HAVE 0 <= a /\ a <= b
    <3>1. (b - a) * (b + a) >= 0
      OBVIOUS
    <3>2. (b - a) * (b + a) = b * b - a * a /\ a * a \in Int /\ b * b \in Int
      OBVIOUS
    <3> QED BY <3>1, <3>2
  <2>3. \A a \in Int : a * a \in Int /\ a * a >= 0
    OBVIOUS
  <2> DEFINE p == r[1] * r[1]
             q == r[2] * r[2]
  <2>4. p \in Int /\ q \in Int
    BY <2>3
  <2>5. \A v \in r[1]..r[2] : v \in Int /\ r[1] <= v /\ v <= r[2]
    OBVIOUS
  <2>6. CASE r[1] <= 0 /\ r[2] <= 0
    <3>1. Product(r, s, square, g) = <<q, p>>
      BY <1>2, <2>6 DEF Product
    <3>2. \A v \in r[1]..r[2] : q <= v * v /\ v * v <= p /\ v * v \in Int
      BY <2>1, <2>3, <2>5, <2>6
    <3>3. \A v \in r[1]..r[2] : v * v \in q..p
      <4> TAKE v \in r[1]..r[2]
      <4> DEFINE u == v * v
      <4>1. q <= u /\ u <= p /\ u \in Int
        BY <3>2
      <4> HIDE DEF u, p, q
      <4> QED BY <2>4, <4>1 DEF u
    <3>4. Product(r, s, square, g)[1] = q /\ Product(r, s, square, g)[2] = p
      BY <3>1
    <3> HIDE DEF p, q
    <3> QED BY <1>2, <2>4, <3>3, <3>4
  <2>7. CASE r[1] <= 0 /\ ~(r[2] <= 0)
    <3> DEFINE h == Max({p, q})
    <3>1. Product(r, s, square, g) = <<0, h>>
      BY <1>2, <2>7 DEF Product
    <3>2. h \in Int /\ p <= h /\ q <= h
      <4> HIDE DEF p, q
      <4> QED BY <2>4, Extremes2
    <3>3. \A v \in r[1]..r[2] : 0 <= v * v /\ (v * v <= p \/ v * v <= q) /\ v * v \in Int
      <4> TAKE v \in r[1]..r[2]
      <4>1. CASE v <= 0
        BY <2>1, <2>3, <2>5, <4>1
      <4>2. CASE v > 0
        BY <2>2, <2>3, <2>5, <4>2
      <4> QED BY <2>5, <4>1, <4>2
    <3>4. \A v \in r[1]..r[2] : v * v \in 0..h
      <4> TAKE v \in r[1]..r[2]
      <4> DEFINE u == v * v
      <4>1. 0 <= u /\ (u <= p \/ u <= q) /\ u \in Int
        BY <3>3
      <4> HIDE DEF u, p, q, h
      <4> QED BY <2>4, <3>2, <4>1 DEF u
    <3> DEFINE z == 0
    <3>5. /\ Product(r, s, square, g)[1] = z /\ Product(r, s, square, g)[2] = h /\ z \in Int
          /\ \A v \in r[1]..r[2] : v * v \in z..h
      BY <3>1, <3>4
    <3> HIDE DEF p, q, h, z
    <3> QED BY <1>2, <3>2, <3>5
  <2>8. CASE r[1] > 0
    <3>1. Product(r, s, square, g) = <<p, q>>
      BY <1>2, <2>8 DEF Product
    <3>2. \A v \in r[1]..r[2] : p <= v * v /\ v * v <= q /\ v * v \in Int
      BY <2>2, <2>3, <2>5, <2>8
    <3>3. \A v \in r[1]..r[2] : v * v \in p..q
      <4> TAKE v \in r[1]..r[2]
      <4> DEFINE u == v * v
      <4>1. p <= u /\ u <= q /\ u \in Int
        BY <3>2
      <4> HIDE DEF u, p, q
      <4> QED BY <2>4, <4>1 DEF u
    <3>4. Product(r, s, square, g)[1] = p /\ Product(r, s, square, g)[2] = q
      BY <3>1
    <3> HIDE DEF p, q
    <3> QED BY <1>2, <2>4, <3>3, <3>4
  <2> QED BY <2>6, <2>7, <2>8
<1> QED BY <1>1, <1>2

\* What a quotient that is defined leaves is a number.
LEMMA QuotientNumber ==
  ASSUME NEW a \in Int, NEW b \in Int, b # 0
  PROVE  Quotient(a, b) \in Int
<1> DEFINE abs(n) == IF n < 0 THEN -n ELSE n
           q == abs(a) \div abs(b)
<1>1. abs(a) \in Nat /\ abs(b) \in Nat \ {0}
  OBVIOUS
<1>2. q \in Int
  <2> HIDE DEF abs
  <2> QED BY <1>1
<1>3. Quotient(a, b) = IF (a < 0) = (b < 0) THEN q ELSE -q
  BY DEF Quotient
<1> HIDE DEF q
<1> QED BY <1>2, <1>3

\* A binary operator with its operands, and two numbers left over.
BinaryInstr(instr) == instr.op \in BinaryOp /\ instr.args[1] \in Operand /\ instr.args[2] \in Operand

\* The difference of two ranges.
LEMMA DifferenceRight ==
  ASSUME NEW a \in Operand, NEW b \in Operand, NEW r, NEW s,
         r[1] \in Int, r[2] \in Int, s[1] \in Int, s[2] \in Int
  PROVE  /\ Difference(a, b, r, s)[1] \in Int /\ Difference(a, b, r, s)[2] \in Int
         /\ (IsConst(a) => IsConst(b)) => \A v \in r[1]..r[2], w \in s[1]..s[2] :
              (a = b => v = w /\ r = s) /\ (IsConst(a) => r[1] = r[2])
                => v - w \in Difference(a, b, r, s)[1]..Difference(a, b, r, s)[2]
<1>1. CASE IsConst(a) /\ ~IsConst(b)
  <2>1. Difference(a, b, r, s) = <<s[1] - a.const, s[2] - a.const>>
    BY <1>1 DEF Difference
  <2>2. a.const \in Int
    BY <1>1, OperandKinds, Ranging
  <2> QED BY <1>1, <2>1, <2>2
<1>2. CASE ~(IsConst(a) /\ ~IsConst(b)) /\ a = b
  <2>1. Difference(a, b, r, s) = <<r[1] - s[1], r[2] - s[2]>>
    BY <1>2 DEF Difference
  <2> QED BY <1>2, <2>1
<1>3. CASE ~(IsConst(a) /\ ~IsConst(b)) /\ a # b
  <2>1. Difference(a, b, r, s) = <<r[1] - s[2], r[2] - s[1]>>
    BY <1>3 DEF Difference
  <2> QED BY <1>3, <2>1
<1> QED BY <1>1, <1>2, <1>3

\* The ends of a result are numbers; those that are right hold the result.
LEMMA EndsRight ==
  ASSUME NEW instr, BinaryInstr(instr), ~DividesByZero(instr), NEW m, IsMap(m),
         NEW g \in Leftovers \X Leftovers
  PROVE  /\ Ends(instr, m, g)[1] \in Int /\ Ends(instr, m, g)[2] \in Int
         /\ Computed(instr, m, g) \in RangesOf(Integer)
         /\ Computed(instr, m, g)[1] = Signed(Ends(instr, m, g)[1])
         /\ Computed(instr, m, g)[2] = Signed(Ends(instr, m, g)[2])
<1> DEFINE a == instr.args[1]
           b == instr.args[2]
           r == RangeOf(a, m)
           s == RangeOf(b, m)
           ends == Ends(instr, m, g)
<1>1. g[1] \in Int /\ g[2] \in Int
  BY RangeAssumption, Ranging
<1>2. r[1] \in Int /\ r[2] \in Int /\ s[1] \in Int /\ s[2] \in Int
  BY RangeFound, RangeNumbers, Ranging DEF BinaryInstr
<1>3. IsConst(a) => a.const \in Int
  BY OperandKinds, Ranging DEF BinaryInstr
<1>4. IsConst(b) => b.const \in Int
  BY OperandKinds, Ranging DEF BinaryInstr
<1>5. ends[1] \in Int /\ ends[2] \in Int
  <2>1. CASE instr.op = "add"
    <3>1. ends = <<r[1] + s[1], r[2] + s[2]>>
      BY <2>1 DEF Ends
    <3> HIDE DEF r, s, ends
    <3> QED BY <1>2, <3>1
  <2>2. CASE instr.op = "sub"
    <3>1. ends = Difference(a, b, r, s)
      BY <2>2 DEF Ends
    <3>2. a \in Operand /\ b \in Operand
      BY DEF BinaryInstr
    <3> HIDE DEF a, b, r, s, ends
    <3> QED BY <1>2, <3>1, <3>2, DifferenceRight
  <2>3. CASE instr.op = "mul"
    <3>1. ends = Product(r, s, a = b, g)
      BY <2>3 DEF Ends
    <3> DEFINE square == a = b
    <3>2. square \in BOOLEAN /\ ends = Product(r, s, square, g)
      BY <3>1
    <3> HIDE DEF square, r, s, ends
    <3> QED BY <1>1, <1>2, <3>2, ProductRight
  <2>4. CASE instr.op \notin {"add", "mul", "sub"}
    <3>1. CASE IsConst(a) /\ IsConst(b)
      <4>1. ends = IF instr.op \in {"sdiv", "udiv"} THEN Single(Quotient(a.const, b.const)) ELSE Single(g[1])
        BY <2>4, <3>1 DEF Ends
      <4>2. instr.op \in {"sdiv", "udiv"} => b.const # 0
        BY <3>1 DEF DividesByZero
      <4>3. instr.op \in {"sdiv", "udiv"} => Quotient(a.const, b.const) \in Int
        BY <1>3, <1>4, <3>1, <4>2, QuotientNumber
      <4>4. \A c : Single(c)[1] = c /\ Single(c)[2] = c
        BY DEF Single
      <4> HIDE DEF ends
      <4> QED BY <1>1, <4>1, <4>3, <4>4
    <3>2. CASE IsConst(a) # IsConst(b)
      <4>1. ends = <<s[1], s[2]>> \/ ends = <<r[1], r[2]>>
        BY <2>4, <3>2 DEF Ends
      <4> HIDE DEF r, s, ends
      <4> QED BY <1>2, <4>1
    <3>3. CASE ~IsConst(a) /\ ~IsConst(b)
      <4>1. ends = g
        <5>1. (IsConst(a) # IsConst(b)) = FALSE
          BY <3>3 DEF IsConst
        <5> QED BY <2>4, <3>3, <5>1 DEF Ends
      <4> QED BY <1>1, <4>1
    <3>4. IsConst(a) \in BOOLEAN /\ IsConst(b) \in BOOLEAN
      BY DEF IsConst
    <3> HIDE DEF a, b, r, s, ends
    <3> QED BY <3>1, <3>2, <3>3, <3>4
  <2> QED BY <2>1, <2>2, <2>3, <2>4
<1>6. Computed(instr, m, g) = <<Signed(ends[1]), Signed(ends[2])>>
  BY DEF Computed
<1>7. Signed(ends[1]) \in Integer /\ Signed(ends[2]) \in Integer
  BY <1>5, SignedInteger
<1>8. Computed(instr, m, g) \in RangesOf(Integer)
  BY <1>6, <1>7, RangeMade
<1> HIDE DEF ends
<1>9. Computed(instr, m, g)[1] = Signed(ends[1]) /\ Computed(instr, m, g)[2] = Signed(ends[2])
  BY <1>6
<1> QED BY <1>5, <1>8, <1>9 DEF ends

\* What nothing is left over for does not depend on it.
LEMMA ComputesEnds ==
  ASSUME NEW instr, BinaryInstr(instr), NEW m, IsMap(m), Computes(instr, m), NEW g
  PROVE  Ends(instr, m, g) = Ends(instr, m, <<0, 0>>)
<1> DEFINE a == instr.args[1]
           b == instr.args[2]
           r == RangeOf(a, m)
           s == RangeOf(b, m)
           z == <<0, 0>>
<1>1. r[1] \in Int /\ r[2] \in Int
  BY RangeFound, RangeNumbers, Ranging DEF BinaryInstr
<1>2. CASE instr.op = "add"
  BY <1>2 DEF Ends
<1>3. CASE instr.op = "sub"
  BY <1>3 DEF Ends
<1>4. CASE instr.op = "mul"
  <2>1. Ends(instr, m, g) = Product(r, s, a = b, g) /\ Ends(instr, m, z) = Product(r, s, a = b, z)
    BY <1>4 DEF Ends
  <2>2. CASE a # b
    BY <2>1, <2>2 DEF Product
  <2>3. CASE a = b
    <3>1. CASE r[1] <= 0 /\ r[2] <= 0
      BY <2>1, <2>3, <3>1 DEF Product
    <3>2. CASE r[1] <= 0 /\ ~(r[2] <= 0)
      BY <1>1, <2>1, <2>3, <3>2 DEF Product
    <3>3. CASE ~(r[1] <= 0)
      BY <1>1, <2>1, <2>3, <3>3 DEF Product
    <3> QED BY <3>1, <3>2, <3>3
  <2> QED BY <2>2, <2>3
<1>5. CASE instr.op = "sdiv" /\ IsConst(a) /\ IsConst(b)
  BY <1>5 DEF Ends
<1> QED BY <1>2, <1>3, <1>4, <1>5 DEF Computes

\* A result that the pass computes as it should has its ends.
LEMMA ComputedRange ==
  ASSUME NEW instr, BinaryInstr(instr), NEW m, IsMap(m), Computes(instr, m),
         NEW g \in Leftovers \X Leftovers
  PROVE  /\ Ends(instr, m, g)[1] \in Bounded /\ Ends(instr, m, g)[2] \in Bounded
         /\ Computed(instr, m, g) = <<Ends(instr, m, g)[1], Ends(instr, m, g)[2]>>
         /\ Computed(instr, m, g) \in RangesOf(Bounded) /\ Len(Computed(instr, m, g)) = 2
<1> DEFINE ends == Ends(instr, m, g)
<1>2. ends[1] \in Bounded /\ ends[2] \in Bounded
  BY ComputesEnds DEF Computes, Bounded
<1>3. Signed(ends[1]) = ends[1] /\ Signed(ends[2]) = ends[2]
  BY <1>2, SignedSame, Ranging
<1>4. Computed(instr, m, g) = <<ends[1], ends[2]>>
  BY <1>3 DEF Computed
<1>5. Computed(instr, m, g) \in RangesOf(Bounded) /\ Len(Computed(instr, m, g)) = 2
  BY <1>2, <1>4, RangeMade
<1> QED BY <1>2, <1>4, <1>5

\* A result that the pass computes as it should has the values that the program
\* computes from values in the ranges of the operands.
LEMMA ComputesRight ==
  ASSUME NEW instr, BinaryInstr(instr), NEW m, IsMap(m), Computes(instr, m),
         NEW g \in Leftovers \X Leftovers,
         NEW v \in RangeOf(instr.args[1], m)[1]..RangeOf(instr.args[1], m)[2],
         NEW w \in RangeOf(instr.args[2], m)[1]..RangeOf(instr.args[2], m)[2],
         instr.args[1] = instr.args[2] => v = w,
         instr.op \in Division => w # 0
  PROVE  /\ Computed(instr, m, g) \in RangesOf(Bounded) /\ Len(Computed(instr, m, g)) = 2
         /\ Within(Meaning(instr.op, v, w), Computed(instr, m, g))
<1> DEFINE a == instr.args[1]
           b == instr.args[2]
           r == RangeOf(a, m)
           s == RangeOf(b, m)
           ends == Ends(instr, m, g)
<1>1. r[1] \in Int /\ r[2] \in Int /\ s[1] \in Int /\ s[2] \in Int
  BY RangeFound, RangeNumbers, Ranging DEF BinaryInstr
<1>2. /\ ends[1] \in Bounded /\ ends[2] \in Bounded
      /\ Computed(instr, m, g) = <<ends[1], ends[2]>>
      /\ Computed(instr, m, g) \in RangesOf(Bounded) /\ Len(Computed(instr, m, g)) = 2
  BY ComputedRange
<1>6. \A u : u \in ends[1]..ends[2] => Signed(u) = u /\ Within(u, Computed(instr, m, g))
  <2> TAKE u
  <2> HAVE u \in ends[1]..ends[2]
  <2>1. u \in Bounded
    BY <1>2, Ranging DEF Bounded
  <2>2. u \in Computed(instr, m, g)[1]..Computed(instr, m, g)[2]
    BY <1>2
  <2> QED BY <2>1, <2>2, SignedSame, Ranging DEF Within
<1>7. v \in Int /\ w \in Int
  OBVIOUS
<1>8. CASE instr.op = "add"
  <2>1. ends = <<r[1] + s[1], r[2] + s[2]>>
    BY <1>8 DEF Ends
  <2>2. v + w \in ends[1]..ends[2]
    <3> HIDE DEF ends
    <3> QED BY <1>1, <2>1
  <2>3. Meaning(instr.op, v, w) = Signed(v + w)
    BY <1>8 DEF Meaning, Bitwise
  <2> HIDE DEF ends
  <2> QED BY <1>2, <1>6, <2>2, <2>3
<1>9. CASE instr.op = "sub"
  <2>1. ends = Difference(a, b, r, s)
    BY <1>9 DEF Ends
  <2>2. /\ a \in Operand /\ b \in Operand /\ (IsConst(a) => IsConst(b))
        /\ a = b => r = s /\ v = w
        /\ IsConst(a) => r[1] = r[2]
    BY <1>9 DEF BinaryInstr, Computes, RangeOf, Single
  <2>3. v - w \in ends[1]..ends[2]
    <3>1. v \in r[1]..r[2] /\ w \in s[1]..s[2]
      OBVIOUS
    <3> HIDE DEF a, b, r, s, ends
    <3>2. /\ (IsConst(a) => IsConst(b)) => \A x \in r[1]..r[2], y \in s[1]..s[2] :
              (a = b => x = y /\ r = s) /\ (IsConst(a) => r[1] = r[2])
                => x - y \in Difference(a, b, r, s)[1]..Difference(a, b, r, s)[2]
      BY <1>1, <2>2, DifferenceRight
    <3> QED BY <2>1, <2>2, <3>1, <3>2
  <2>4. Meaning(instr.op, v, w) = Signed(v - w)
    BY <1>9 DEF Meaning, Bitwise
  <2> HIDE DEF ends
  <2> QED BY <1>2, <1>6, <2>3, <2>4
<1>10. CASE instr.op = "mul"
  <2> DEFINE square == a = b
  <2>1. ends = Product(r, s, square, g) /\ square \in BOOLEAN
    BY <1>10 DEF Ends
  <2>2. g[1] \in Int /\ g[2] \in Int
    BY RangeAssumption, Ranging
  <2>3. square => v = w
    OBVIOUS
  <2>4. v * w \in ends[1]..ends[2]
    <3>1. v \in r[1]..r[2] /\ w \in s[1]..s[2]
      OBVIOUS
    <3> HIDE DEF square, ends, a, b, r, s
    <3>2. /\ ~square => \A x \in r[1]..r[2], y \in s[1]..s[2] :
              x * y \in Product(r, s, square, g)[1]..Product(r, s, square, g)[2]
          /\ square => \A x \in r[1]..r[2] :
              x * x \in Product(r, s, square, g)[1]..Product(r, s, square, g)[2]
      BY <1>1, <2>1, <2>2, ProductRight
    <3> QED BY <2>1, <2>3, <3>1, <3>2
  <2>5. Meaning(instr.op, v, w) = Signed(v * w)
    BY <1>10 DEF Meaning, Bitwise
  <2> HIDE DEF ends
  <2> QED BY <1>2, <1>6, <2>4, <2>5
<1>11. CASE instr.op = "sdiv" /\ IsConst(a) /\ IsConst(b)
  <2>1. ends = Single(Quotient(a.const, b.const))
    BY <1>11 DEF Ends
  <2>2. r = <<a.const, a.const>> /\ s = <<b.const, b.const>>
    BY <1>11 DEF RangeOf, Single
  <2>3. a.const \in Int /\ b.const \in Int
    BY <1>11, OperandKinds, Ranging DEF BinaryInstr
  <2>4. v = a.const /\ w = b.const
    <3>1. v \in r[1]..r[2] /\ w \in s[1]..s[2]
      OBVIOUS
    <3> HIDE DEF r, s
    <3> QED BY <2>2, <2>3, <3>1
  <2>5. ends[1] = Quotient(v, w) /\ ends[2] = Quotient(v, w)
    BY <2>1, <2>4 DEF Single
  <2>6. Quotient(v, w) \in ends[1]..ends[2]
    <3> HIDE DEF ends
    <3> QED BY <1>2, <2>5, Ranging
  <2>7. Meaning(instr.op, v, w) = Signed(Quotient(v, w))
    BY <1>11 DEF Meaning, Bitwise
  <2> HIDE DEF ends
  <2> QED BY <1>2, <1>6, <2>6, <2>7
<1> QED BY <1>8, <1>9, <1>10, <1>11 DEF Computes

-----------------------------------------------------------------------------
(* Functions.                                                              *)

\* The blocks of a function and their instructions.
LEMMA FunctionFacts ==
  ASSUME NEW f \in Function
  PROVE  /\ Blocks(f) = 1..Len(f.blocks) /\ Len(f.blocks) \in Nat \ {0} /\ 1 \in Blocks(f)
         /\ \A b \in Blocks(f) :
              /\ Len(f.blocks[b]) \in Nat \ {0}
              /\ DOMAIN f.blocks[b] = 1..Len(f.blocks[b])
              /\ Terminator(f, b) = f.blocks[b][Len(f.blocks[b])]
              /\ Terminator(f, b) \in Instruction /\ Closes(Terminator(f, b))
              /\ HasOperands(f, b, Terminator(f, b))
              /\ Successors(f, b) \subseteq Blocks(f) \ {1}
<1>1. IsFunction(f)
  BY RangeAssumption
<1>2. f.blocks \in Seq(Seq(Instruction)) /\ f.blocks # <<>>
  BY <1>1 DEF IsFunction
<1>3. Blocks(f) = 1..Len(f.blocks) /\ Len(f.blocks) \in Nat \ {0} /\ 1 \in Blocks(f)
  BY <1>2 DEF Blocks
<1>4. ASSUME NEW b \in Blocks(f)
      PROVE  /\ Len(f.blocks[b]) \in Nat \ {0} /\ DOMAIN f.blocks[b] = 1..Len(f.blocks[b])
             /\ Terminator(f, b) = f.blocks[b][Len(f.blocks[b])]
             /\ Terminator(f, b) \in Instruction /\ Closes(Terminator(f, b))
             /\ HasOperands(f, b, Terminator(f, b))
             /\ Successors(f, b) \subseteq Blocks(f) \ {1}
  <2>1. f.blocks[b] \in Seq(Instruction) /\ f.blocks[b] # <<>>
    BY <1>1, <1>2, <1>4 DEF IsFunction, Blocks
  <2>2. Len(f.blocks[b]) \in Nat \ {0} /\ DOMAIN f.blocks[b] = 1..Len(f.blocks[b])
    BY <2>1
  <2>3. Terminator(f, b) = f.blocks[b][Len(f.blocks[b])]
    BY DEF Terminator, Last
  <2>4. Len(f.blocks[b]) \in DOMAIN f.blocks[b]
    BY <2>2
  <2>5. Closes(Terminator(f, b)) /\ HasOperands(f, b, Terminator(f, b))
    <3> DEFINE k == Len(f.blocks[b])
    <3> HIDE DEF k
    <3>1. k \in DOMAIN f.blocks[b] /\ k = Len(f.blocks[b])
      BY <2>4 DEF k
    <3>2. Closes(f.blocks[b][k]) /\ HasOperands(f, b, f.blocks[b][k])
      BY <1>1, <1>4, <3>1 DEF IsFunction
    <3>3. Terminator(f, b) = f.blocks[b][k]
      BY <2>3, <3>1
    <3> QED BY <3>2, <3>3
  <2>6. Terminator(f, b) \in Instruction
    BY <2>1, <2>3, <2>4
  <2>7. Successors(f, b) \subseteq Blocks(f) \ {1}
    BY <1>1, <1>4 DEF IsFunction
  <2> QED BY <2>2, <2>3, <2>5, <2>6, <2>7
<1> QED BY <1>3, <1>4

LEMMA InstructionFacts ==
  ASSUME NEW f \in Function, NEW b \in Blocks(f), NEW i \in DOMAIN f.blocks[b]
  PROVE  /\ f.blocks[b][i] \in Instruction
         /\ Closes(f.blocks[b][i]) <=> i = Len(f.blocks[b])
         /\ HasOperands(f, b, f.blocks[b][i])
         /\ f.blocks[b][i].args \in Seq(Operand)
         /\ ~Closes(f.blocks[b][i]) => ~Known(f, f.blocks[b][i].to, b, i)
<1>1. IsFunction(f)
  BY RangeAssumption
<1>2. f.blocks[b] \in Seq(Instruction)
  BY <1>1 DEF IsFunction, Blocks
<1>3. f.blocks[b][i] \in Instruction
  BY <1>2
<1>4. f.blocks[b][i].args \in Seq(Operand)
  BY <1>3 DEF Instruction, Operand
<1>5. (Closes(f.blocks[b][i]) <=> i = Len(f.blocks[b])) /\ HasOperands(f, b, f.blocks[b][i])
  BY <1>1 DEF IsFunction
<1>6. ~Closes(f.blocks[b][i]) => ~Known(f, f.blocks[b][i].to, b, i)
  BY <1>1 DEF IsFunction
<1> QED BY <1>3, <1>4, <1>5, <1>6

\* Instructions before which a name is known.
LEMMA KnownLater ==
  ASSUME NEW f, NEW n, NEW b \in Int, NEW c \in Int, NEW i \in Int, NEW j \in Int,
         Blocks(f) \subseteq Int, \A a \in Blocks(f) : DOMAIN f.blocks[a] \subseteq Int,
         b < c \/ (b = c /\ i <= j), Known(f, n, b, i)
  PROVE  Known(f, n, c, j)
<1>1. CASE n \in ToSet(f.params)
  BY <1>1 DEF Known
<1>2. CASE \E a \in Blocks(f) : \E k \in DOMAIN f.blocks[a] :
             Assigns(f, a, k, n) /\ (a < b \/ (a = b /\ k < i))
  <2>1. PICK a \in Blocks(f) : \E k \in DOMAIN f.blocks[a] :
               Assigns(f, a, k, n) /\ (a < b \/ (a = b /\ k < i))
    BY <1>2
  <2>2. PICK k \in DOMAIN f.blocks[a] : Assigns(f, a, k, n) /\ (a < b \/ (a = b /\ k < i))
    BY <2>1
  <2>3. a \in Int /\ k \in Int
    BY <2>1, <2>2
  <2>4. a < c \/ (a = c /\ k < j)
    BY <2>2, <2>3
  <2> QED BY <2>1, <2>2, <2>4 DEF Known
<1> QED BY <1>1, <1>2 DEF Known

LEMMA KnownAfter ==
  ASSUME NEW f \in Function, NEW b \in Blocks(f), NEW i \in DOMAIN f.blocks[b], NEW n
  PROVE  /\ Known(f, n, b, i) => Known(f, n, b, i + 1)
         /\ Assigns(f, b, i, n) => Known(f, n, b, i + 1) /\ ~Known(f, n, b, i)
         /\ Known(f, n, b, i + 1) => Known(f, n, b, i) \/ Assigns(f, b, i, n)
<1>1. Blocks(f) \subseteq Int /\ \A a \in Blocks(f) : DOMAIN f.blocks[a] \subseteq Int
  BY FunctionFacts
<1>2. b \in Int /\ i \in Int /\ i + 1 \in Int /\ i <= i + 1
  BY <1>1
<1>3. Known(f, n, b, i) => Known(f, n, b, i + 1)
  <2> DEFINE k == i + 1
  <2>1. k \in Int /\ i <= k
    BY <1>2
  <2> HIDE DEF k
  <2>2. Known(f, n, b, i) => Known(f, n, b, k)
    BY <1>1, <1>2, <2>1, KnownLater
  <2> QED BY <2>2 DEF k
<1>4. Assigns(f, b, i, n) => Known(f, n, b, i + 1) /\ ~Known(f, n, b, i)
  <2> HAVE Assigns(f, b, i, n)
  <2>1. i < i + 1
    BY <1>2
  <2>2. Known(f, n, b, i + 1)
    BY <2>1 DEF Known
  <2>3. ~Known(f, n, b, i)
    BY InstructionFacts DEF Assigns
  <2> QED BY <2>2, <2>3
<1>5. Known(f, n, b, i + 1) => Known(f, n, b, i) \/ Assigns(f, b, i, n)
  <2> HAVE Known(f, n, b, i + 1)
  <2>1. CASE n \in ToSet(f.params)
    BY <2>1 DEF Known
  <2>2. CASE n \notin ToSet(f.params)
    <3>1. PICK a \in Blocks(f) : \E k \in DOMAIN f.blocks[a] :
                 Assigns(f, a, k, n) /\ (a < b \/ (a = b /\ k < i + 1))
      BY <2>2 DEF Known
    <3>2. PICK k \in DOMAIN f.blocks[a] : Assigns(f, a, k, n) /\ (a < b \/ (a = b /\ k < i + 1))
      BY <3>1
    <3>3. a \in Int /\ k \in Int
      BY <1>1, <3>1, <3>2
    <3>4. a < b \/ (a = b /\ (k < i \/ k = i))
      BY <1>2, <3>2, <3>3
    <3>5. CASE a < b \/ (a = b /\ k < i)
      BY <3>1, <3>2, <3>5 DEF Known
    <3>6. CASE a = b /\ k = i
      BY <3>2, <3>6
    <3> QED BY <3>4, <3>5, <3>6
  <2> QED BY <2>1, <2>2
<1> QED BY <1>3, <1>4, <1>5

\* The predecessors of a block of a function without loops come before it.
LEMMA PredecessorsBefore ==
  ASSUME NEW f \in Function, Forward(f), NEW b, NEW p \in Predecessors(f, b)
  PROVE  p \in Blocks(f) /\ b \in Blocks(f) /\ p < b /\ b # 1 /\ p \in Int /\ b \in Int
<1>1. p \in Blocks(f) /\ b \in Successors(f, p)
  BY DEF Predecessors
<1>2. b \in Blocks(f) \ {1}
  BY <1>1, FunctionFacts
<1> QED BY <1>1, <1>2, FunctionFacts DEF Forward

\* The operands of a branch on a comparison.
LEMMA BranchFacts ==
  ASSUME NEW f \in Function, NEW p \in Blocks(f), IsBranch(Terminator(f, p))
  PROVE  /\ Terminator(f, p).at[1] \in Successors(f, p) /\ Terminator(f, p).at[2] \in Successors(f, p)
         /\ \A c \in Successors(f, p) : c = Terminator(f, p).at[1] \/ c = Terminator(f, p).at[2]
         /\ Terminator(f, p).test # "none" =>
              /\ Terminator(f, p).test \in Tests
              /\ \A i \in 1..2 : Terminator(f, p).args[i] \in Operand
              /\ Forward(f) => \A i \in 1..2 : \/ IsConst(Terminator(f, p).args[i])
                                              \/ Known(f, Terminator(f, p).args[i].name, p, Len(f.blocks[p]))
<1> DEFINE br == Terminator(f, p)
<1>1. br \in Instruction /\ HasOperands(f, p, br)
  BY FunctionFacts
<1>2. br.at \in Seq(Nat) /\ Len(br.at) = 2
  BY <1>1 DEF Instruction, HasOperands, IsBranch
<1>3. Successors(f, p) = {br.at[1], br.at[2]}
  BY <1>2 DEF Successors, ToSet, IsBranch
<1>4. ASSUME br.test # "none"
      PROVE  /\ br.test \in Tests /\ \A i \in 1..2 : br.args[i] \in Operand /\ i \in DOMAIN br.args
  <2>1. br.args \in Seq(Operand) /\ br.test \in Tests \cup {"none"}
    BY <1>1 DEF Instruction, Operand
  <2>2. Len(br.args) = 2
    BY <1>1, <1>4 DEF HasOperands, IsBranch
  <2> QED BY <1>4, <2>1, <2>2
<1>5. ASSUME br.test # "none", Forward(f), NEW i \in 1..2
      PROVE  IsConst(br.args[i]) \/ Known(f, br.args[i].name, p, Len(f.blocks[p]))
  <2>1. br.args[i] \in ToSet(br.args)
    BY <1>4, <1>5 DEF ToSet
  <2>2. IsFunction(f)
    BY RangeAssumption
  <2> HIDE DEF br
  <2>3. \A o \in ToSet(br.args) : IsConst(o) \/ Known(f, o.name, p, Len(f.blocks[p]))
    BY <1>5, <2>2 DEF IsFunction, br
  <2> QED BY <2>1, <2>3
<1> HIDE DEF br
<1>6. br.at[1] \in Successors(f, p) /\ br.at[2] \in Successors(f, p)
      /\ \A c \in Successors(f, p) : c = br.at[1] \/ c = br.at[2]
  BY <1>3
<1> QED BY <1>4, <1>5, <1>6 DEF br

-----------------------------------------------------------------------------
(* Maps of ranges.                                                         *)

LEMMA InsertMap ==
  ASSUME NEW m, NEW n, NEW r
  PROVE  /\ DOMAIN Insert(m, n, r) = DOMAIN m \cup {n}
         /\ \A k \in DOMAIN m : Insert(m, n, r)[k] = m[k]
         /\ n \notin DOMAIN m => Insert(m, n, r)[n] = r
         /\ IsMap(m) /\ r \in RangesOf(Integer) => IsMap(Insert(m, n, r))
<1>1. Insert(m, n, r) = [k \in DOMAIN m \cup {n} |-> IF k \in DOMAIN m THEN m[k] ELSE r]
  BY DEF Insert
<1>2. /\ DOMAIN Insert(m, n, r) = DOMAIN m \cup {n}
      /\ \A k \in DOMAIN m : Insert(m, n, r)[k] = m[k]
      /\ n \notin DOMAIN m => Insert(m, n, r)[n] = r
  BY <1>1
<1> QED BY <1>2 DEF IsMap

LEMMA MergeMap ==
  ASSUME NEW m, NEW src
  PROVE  /\ DOMAIN Merge(m, src) = DOMAIN m \cup DOMAIN src
         /\ \A k \in DOMAIN m : Merge(m, src)[k] = m[k]
         /\ \A k \in DOMAIN src \ DOMAIN m : Merge(m, src)[k] = src[k]
         /\ IsMap(m) /\ IsMap(src) => IsMap(Merge(m, src))
<1>1. Merge(m, src) = [k \in DOMAIN m \cup DOMAIN src |-> IF k \in DOMAIN m THEN m[k] ELSE src[k]]
  BY DEF Merge
<1>2. /\ DOMAIN Merge(m, src) = DOMAIN m \cup DOMAIN src
      /\ \A k \in DOMAIN m : Merge(m, src)[k] = m[k]
      /\ \A k \in DOMAIN src \ DOMAIN m : Merge(m, src)[k] = src[k]
  BY <1>1
<1> QED BY <1>2 DEF IsMap

\* What was entered is there, or was.
LEMMA EnterMap ==
  ASSUME NEW D, NEW ins, ins = [c \in D |-> ins[c]], NEW b, NEW n, NEW r
  PROVE  /\ Enter(ins, b, n, r) = [c \in D |-> Enter(ins, b, n, r)[c]]
         /\ \A c \in D : \A k \in DOMAIN Enter(ins, b, n, r)[c] :
              \/ k \in DOMAIN ins[c] /\ Enter(ins, b, n, r)[c][k] = ins[c][k]
              \/ c = b /\ k = n /\ r # <<>> /\ Enter(ins, b, n, r)[c][k] = r
<1>1. CASE r = <<>>
  BY <1>1 DEF Enter
<1>2. CASE r # <<>>
  <2>1. Enter(ins, b, n, r) = [ins EXCEPT ![b] = Insert(ins[b], n, r)]
    BY <1>2 DEF Enter
  <2>2. Enter(ins, b, n, r) = [c \in D |-> IF c = b THEN Insert(ins[b], n, r) ELSE ins[c]]
    BY <2>1
  <2>3. ASSUME NEW c \in D, NEW k \in DOMAIN Enter(ins, b, n, r)[c]
        PROVE  \/ k \in DOMAIN ins[c] /\ Enter(ins, b, n, r)[c][k] = ins[c][k]
               \/ c = b /\ k = n /\ r # <<>> /\ Enter(ins, b, n, r)[c][k] = r
    <3>1. CASE c = b
      <4>1. Enter(ins, b, n, r)[c] = Insert(ins[b], n, r)
        BY <2>2, <3>1
      <4> DEFINE m == ins[b]
                 new == Insert(m, n, r)
      <4>2. /\ DOMAIN new = DOMAIN m \cup {n}
            /\ \A x \in DOMAIN m : new[x] = m[x]
            /\ n \notin DOMAIN m => new[n] = r
        <5>1. new = [x \in DOMAIN m \cup {n} |-> IF x \in DOMAIN m THEN m[x] ELSE r]
          BY DEF Insert
        <5> HIDE DEF m, new
        <5> QED BY <5>1
      <4>3. Enter(ins, b, n, r)[c] = new /\ k \in DOMAIN new /\ ins[c] = m
        BY <2>3, <3>1, <4>1
      <4> HIDE DEF m, new
      <4> QED BY <1>2, <3>1, <4>2, <4>3
    <3>2. CASE c # b
      BY <2>2, <2>3, <3>2
    <3> QED BY <3>1, <3>2
  <2> QED BY <2>2, <2>3
<1> QED BY <1>1, <1>2

\* The same of one operand of a branch, and of a branch.
LEMMA LearnOperandMap ==
  ASSUME NEW f \in Function, NEW p \in Blocks(f), IsBranch(Terminator(f, p)), Terminator(f, p).test # "none",
         NEW D, NEW ins, ins = [c \in D |-> ins[c]], NEW m, NEW i \in 1..2
  PROVE  /\ LearnOperand(ins, f, p, i, m) = [c \in D |-> LearnOperand(ins, f, p, i, m)[c]]
         /\ \A c \in D : \A n \in DOMAIN LearnOperand(ins, f, p, i, m)[c] :
              \/ n \in DOMAIN ins[c] /\ LearnOperand(ins, f, p, i, m)[c][n] = ins[c][n]
              \/ \E e \in 1..2 : /\ Terminator(f, p).args[i] = [name |-> n] /\ Terminator(f, p).at[e] = c
                                /\ Learnt(f, p, i, m)[e] # <<>>
                                /\ LearnOperand(ins, f, p, i, m)[c][n] = Learnt(f, p, i, m)[e]
<1> DEFINE br == Terminator(f, p)
           o == br.args[i]
           one == Enter(ins, br.at[1], o.name, Learnt(f, p, i, m)[1])
           two == Enter(one, br.at[2], o.name, Learnt(f, p, i, m)[2])
<1>1. CASE IsConst(o)
  <2>1. LearnOperand(ins, f, p, i, m) = ins
    BY <1>1 DEF LearnOperand
  <2> QED BY <2>1
<1>2. CASE ~IsConst(o)
  <2>1. LearnOperand(ins, f, p, i, m) = two
    BY <1>2 DEF LearnOperand
  <2>2. o = [name |-> o.name]
    BY <1>2, BranchFacts, OperandKinds
  <2> DEFINE at1 == br.at[1]
             at2 == br.at[2]
             r1 == Learnt(f, p, i, m)[1]
             r2 == Learnt(f, p, i, m)[2]
             n0 == o.name
  <2>3. /\ one = Enter(ins, at1, n0, r1) /\ two = Enter(one, at2, n0, r2)
        /\ o = [name |-> n0]
    BY <2>2
  <2>4. /\ one = [c \in D |-> one[c]]
        /\ \A c \in D : \A k \in DOMAIN one[c] :
             \/ k \in DOMAIN ins[c] /\ one[c][k] = ins[c][k]
             \/ c = at1 /\ k = n0 /\ r1 # <<>> /\ one[c][k] = r1
    <3> HIDE DEF br, o, one, two, at1, at2, r1, r2, n0
    <3> QED BY <2>3, EnterMap
  <2>5. /\ two = [c \in D |-> two[c]]
        /\ \A c \in D : \A k \in DOMAIN two[c] :
             \/ k \in DOMAIN one[c] /\ two[c][k] = one[c][k]
             \/ c = at2 /\ k = n0 /\ r2 # <<>> /\ two[c][k] = r2
    <3> HIDE DEF br, o, one, two, at1, at2, r1, r2, n0
    <3> QED BY <2>3, <2>4, EnterMap
  <2>6. ASSUME NEW c \in D, NEW n \in DOMAIN two[c]
        PROVE  \/ n \in DOMAIN ins[c] /\ two[c][n] = ins[c][n]
               \/ n = n0 /\ c = at1 /\ r1 # <<>> /\ two[c][n] = r1
               \/ n = n0 /\ c = at2 /\ r2 # <<>> /\ two[c][n] = r2
    <3> HIDE DEF br, o, one, two, at1, at2, r1, r2, n0
    <3> QED BY <2>4, <2>5, <2>6
  <2>7. ASSUME NEW c \in D, NEW n \in DOMAIN two[c]
        PROVE  \/ n \in DOMAIN ins[c] /\ two[c][n] = ins[c][n]
               \/ \E e \in 1..2 : /\ br.args[i] = [name |-> n] /\ br.at[e] = c
                                 /\ Learnt(f, p, i, m)[e] # <<>>
                                 /\ two[c][n] = Learnt(f, p, i, m)[e]
    <3>1. 1 \in 1..2 /\ 2 \in 1..2
      OBVIOUS
    <3>2. CASE n \in DOMAIN ins[c] /\ two[c][n] = ins[c][n]
      BY <3>2
    <3>3. CASE n = n0 /\ c = at1 /\ r1 # <<>> /\ two[c][n] = r1
      <4>1. br.args[i] = [name |-> n]
        BY <2>2, <3>3
      <4> HIDE DEF two
      <4> QED BY <3>1, <3>3, <4>1
    <3>4. CASE n = n0 /\ c = at2 /\ r2 # <<>> /\ two[c][n] = r2
      <4>1. br.args[i] = [name |-> n]
        BY <2>2, <3>4
      <4> HIDE DEF two
      <4> QED BY <3>1, <3>4, <4>1
    <3> HIDE DEF two
    <3> QED BY <2>6, <2>7, <3>2, <3>3, <3>4
  <2> HIDE DEF two, br
  <2> QED BY <2>1, <2>5, <2>7 DEF br
<1> QED BY <1>1, <1>2

LEMMA LearnMap ==
  ASSUME NEW f \in Function, NEW p \in Blocks(f),
         ~(IsBranch(Terminator(f, p)) /\ Terminator(f, p).test = "none"),
         NEW D, NEW ins, ins = [c \in D |-> ins[c]], NEW ranges
  PROVE  /\ Learn(ins, f, p, ranges[p]) = [c \in D |-> Learn(ins, f, p, ranges[p])[c]]
         /\ \A c \in D : \A n \in DOMAIN Learn(ins, f, p, ranges[p])[c] :
              \/ n \in DOMAIN ins[c] /\ Learn(ins, f, p, ranges[p])[c][n] = ins[c][n]
              \/ FromBranch(f, ranges, p, c, n, Learn(ins, f, p, ranges[p])[c][n])
<1> DEFINE m == ranges[p]
           one == LearnOperand(ins, f, p, 1, m)
           two == LearnOperand(one, f, p, 2, m)
<1>1. CASE ~IsBranch(Terminator(f, p))
  BY <1>1 DEF Learn
<1>2. CASE IsBranch(Terminator(f, p)) /\ Terminator(f, p).test # "none"
  <2>1. Learn(ins, f, p, m) = two
    BY <1>2 DEF Learn
  <2> DEFINE I == 1
             J == 2
  <2>2. I \in 1..2 /\ J \in 1..2 /\ one = LearnOperand(ins, f, p, I, m) /\ two = LearnOperand(one, f, p, J, m)
    OBVIOUS
  <2>3. /\ one = [c \in D |-> one[c]]
        /\ \A c \in D : \A n \in DOMAIN one[c] :
              \/ n \in DOMAIN ins[c] /\ one[c][n] = ins[c][n]
              \/ \E e \in 1..2 : /\ Terminator(f, p).args[I] = [name |-> n] /\ Terminator(f, p).at[e] = c
                                /\ Learnt(f, p, I, m)[e] # <<>> /\ one[c][n] = Learnt(f, p, I, m)[e]
    <3> HIDE DEF one, two, m, I, J
    <3> QED BY SMTT(30), <1>2, <2>2, LearnOperandMap
  <2>4. /\ two = [c \in D |-> two[c]]
        /\ \A c \in D : \A n \in DOMAIN two[c] :
              \/ n \in DOMAIN one[c] /\ two[c][n] = one[c][n]
              \/ \E e \in 1..2 : /\ Terminator(f, p).args[J] = [name |-> n] /\ Terminator(f, p).at[e] = c
                                /\ Learnt(f, p, J, m)[e] # <<>> /\ two[c][n] = Learnt(f, p, J, m)[e]
    <3> HIDE DEF one, two, m, I, J
    <3> QED BY SMTT(30), <1>2, <2>2, <2>3, LearnOperandMap
  <2>5. ASSUME NEW c \in D, NEW n \in DOMAIN two[c]
        PROVE  \/ n \in DOMAIN ins[c] /\ two[c][n] = ins[c][n]
               \/ FromBranch(f, ranges, p, c, n, two[c][n])
    <3>1. \/ n \in DOMAIN ins[c] /\ two[c][n] = ins[c][n]
          \/ \E i, e \in 1..2 : /\ Terminator(f, p).args[i] = [name |-> n] /\ Terminator(f, p).at[e] = c
                               /\ Learnt(f, p, i, m)[e] # <<>> /\ two[c][n] = Learnt(f, p, i, m)[e]
      <4> HIDE DEF one, two, m, I, J
      <4> QED BY <2>2, <2>3, <2>4, <2>5
    <3> HIDE DEF two
    <3> QED BY <1>2, <3>1 DEF FromBranch
  <2> HIDE DEF two
  <2> QED BY <2>1, <2>4, <2>5
<1> QED BY <1>1, <1>2

\* The ends of what was learnt.
LEMMA LearntType ==
  ASSUME NEW f \in Function, NEW ranges, NEW p \in Blocks(f), IsMap(ranges[p]), NEW c, NEW n, NEW r,
         FromBranch(f, ranges, p, c, n, r), NEW A \in Int, NEW B \in Int,
         tryGetRange([name |-> n], ranges[p]) \in RangesOf(A..B)
  PROVE  r \in RangesOf(A..B)
<1> DEFINE br == Terminator(f, p)
           m == ranges[p]
<1>1. PICK i \in 1..2, e \in 1..2 : br.args[i] = [name |-> n] /\ r = Learnt(f, p, i, m)[e]
  BY DEF FromBranch
<1>2. IsBranch(br) /\ br.test # "none" /\ r # <<>>
  BY DEF FromBranch
<1>3. br.test \in Tests /\ br.args[i] \in Operand /\ br.args[3 - i] \in Operand
  <2>1. 3 - i \in 1..2
    OBVIOUS
  <2> QED BY <1>2, <2>1, BranchFacts
<1> DEFINE test == IF i = 1 THEN br.test ELSE Turned(br.test)
           x == br.args[i]
           y == br.args[3 - i]
<1>4. test \in Tests
  BY <1>3, TurnedRight
<1>5. Learnt(f, p, i, m) = Refined(test, x, y, m)
  BY DEF Learnt
<1>6. RangeOf(y, m) \in RangesOf(Integer) /\ tryGetRange(x, m) \in RangesOf(A..B)
  BY <1>1, <1>3, RangeFound
<1>7. x \in Operand /\ y \in Operand
  BY <1>3
<1> HIDE DEF br, test, x, y, m
<1>8. Refined(test, x, y, m)[e] \in {<<>>} \cup RangesOf(A..B)
  BY <1>4, <1>6, <1>7, RefinedType
<1> QED BY <1>1, <1>2, <1>5, <1>8

\* What a phi node reads of its i-th operand.
JoinedOf(instr, outs, i) ==
  IF IsConst(instr.args[i]) THEN {instr.args[i].const}
  ELSE ToSet(tryGetRange(instr.args[i], outs[instr.at[i]]))

\* Its range is between the ends of those of its operands, and has their values.
LEMMA JoinedRight ==
  ASSUME NEW instr, instr.args \in Seq(Operand), instr.args # <<>>, NEW outs, NEW A \in Int, NEW B \in Int,
         \A i \in DOMAIN instr.args :
           IF IsConst(instr.args[i]) THEN instr.args[i].const \in A..B
           ELSE tryGetRange(instr.args[i], outs[instr.at[i]]) \in RangesOf(A..B)
  PROVE  /\ Joined(instr, outs) \in RangesOf(A..B) /\ Len(Joined(instr, outs)) = 2
         /\ \A i \in DOMAIN instr.args : \A v :
              (IF IsConst(instr.args[i]) THEN v = instr.args[i].const
               ELSE Within(v, tryGetRange(instr.args[i], outs[instr.at[i]])))
                => Within(v, Joined(instr, outs))
<1> DEFINE all == UNION {JoinedOf(instr, outs, i) : i \in DOMAIN instr.args}
<1>1. Joined(instr, outs) = <<Min(all), Max(all)>>
  BY DEF Joined, JoinedOf
<1>2. ASSUME NEW i \in DOMAIN instr.args
      PROVE  /\ JoinedOf(instr, outs, i) \subseteq A..B /\ JoinedOf(instr, outs, i) # {}
             /\ \A v : (IF IsConst(instr.args[i]) THEN v = instr.args[i].const
                        ELSE Within(v, tryGetRange(instr.args[i], outs[instr.at[i]])))
                  => \E lo, hi \in JoinedOf(instr, outs, i) : v \in lo..hi
  <2>1. CASE IsConst(instr.args[i])
    <3>1. JoinedOf(instr, outs, i) = {instr.args[i].const} /\ instr.args[i].const \in A..B
      BY <2>1 DEF JoinedOf
    <3> QED BY <2>1, <3>1
  <2>2. CASE ~IsConst(instr.args[i])
    <3> DEFINE r == tryGetRange(instr.args[i], outs[instr.at[i]])
    <3>1. r \in RangesOf(A..B) /\ JoinedOf(instr, outs, i) = ToSet(r)
      BY <2>2 DEF JoinedOf
    <3> HIDE DEF r
    <3>2. r \in Seq(A..B) /\ (Len(r) = 2 \/ Len(r) = 4)
      BY <3>1 DEF RangesOf
    <3>3. ToSet(r) \subseteq A..B /\ r[1] \in ToSet(r) /\ r[2] \in ToSet(r)
          /\ (Len(r) = 4 => r[3] \in ToSet(r) /\ r[4] \in ToSet(r))
      BY <3>2 DEF ToSet
    <3>4. \A v : Within(v, r) => \E lo, hi \in ToSet(r) : v \in lo..hi
      BY <3>3 DEF Within
    <3> QED BY <2>2, <3>1, <3>3, <3>4 DEF r
  <2> QED BY <2>1, <2>2
<1>3. 1 \in DOMAIN instr.args
  OBVIOUS
<1>4. all \in SUBSET (A..B) /\ all # {}
  BY <1>2, <1>3
<1>5. \A i \in DOMAIN instr.args : JoinedOf(instr, outs, i) \subseteq all
  OBVIOUS
<1> HIDE DEF all
<1>6. /\ Min(all) \in all /\ \A y \in all : Min(all) <= y
      /\ Max(all) \in all /\ \A y \in all : Max(all) >= y
  BY <1>4, Extremes
<1> DEFINE lo == Min(all)
           hi == Max(all)
<1>7. lo \in A..B /\ hi \in A..B
  BY <1>4, <1>6
<1>8. Joined(instr, outs) \in RangesOf(A..B) /\ Len(Joined(instr, outs)) = 2
  <2> HIDE DEF lo, hi
  <2>1. Joined(instr, outs) = <<lo, hi>>
    BY <1>1 DEF lo, hi
  <2> QED BY <1>7, <2>1, RangeMade
<1>9. ASSUME NEW i \in DOMAIN instr.args, NEW v,
             IF IsConst(instr.args[i]) THEN v = instr.args[i].const
             ELSE Within(v, tryGetRange(instr.args[i], outs[instr.at[i]]))
      PROVE  Within(v, Joined(instr, outs))
  <2>1. PICK x \in all, y \in all : v \in x..y
    BY <1>2, <1>5, <1>9
  <2>2. lo <= x /\ y <= hi /\ x \in Int /\ y \in Int
    BY <1>4, <1>6
  <2>3. v \in lo..hi
    <3> HIDE DEF lo, hi
    <3> QED BY <1>7, <2>1, <2>2
  <2>4. Joined(instr, outs)[1] = lo /\ Joined(instr, outs)[2] = hi
    BY <1>1
  <2> QED BY <2>3, <2>4 DEF Within
<1> QED BY <1>8, <1>9

\* The operands of a binary operator and of a phi node.
LEMMA OperandFacts ==
  ASSUME NEW f \in Function, NEW b \in Blocks(f), NEW i \in DOMAIN f.blocks[b]
  PROVE  /\ f.blocks[b][i].op \in BinaryOp => BinaryInstr(f.blocks[b][i]) /\ ~Closes(f.blocks[b][i])
         /\ f.blocks[b][i].op = "phi" =>
              /\ ~Closes(f.blocks[b][i]) /\ f.blocks[b][i].op \notin BinaryOp
              /\ f.blocks[b][i].args \in Seq(Operand) /\ f.blocks[b][i].args # <<>>
              /\ \A k \in DOMAIN f.blocks[b][i].args : f.blocks[b][i].at[k] \in Predecessors(f, b)
<1> DEFINE instr == f.blocks[b][i]
<1>1. /\ instr.args \in Seq(Operand) /\ HasOperands(f, b, instr) /\ instr \in Instruction
  BY InstructionFacts
<1>2. ASSUME instr.op \in BinaryOp
      PROVE  BinaryInstr(instr) /\ ~Closes(instr)
  <2>1. Len(instr.args) = 2
    BY <1>1, <1>2 DEF HasOperands
  <2>2. instr.args[1] \in Operand /\ instr.args[2] \in Operand
    BY <1>1, <2>1
  <2>3. ~Closes(instr)
    BY <1>2 DEF Closes, BinaryOp, Arithmetic, Division, Bitwise, Shift
  <2> QED BY <1>2, <2>2, <2>3 DEF BinaryInstr
<1>3. ASSUME instr.op = "phi"
      PROVE  /\ ~Closes(instr) /\ instr.op \notin BinaryOp
             /\ instr.args # <<>> /\ \A k \in DOMAIN instr.args : instr.at[k] \in Predecessors(f, b)
  <2>1. ~Closes(instr) /\ instr.op \notin BinaryOp
    BY <1>3 DEF Closes, BinaryOp, Arithmetic, Division, Bitwise, Shift
  <2>2. instr.args # <<>> /\ Len(instr.at) = Len(instr.args) /\ ToSet(instr.at) = Predecessors(f, b)
    BY <1>1, <1>3 DEF HasOperands
  <2>3. instr.at \in Seq(Nat)
    BY <1>1 DEF Instruction
  <2>4. DOMAIN instr.at = DOMAIN instr.args
    BY <1>1, <2>2, <2>3
  <2>5. \A k \in DOMAIN instr.args : instr.at[k] \in ToSet(instr.at)
    BY <2>4 DEF ToSet
  <2> QED BY <2>1, <2>2, <2>5
<1> HIDE DEF instr
<1> QED BY <1>1, <1>2, <1>3 DEF instr

\* The ranges after an instruction.
LEMMA AfterMap ==
  ASSUME NEW f \in Function, NEW b \in Blocks(f), NEW i \in DOMAIN f.blocks[b],
         NEW ranges, \A c \in Blocks(f) : IsMap(ranges[c]), NEW m, IsMap(m),
         ~DividesByZero(f.blocks[b][i]), NEW g \in Leftovers \X Leftovers
  PROVE  /\ IsMap(After(f.blocks[b][i], m, ranges, g))
         /\ f.blocks[b][i].op \in BinaryOp =>
              After(f.blocks[b][i], m, ranges, g) = Insert(m, f.blocks[b][i].to, Computed(f.blocks[b][i], m, g))
         /\ f.blocks[b][i].op = "phi" =>
              After(f.blocks[b][i], m, ranges, g) = Insert(m, f.blocks[b][i].to, Joined(f.blocks[b][i], ranges))
         /\ f.blocks[b][i].op \notin BinaryOp \cup {"phi"} => After(f.blocks[b][i], m, ranges, g) = m
<1> DEFINE instr == f.blocks[b][i]
           new == After(instr, m, ranges, g)
<1>1. CASE instr.op \in BinaryOp
  <2> DEFINE r == Computed(instr, m, g)
             n == instr.to
  <2>1. new = Insert(m, n, r)
    <3>1. instr.op # "phi"
      BY <1>1 DEF BinaryOp, Arithmetic, Division, Bitwise, Shift
    <3> QED BY <1>1, <3>1 DEF After
  <2>2. BinaryInstr(instr)
    BY <1>1, OperandFacts
  <2>3. r \in RangesOf(Integer)
    <3> HIDE DEF instr
    <3> QED BY <2>2, EndsRight DEF instr
  <2>4. IsMap(new)
    <3> HIDE DEF r, n, new
    <3> QED BY <2>1, <2>3, InsertMap
  <2>5. instr.op # "phi"
    BY <1>1 DEF BinaryOp, Arithmetic, Division, Bitwise, Shift
  <2> QED BY <1>1, <2>1, <2>4, <2>5
<1>2. CASE instr.op = "phi"
  <2> DEFINE r == Joined(instr, ranges)
             n == instr.to
  <2>0. /\ instr.op \notin BinaryOp
        /\ instr.args \in Seq(Operand) /\ instr.args # <<>>
        /\ \A k \in DOMAIN instr.args : instr.at[k] \in Predecessors(f, b)
    BY <1>2, OperandFacts
  <2>1. new = Insert(m, n, r)
    BY <1>2, <2>0 DEF After
  <2>2. r \in RangesOf(Integer)
    <3> DEFINE A == -Greatest - 1
               B == Greatest
    <3>1. Integer = A..B /\ A \in Int /\ B \in Int
      BY Ranging
    <3>2. ASSUME NEW k \in DOMAIN instr.args
          PROVE  IF IsConst(instr.args[k]) THEN instr.args[k].const \in Integer
                 ELSE tryGetRange(instr.args[k], ranges[instr.at[k]]) \in RangesOf(Integer)
      <4>1. instr.args[k] \in Operand /\ IsMap(ranges[instr.at[k]])
        BY <2>0 DEF Predecessors
      <4> QED BY <4>1, OperandKinds, RangeFound
    <3> HIDE DEF A, B, instr, r
    <3>3. Joined(instr, ranges) \in RangesOf(A..B)
      BY <2>0, <3>1, <3>2, JoinedRight
    <3> QED BY <3>1, <3>3 DEF r
  <2>3. IsMap(new)
    <3> HIDE DEF r, n, new
    <3> QED BY <2>1, <2>2, InsertMap
  <2> QED BY <1>2, <2>0, <2>1, <2>3
<1>3. CASE instr.op \notin BinaryOp \cup {"phi"}
  <2>1. new = m
    BY <1>3 DEF After
  <2> QED BY <1>3, <2>1
<1> QED BY <1>1, <1>2, <1>3

-----------------------------------------------------------------------------
(* The types.                                                              *)

LEMMA TypeInit == Init => TypeOK
<1> SUFFICES ASSUME Init PROVE TypeOK
  OBVIOUS
<1>1. fn \in Function /\ Len(fn.blocks) \in Nat \ {0}
  BY FunctionFacts DEF Init
<1>2. IsMap(NoRanges)
  BY DEF IsMap, NoRanges
<1>3. printed \in Seq(Range(printed))
  BY DEF Init, Range
<1>4. out[1] = NoRanges /\ out = [b \in Blocks(fn) |-> out[b]] /\ \A b \in Blocks(fn) : IsMap(out[b])
  <2>1. 1 \in Blocks(fn) /\ out = [b \in Blocks(fn) |-> NoRanges]
    BY <1>1, FunctionFacts DEF Init
  <2> QED BY <1>2, <2>1
<1>5. in = out /\ next = 1 /\ turn = 1 /\ pc = "start" /\ printed = <<>> /\ trusted = [b \in Blocks(fn) |-> {}]
  BY DEF Init
<1> QED BY <1>1, <1>3, <1>4, <1>5 DEF TypeOK, Visiting, Executing

\* The list of the predecessors has nothing else.
LEMMA ListedPredecessors ==
  ASSUME TypeOK, pc \in {"learning", "merging"}
  PROVE  /\ next # 1 /\ next \in Blocks(fn)
         /\ \A k \in DOMAIN preds : preds[k] \in Predecessors(fn, next) /\ preds[k] \in Blocks(fn) /\ k \in Nat \ {0}
<1>1. next # 1 /\ next \in Blocks(fn) /\ preds \in SetToSeqs(Predecessors(fn, next))
  BY DEF TypeOK, Visiting
<1>2. preds \in [1..Cardinality(Predecessors(fn, next)) -> Predecessors(fn, next)]
  BY <1>1 DEF SetToSeqs
<1> QED BY <1>1, <1>2 DEF Predecessors

\* Nothing of the pass changes but its place.
LEMMA TypeStays ==
  ASSUME TypeOK, UNCHANGED <<fn, in, out, printed>>, trusted' = [b \in Blocks(fn) |-> trusted'[b]]
  PROVE  /\ fn' \in Function
         /\ in' = [b \in Blocks(fn') |-> in'[b]] /\ out' = [b \in Blocks(fn') |-> out'[b]]
         /\ \A b \in Blocks(fn') : IsMap(in'[b]) /\ IsMap(out'[b])
         /\ trusted' = [b \in Blocks(fn') |-> trusted'[b]]
         /\ printed' \in Seq(Range(printed'))
  BY DEF TypeOK

LEMMA TypeStep == TypeOK /\ [Next]_vars => TypeOK'
<1> SUFFICES ASSUME TypeOK, [Next]_vars PROVE TypeOK'
  OBVIOUS
<1> USE DEF Visiting, Executing
<1>0. /\ fn \in Function /\ next \in 1..(Len(fn.blocks) + 1) /\ turn \in Nat \ {0}
      /\ in = [b \in Blocks(fn) |-> in[b]] /\ out = [b \in Blocks(fn) |-> out[b]]
      /\ \A b \in Blocks(fn) : IsMap(in[b]) /\ IsMap(out[b])
      /\ trusted = [b \in Blocks(fn) |-> trusted[b]]
      /\ printed \in Seq(Range(printed))
      /\ Blocks(fn) = 1..Len(fn.blocks) /\ Len(fn.blocks) \in Nat \ {0} /\ 1 \in Blocks(fn)
  BY FunctionFacts DEF TypeOK
<1>1. CASE FindLoops
  BY <1>1, TypeStays DEF FindLoops, TypeOK, answer, execution
<1>2. CASE TakeFirst
  <2>1. trusted' = [b \in Blocks(fn) |-> trusted'[b]]
    BY <1>0, <1>2 DEF TakeFirst
  <2> QED BY <1>0, <1>2, <2>1, TypeStays DEF TakeFirst, TypeOK, answer, execution
<1>3. CASE TakeBlock
  <2>1. next \in Blocks(fn) /\ next # 1
    BY <1>0, <1>3 DEF TakeBlock
  <2> QED BY <1>0, <1>3, <2>1, TypeStays DEF TakeBlock, TypeOK, answer, execution
<1>4. CASE LearnFrom
  <2> DEFINE p == preds[turn]
             new == Learn(in, fn, p, out[p])
  <2>1. turn \in DOMAIN preds /\ ~Opaque(p) /\ in' = new
    BY <1>4 DEF LearnFrom
  <2>2. p \in Blocks(fn)
    BY <1>4, <2>1, ListedPredecessors DEF LearnFrom
  <2>3. /\ new = [c \in Blocks(fn) |-> new[c]]
        /\ \A c \in Blocks(fn) : \A n \in DOMAIN new[c] :
              \/ n \in DOMAIN in[c] /\ new[c][n] = in[c][n]
              \/ FromBranch(fn, out, p, c, n, new[c][n])
    <3>1. ~(IsBranch(Terminator(fn, p)) /\ Terminator(fn, p).test = "none")
      BY <2>1 DEF Opaque
    <3> DEFINE D == Blocks(fn)
    <3> HIDE DEF p, D
    <3>2. in = [c \in D |-> in[c]] /\ fn \in Function /\ p \in Blocks(fn)
      BY <1>0, <2>2 DEF D
    <3>3. /\ new = [c \in D |-> new[c]]
          /\ \A c \in D : \A n \in DOMAIN new[c] :
              \/ n \in DOMAIN in[c] /\ new[c][n] = in[c][n]
              \/ FromBranch(fn, out, p, c, n, new[c][n])
      BY <3>1, <3>2, LearnMap
    <3> QED BY <3>3 DEF D
  <2>4. ASSUME NEW c \in Blocks(fn)
        PROVE  IsMap(new[c])
    <3>1. SUFFICES ASSUME NEW n \in DOMAIN new[c] PROVE new[c][n] \in RangesOf(Integer)
      BY DEF IsMap
    <3>2. CASE n \in DOMAIN in[c] /\ new[c][n] = in[c][n]
      BY <1>0, <2>4, <3>2 DEF IsMap
    <3>3. CASE FromBranch(fn, out, p, c, n, new[c][n])
      <4> DEFINE A == -Greatest - 1
                 B == Greatest
                 r == new[c][n]
                 o == [name |-> n]
      <4>1. Integer = A..B /\ A \in Int /\ B \in Int
        BY Ranging
      <4>2. o \in Operand
        <5>1. PICK i \in 1..2 : Terminator(fn, p).args[i] = o
          BY <3>3 DEF FromBranch
        <5>2. IsBranch(Terminator(fn, p)) /\ Terminator(fn, p).test # "none"
          BY <3>3 DEF FromBranch
        <5> HIDE DEF o
        <5> QED BY <1>0, <2>2, <5>1, <5>2, BranchFacts
      <4>3. IsMap(out[p])
        BY <1>0, <2>2
      <4>4. tryGetRange(o, out[p]) \in RangesOf(A..B)
        BY <4>1, <4>2, <4>3, RangeFound
      <4> HIDE DEF A, B, p, r, new
      <4>5. r \in RangesOf(A..B)
        BY <1>0, <2>2, <3>3, <4>1, <4>3, <4>4, LearntType DEF r
      <4> QED BY <4>1, <4>5 DEF r
    <3> QED BY <2>3, <2>4, <3>1, <3>2, <3>3
  <2> HIDE DEF new
  <2>5. turn + 1 \in Nat \ {0} /\ UNCHANGED <<fn, out, next, preds, printed, trusted, pc>> /\ turn' = turn + 1
    BY <1>0, <1>4 DEF LearnFrom
  <2>6. pc = "learning"
    BY <1>4 DEF LearnFrom
  <2> QED BY <2>1, <2>3, <2>4, <2>5, <2>6 DEF TypeOK
<1>5. CASE EndLearn
  <2>1. UNCHANGED <<fn, in, out, printed, trusted, next, preds>> /\ pc = "learning" /\ turn' = 1 /\ pc' = "merging"
    BY <1>5 DEF EndLearn
  <2>2. next \in Blocks(fn) /\ next # 1 /\ preds \in SetToSeqs(Predecessors(fn, next))
    BY <2>1 DEF TypeOK
  <2>9. turn' \in Nat \ {0}
    BY <2>1
  <2> QED BY <1>0, <2>1, <2>2, <2>9 DEF TypeOK
<1>6. CASE MergeFrom
  <2> DEFINE p == preds[turn]
             new == Merge(in[next], out[p])
  <2>1. turn \in DOMAIN preds /\ in' = [in EXCEPT ![next] = new] /\ pc = "merging"
    BY <1>6 DEF MergeFrom
  <2>2. p \in Blocks(fn) /\ next \in Blocks(fn)
    BY <2>1, ListedPredecessors
  <2>3. IsMap(new)
    <3>1. IsMap(in[next]) /\ IsMap(out[p])
      BY <1>0, <2>2
    <3> QED BY <3>1, MergeMap
  <2> HIDE DEF new
  <2>4. in' = [c \in Blocks(fn) |-> in'[c]] /\ \A c \in Blocks(fn) : IsMap(in'[c])
    BY <1>0, <2>1, <2>3
  <2>5. turn + 1 \in Nat \ {0} /\ UNCHANGED <<fn, out, next, preds, printed, trusted, pc>> /\ turn' = turn + 1
    BY <1>0, <1>6 DEF MergeFrom
  <2> QED BY <2>1, <2>4, <2>5 DEF TypeOK
<1>7. CASE EndMerge
  <2>1. trusted' = [b \in Blocks(fn) |-> trusted'[b]]
    BY <1>0, <1>7 DEF EndMerge
  <2>2. UNCHANGED <<fn, in, out, printed, next>> /\ pc = "merging" /\ turn' = 1 /\ pc' = "computing"
    BY <1>7 DEF EndMerge
  <2>3. next \in Blocks(fn)
    BY <2>2 DEF TypeOK
  <2>9. turn' \in Nat \ {0}
    BY <2>1, <2>2
  <2> QED BY <1>0, <2>1, <2>2, <2>3, <2>9 DEF TypeOK
<1>8. CASE ComputeInstr
  <2> DEFINE instr == fn.blocks[next][turn]
  <2>1. pc = "computing" /\ turn \in DOMAIN fn.blocks[next] /\ ~DividesByZero(instr)
    BY <1>8 DEF ComputeInstr
  <2>2. PICK g \in Leftovers \X Leftovers : Set(After(instr, AtHand, out, g))
    BY <1>8 DEF ComputeInstr
  <2>3. next \in Blocks(fn)
    BY <2>1 DEF TypeOK
  <2>4. IsMap(AtHand)
    BY <1>0, <2>3 DEF AtHand
  <2> DEFINE new == After(instr, AtHand, out, g)
             m == AtHand
             b == next
             i == turn
  <2>5. IsMap(new)
    <3>1. IsMap(m) /\ b \in Blocks(fn) /\ i \in DOMAIN fn.blocks[b] /\ new = After(fn.blocks[b][i], m, out, g)
          /\ ~DividesByZero(fn.blocks[b][i])
      BY <2>1, <2>3, <2>4
    <3> HIDE DEF new, m, b, i
    <3> QED BY <1>0, <3>1, AfterMap
  <2> HIDE DEF new
  <2>6. /\ in' = [c \in Blocks(fn) |-> in'[c]] /\ \A c \in Blocks(fn) : IsMap(in'[c])
        /\ out' = [c \in Blocks(fn) |-> out'[c]] /\ \A c \in Blocks(fn) : IsMap(out'[c])
    <3>1. Set(new)
      BY <2>2 DEF new
    <3>2. CASE next = 1
      BY <1>0, <2>5, <3>1, <3>2 DEF Set
    <3>3. CASE next # 1
      BY <1>0, <2>5, <3>1, <3>3 DEF Set
    <3> QED BY <3>2, <3>3
  <2>7. printed' \in Seq(Range(printed'))
    <3>1. (\E line : printed' = Append(printed, line)) \/ printed' = printed
      BY <1>8 DEF ComputeInstr
    <3>2. CASE \E line : printed' = Append(printed, line)
      <4>1. PICK line : printed' = Append(printed, line)
        BY <3>2
      <4> DEFINE T == Range(printed) \cup {line}
      <4>2. printed \in Seq(T) /\ line \in T
        BY <1>0
      <4>3. Append(printed, line) \in Seq(T)
        <5> HIDE DEF T
        <5> QED BY <4>2
      <4>4. printed' \in [1..Len(printed') -> T] /\ Len(printed') \in Nat
        <5> DEFINE list == printed'
        <5>1. list \in Seq(T)
          BY <4>1, <4>3
        <5> HIDE DEF list, T
        <5>2. list \in [1..Len(list) -> T] /\ Len(list) \in Nat
          BY <5>1
        <5> QED BY <5>2 DEF list
      <4>5. printed' \in [1..Len(printed') -> Range(printed')]
        BY <4>4 DEF Range
      <4> QED BY <4>4, <4>5
    <3> QED BY <1>0, <3>1, <3>2
  <2>8. trusted' = [c \in Blocks(fn) |-> trusted'[c]]
    BY <1>0, <1>8 DEF ComputeInstr
  <2>9. turn' = turn + 1 /\ turn + 1 \in Nat \ {0} /\ UNCHANGED <<fn, next, preds, pc>>
    BY <1>0, <1>8 DEF ComputeInstr
  <2> QED BY <1>0, <2>1, <2>3, <2>6, <2>7, <2>8, <2>9 DEF TypeOK
<1>9. CASE EndBlock
  <2>1. pc = "computing" /\ next' = next + 1 /\ turn' = 1 /\ pc' = "blocks" /\ out' = [out EXCEPT ![next] = AtHand]
        /\ UNCHANGED <<fn, in, printed, trusted>>
    BY <1>9 DEF EndBlock
  <2>2. next \in Blocks(fn)
    BY <2>1 DEF TypeOK
  <2>3. IsMap(AtHand)
    BY <1>0, <2>2 DEF AtHand
  <2>4. out' = [c \in Blocks(fn) |-> out'[c]] /\ \A c \in Blocks(fn) : IsMap(out'[c])
    BY <1>0, <2>1, <2>3
  <2>5. next + 1 \in 1..(Len(fn.blocks) + 1) /\ next + 1 # 1
    BY <1>0, <2>2
  <2>9. turn' \in Nat \ {0}
    BY <2>1
  <2> QED BY <1>0, <2>1, <2>4, <2>5, <2>9 DEF TypeOK
<1>10. CASE Crash
  BY <1>10, TypeStays DEF Crash, TypeOK, answer, execution
<1>11. CASE End
  BY <1>11, TypeStays DEF End, TypeOK, answer, execution
<1>12. CASE Call \/ Trap \/ Return
  BY <1>0, <1>12, TypeStays DEF Call, Trap, Return, pass, TypeOK
<1>13. CASE UNCHANGED pass /\ UNCHANGED pc
  BY <1>13 DEF pass, TypeOK
<1>14. ExecutePhi \/ ExecuteBinaryOp \/ ExecuteOther \/ ExecuteGoto \/ ExecuteBranch \/ Stopped
       \/ UNCHANGED vars => UNCHANGED pass /\ UNCHANGED pc
  BY DEF ExecutePhi, ExecuteBinaryOp, ExecuteOther, ExecuteGoto, ExecuteBranch, Stopped, vars, pass, Assign, GoTo
<1> QED
  BY <1>1, <1>2, <1>3, <1>4, <1>5, <1>6, <1>7, <1>8, <1>9, <1>10, <1>11, <1>12, <1>13, <1>14 DEF Next

-----------------------------------------------------------------------------
(* The loops, and the ranges with which a block begins.                    *)

\* What is found at the start stays.
LEMMA AnswerStays ==
  ASSUME [Next]_vars, pc # "start"
  PROVE  UNCHANGED <<fn, order, back_edge, loop_list>> /\ pc' # "start"
<1>1. CASE UNCHANGED vars
  BY <1>1 DEF vars, answer
<1>2. CASE TakeFirst \/ TakeBlock \/ LearnFrom \/ EndLearn \/ MergeFrom \/ EndMerge
  BY <1>2 DEF TakeFirst, TakeBlock, LearnFrom, EndLearn, MergeFrom, EndMerge, answer
<1>3. CASE ComputeInstr \/ EndBlock \/ Crash \/ End
  BY <1>3 DEF ComputeInstr, EndBlock, Crash, End, answer
<1>4. CASE Call \/ Trap \/ Return
  BY <1>4 DEF Call, Trap, Return, pass, answer
<1>5. CASE ExecutePhi \/ ExecuteBinaryOp \/ ExecuteOther \/ ExecuteGoto \/ ExecuteBranch \/ Stopped
  BY <1>5 DEF ExecutePhi, ExecuteBinaryOp, ExecuteOther, ExecuteGoto, ExecuteBranch, Stopped, Assign, GoTo,
              vars, pass, answer
<1>6. ~FindLoops
  BY DEF FindLoops
<1> QED BY <1>1, <1>2, <1>3, <1>4, <1>5, <1>6 DEF Next

\* The loops are found by the first step.
LEMMA FirstStep ==
  ASSUME [Next]_vars, pc = "start"
  PROVE  FindLoops \/ UNCHANGED vars
BY DEF Next, TakeFirst, TakeBlock, LearnFrom, EndLearn, MergeFrom, EndMerge, ComputeInstr, EndBlock, Crash, End,
       Call, ExecutePhi, ExecuteBinaryOp, Trap, ExecuteOther, ExecuteGoto, ExecuteBranch, Return, Stopped

LEMMA LoopsInit == Init => LoopsFound
<1> SUFFICES ASSUME Init PROVE LoopsFound
  OBVIOUS
<1>1. order \in [Blocks(fn) -> Blocks(fn)] /\ IsInjective(order)
  <2>1. IsInjective([b \in Blocks(fn) |-> b])
    BY DEF IsInjective
  <2> QED BY <2>1 DEF Init
<1> QED BY <1>1 DEF Init, LoopsFound

LEMMA LoopsStep == LoopsFound /\ [Next]_vars => LoopsFound'
<1> SUFFICES ASSUME LoopsFound, [Next]_vars PROVE LoopsFound'
  OBVIOUS
<1>1. CASE pc # "start"
  BY <1>1, AnswerStays DEF LoopsFound
<1>2. CASE FindLoops
  BY <1>2 DEF LoopsFound, FindLoops
<1>3. CASE UNCHANGED vars
  BY <1>3 DEF LoopsFound, vars, answer
<1> QED BY <1>1, <1>2, <1>3, FirstStep

\* A function without loops has no edge that seems to go back.
LEMMA NoBackEdge ==
  ASSUME TypeOK, LoopsFound, pc # "start", Forward(fn)
  PROVE  back_edge = {}
<1>1. back_edge = {e \in Blocks(fn) \X Blocks(fn) : e[2] <= e[1] /\ e[2] \in Successors(fn, e[1])}
  BY DEF LoopsFound
<1>2. Blocks(fn) \subseteq Int
  BY FunctionFacts DEF TypeOK
<1>3. \A e \in Blocks(fn) \X Blocks(fn) : e[2] \in Successors(fn, e[1]) => e[1] < e[2]
  BY DEF Forward
<1>4. \A e \in Blocks(fn) \X Blocks(fn) : e[1] \in Int /\ e[2] \in Int
  BY <1>2
<1>5. \A e \in Blocks(fn) \X Blocks(fn) : ~(e[2] <= e[1] /\ e[2] \in Successors(fn, e[1]))
  BY <1>3, <1>4
<1> QED BY <1>1, <1>5

LEMMA EntriesInit == Init => EntriesLearnt /\ EntriesMerged
BY DEF Init, EntriesLearnt, EntriesMerged, NoRanges

\* What comes from a predecessor does not change while others are visited.
LEMMA IncomingStays ==
  ASSUME NEW f, NEW ranges, NEW other, NEW p, other[p] = ranges[p], NEW c, NEW n, NEW r
  PROVE  Incoming(f, ranges, p, c, n, r) => Incoming(f, other, p, c, n, r)
  BY DEF Incoming, FromBranch

LEMMA EntriesStep == TypeOK /\ Forward(fn) /\ EntriesLearnt /\ [Next]_vars => EntriesLearnt'
<1> SUFFICES ASSUME TypeOK, Forward(fn), EntriesLearnt, [Next]_vars PROVE EntriesLearnt'
  OBVIOUS
<1>0. /\ fn \in Function /\ next \in 1..(Len(fn.blocks) + 1) /\ next \in Int
      /\ in = [b \in Blocks(fn) |-> in[b]] /\ out = [b \in Blocks(fn) |-> out[b]]
      /\ Blocks(fn) = 1..Len(fn.blocks) /\ Blocks(fn) \subseteq Int
  BY FunctionFacts DEF TypeOK
<1>1. CASE UNCHANGED <<fn, in, out, next>> /\ (pc \in {"computing", "crashed"} => pc' \in {"computing", "crashed"})
  BY <1>1 DEF EntriesLearnt
<1>2. CASE LearnFrom
  <2> DEFINE p == preds[turn]
             new == Learn(in, fn, p, out[p])
             D == Blocks(fn)
  <2>1. /\ turn \in DOMAIN preds /\ ~Opaque(p) /\ in' = new /\ pc = "learning"
        /\ UNCHANGED <<fn, out, next, pc>>
    BY <1>2 DEF LearnFrom
  <2>2. p \in Blocks(fn) /\ p \in Predecessors(fn, next) /\ next \in Blocks(fn) /\ next # 1
    BY <2>1, ListedPredecessors
  <2>3. p < next /\ p \in Int
    BY <1>0, <2>2, PredecessorsBefore
  <2>4. \A c \in D : \A n \in DOMAIN new[c] :
              \/ n \in DOMAIN in[c] /\ new[c][n] = in[c][n]
              \/ FromBranch(fn, out, p, c, n, new[c][n])
    <3>1. ~(IsBranch(Terminator(fn, p)) /\ Terminator(fn, p).test = "none")
      BY <2>1 DEF Opaque
    <3> HIDE DEF p
    <3>2. in = [c \in D |-> in[c]] /\ fn \in Function /\ p \in Blocks(fn)
      BY <1>0, <2>2
    <3> HIDE DEF D
    <3> QED BY <3>1, <3>2, LearnMap
  <2>5. SUFFICES ASSUME NEW c \in Blocks(fn), c > next \/ c = next, c # 1, NEW n \in DOMAIN new[c]
                 PROVE  \E q \in Predecessors(fn, c) : q < next /\ Incoming(fn, out, q, c, n, new[c][n])
    <3> HIDE DEF new
    <3> QED BY <2>1 DEF EntriesLearnt
  <2>6. CASE n \in DOMAIN in[c] /\ new[c][n] = in[c][n]
    <3>1. \E q \in Predecessors(fn, c) : q < next /\ Incoming(fn, out, q, c, n, in[c][n])
      BY <2>1, <2>5, <2>6 DEF EntriesLearnt
    <3> HIDE DEF new
    <3> QED BY <2>6, <3>1
  <2>7. CASE FromBranch(fn, out, p, c, n, new[c][n])
    <3> HIDE DEF new
    <3>1. Incoming(fn, out, p, c, n, new[c][n])
      BY <2>7 DEF Incoming
    <3>2. IsBranch(Terminator(fn, p)) /\ (c = Terminator(fn, p).at[1] \/ c = Terminator(fn, p).at[2])
      BY <2>7 DEF FromBranch
    <3>3. p \in Predecessors(fn, c)
      <4>1. Terminator(fn, p).at[1] \in Successors(fn, p) /\ Terminator(fn, p).at[2] \in Successors(fn, p)
        BY <1>0, <2>2, <3>2, BranchFacts
      <4> HIDE DEF p
      <4> QED BY <2>2, <3>2, <4>1 DEF Predecessors
    <3> HIDE DEF p
    <3> QED BY <2>3, <3>1, <3>3
  <2> HIDE DEF new
  <2> QED BY <2>4, <2>5, <2>6, <2>7
<1>3. CASE MergeFrom
  <2> DEFINE p == preds[turn]
             new == Merge(in[next], out[p])
  <2>1. /\ turn \in DOMAIN preds /\ in' = [in EXCEPT ![next] = new] /\ pc = "merging"
        /\ UNCHANGED <<fn, out, next, pc>>
    BY <1>3 DEF MergeFrom
  <2>2. p \in Blocks(fn) /\ p \in Predecessors(fn, next) /\ next \in Blocks(fn) /\ next # 1
    BY <2>1, ListedPredecessors
  <2>3. p < next
    BY <1>0, <2>2, PredecessorsBefore
  <2>4. \A n \in DOMAIN new : (n \in DOMAIN in[next] /\ new[n] = in[next][n])
                             \/ (n \in DOMAIN out[p] /\ new[n] = out[p][n])
    <3> DEFINE m == in[next]
               src == out[p]
    <3>1. new = [k \in DOMAIN m \cup DOMAIN src |-> IF k \in DOMAIN m THEN m[k] ELSE src[k]]
      BY DEF Merge
    <3> HIDE DEF m, src, new
    <3>2. \A n \in DOMAIN new : (n \in DOMAIN m /\ new[n] = m[n]) \/ (n \in DOMAIN src /\ new[n] = src[n])
      BY <3>1
    <3> QED BY <3>2 DEF m, src
  <2> HIDE DEF new
  <2>5. SUFFICES ASSUME NEW c \in Blocks(fn), c > next \/ c = next, c # 1, NEW n \in DOMAIN in'[c]
                 PROVE  \E q \in Predecessors(fn, c) : q < next /\ Incoming(fn, out, q, c, n, in'[c][n])
    BY <2>1 DEF EntriesLearnt
  <2>6. CASE n \in DOMAIN in[c] /\ in'[c][n] = in[c][n]
    BY <2>1, <2>5, <2>6 DEF EntriesLearnt
  <2>7. CASE c = next /\ n \in DOMAIN out[p] /\ in'[c][n] = out[p][n]
    <3>1. Incoming(fn, out, p, c, n, in'[c][n])
      BY <2>7 DEF Incoming
    <3> QED BY <2>2, <2>3, <2>7, <3>1
  <2>8. (n \in DOMAIN in[c] /\ in'[c][n] = in[c][n])
        \/ (c = next /\ n \in DOMAIN out[p] /\ in'[c][n] = out[p][n])
    <3>1. CASE c = next
      <4>1. in'[c] = new
        BY <1>0, <2>1, <2>2, <3>1
      <4> QED BY <2>4, <2>5, <3>1, <4>1
    <3>2. CASE c # next
      BY <1>0, <2>1, <2>5, <3>2
    <3> QED BY <3>1, <3>2
  <2> QED BY <2>6, <2>7, <2>8
<1>4. CASE ComputeInstr \/ EndBlock
  <2>1. /\ pc = "computing" /\ UNCHANGED fn
        /\ \/ next' = next /\ pc' = "computing"
           \/ next' = next + 1
    BY <1>4 DEF ComputeInstr, EndBlock
  <2>2. \A c \in Blocks(fn) : c > next => in'[c] = in[c]
    <3>1. CASE EndBlock
      BY <3>1 DEF EndBlock
    <3>2. CASE ComputeInstr
      <4>1. \E m : Set(m)
        BY <3>2 DEF ComputeInstr
      <4> QED BY <1>0, <4>1 DEF Set
    <3> QED BY <1>4, <3>1, <3>2
  <2>3. \A p \in Blocks(fn) : p < next => out'[p] = out[p]
    <3>1. CASE EndBlock
      BY <1>0, <3>1 DEF EndBlock
    <3>2. CASE ComputeInstr
      <4>1. \E m : Set(m)
        BY <3>2 DEF ComputeInstr
      <4> QED BY <1>0, <4>1 DEF Set
    <3> QED BY <1>4, <3>1, <3>2
  <2>4. SUFFICES ASSUME NEW c \in Blocks(fn), c > next, c # 1, NEW n \in DOMAIN in[c]
                 PROVE  \E p \in Predecessors(fn, c) : p < next' /\ Incoming(fn, out', p, c, n, in[c][n])
    <3>1. \A c \in Blocks(fn) : c > next' \/ (c = next' /\ pc' \notin {"computing", "crashed"}) => c > next
      BY <1>0, <2>1
    <3> QED BY <2>1, <2>2, <3>1 DEF EntriesLearnt
  <2>5. PICK p \in Predecessors(fn, c) : p < next /\ Incoming(fn, out, p, c, n, in[c][n])
    BY <2>4 DEF EntriesLearnt
  <2>6. p \in Blocks(fn) /\ p \in Int
    BY <1>0 DEF Predecessors
  <2>7. out'[p] = out[p] /\ p < next'
    <3>1. next' \in Int /\ next <= next'
      BY <1>0, <2>1
    <3>2. out'[p] = out[p]
      BY <2>3, <2>5, <2>6
    <3> QED BY <1>0, <2>5, <2>6, <3>1, <3>2
  <2>8. Incoming(fn, out', p, c, n, in[c][n])
    BY <2>5, <2>7, IncomingStays
  <2> QED BY <2>7, <2>8
<1>5. CASE UNCHANGED vars
  BY <1>1, <1>5 DEF vars
<1>6. CASE FindLoops \/ TakeFirst \/ TakeBlock \/ EndLearn \/ EndMerge \/ Crash \/ End
  BY <1>1, <1>6 DEF FindLoops, TakeFirst, TakeBlock, EndLearn, EndMerge, Crash, End
<1>7. CASE Call \/ Trap \/ Return
  BY <1>1, <1>7 DEF Call, Trap, Return, pass
<1>8. CASE ExecutePhi \/ ExecuteBinaryOp \/ ExecuteOther \/ ExecuteGoto \/ ExecuteBranch \/ Stopped
  BY <1>1, <1>8 DEF ExecutePhi, ExecuteBinaryOp, ExecuteOther, ExecuteGoto, ExecuteBranch, Stopped, Assign, GoTo,
                    vars, pass
<1> QED BY <1>2, <1>3, <1>4, <1>5, <1>6, <1>7, <1>8 DEF Next

LEMMA MergedStep == TypeOK /\ EntriesMerged /\ [Next]_vars => EntriesMerged'
<1> SUFFICES ASSUME TypeOK, EntriesMerged, [Next]_vars PROVE EntriesMerged'
  OBVIOUS
<1>1. CASE EndLearn
  <2>1. pc = "learning" /\ turn' = 1 /\ UNCHANGED <<fn, in, out, next, preds>>
    BY <1>1 DEF EndLearn
  <2>2. \A k \in DOMAIN preds : ~(k < 1)
    BY <2>1, ListedPredecessors
  <2> QED BY <2>1, <2>2 DEF EntriesMerged
<1>2. CASE MergeFrom
  <2> DEFINE p == preds[turn]
             m == in[next]
             src == out[p]
             new == Merge(m, src)
  <2>1. /\ turn \in DOMAIN preds /\ in' = [in EXCEPT ![next] = new] /\ pc = "merging" /\ turn' = turn + 1
        /\ UNCHANGED <<fn, out, next, preds, pc>>
    BY <1>2 DEF MergeFrom
  <2>2. DOMAIN new = DOMAIN m \cup DOMAIN src
    <3> HIDE DEF m, src
    <3> QED BY DEF Merge
  <2>3. next \in Blocks(fn) /\ \A k \in DOMAIN preds : k \in Nat
    BY <2>1, ListedPredecessors
  <2>4. in'[next] = new
    <3>1. in = [b \in Blocks(fn) |-> in[b]]
      BY DEF TypeOK
    <3> HIDE DEF new
    <3> QED BY <2>1, <2>3, <3>1
  <2>5. ASSUME NEW k \in DOMAIN preds, k < turn + 1
        PROVE  DOMAIN out[preds[k]] \subseteq DOMAIN new
    <3>1. k < turn \/ k = turn
      BY <2>3, <2>5 DEF TypeOK
    <3>2. CASE k < turn
      <4>1. DOMAIN out[preds[k]] \subseteq DOMAIN m
        BY <2>1, <2>5, <3>2 DEF EntriesMerged
      <4> QED BY <2>2, <4>1
    <3>3. CASE k = turn
      BY <2>2, <3>3
    <3> QED BY <3>1, <3>2, <3>3
  <2> HIDE DEF new
  <2> QED BY <2>1, <2>4, <2>5 DEF EntriesMerged
<1>3. CASE UNCHANGED vars
  BY <1>3 DEF vars, EntriesMerged
<1>4. CASE FindLoops \/ TakeFirst \/ TakeBlock \/ LearnFrom \/ EndMerge \/ EndBlock \/ Crash \/ End
  BY <1>4 DEF FindLoops, TakeFirst, TakeBlock, LearnFrom, EndMerge, EndBlock, Crash, End, EntriesMerged
<1>5. CASE Call \/ Trap \/ Return
  BY <1>5 DEF Call, Trap, Return, EntriesMerged
<1>6. CASE ComputeInstr
  BY <1>6 DEF ComputeInstr, EntriesMerged
<1>7. CASE ExecutePhi \/ ExecuteBinaryOp \/ ExecuteOther \/ ExecuteGoto \/ ExecuteBranch \/ Stopped
  BY <1>7 DEF ExecutePhi, ExecuteBinaryOp, ExecuteOther, ExecuteGoto, ExecuteBranch, Stopped, Assign, GoTo,
              vars, pass, EntriesMerged
<1> QED BY <1>1, <1>2, <1>3, <1>4, <1>5, <1>6, <1>7 DEF Next

-----------------------------------------------------------------------------
(* What a block knows stays.                                               *)

\* The same ranges of the operands have the same result.
LEMMA EndsSame ==
  ASSUME NEW instr, NEW m, NEW m2,
         RangeOf(instr.args[1], m2) = RangeOf(instr.args[1], m),
         RangeOf(instr.args[2], m2) = RangeOf(instr.args[2], m)
  PROVE  /\ \A g : Ends(instr, m2, g) = Ends(instr, m, g) /\ Computed(instr, m2, g) = Computed(instr, m, g)
         /\ Computes(instr, m2) <=> Computes(instr, m)
<1>1. \A g : Ends(instr, m2, g) = Ends(instr, m, g)
  BY DEF Ends
<1> QED BY <1>1 DEF Computed, Computes

LEMMA JoinedSame ==
  ASSUME NEW instr, NEW outs, NEW outs2, \A i \in DOMAIN instr.args : outs2[instr.at[i]] = outs[instr.at[i]]
  PROVE  Joined(instr, outs2) = Joined(instr, outs)
<1> DEFINE numbers(o, i) == JoinedOf(instr, o, i)
<1>1. \A i \in DOMAIN instr.args : numbers(outs2, i) = numbers(outs, i)
  BY DEF JoinedOf
<1>2. {numbers(outs2, i) : i \in DOMAIN instr.args} = {numbers(outs, i) : i \in DOMAIN instr.args}
  <2> HIDE DEF numbers
  <2> QED BY <1>1
<1>3. /\ Joined(instr, outs2) = <<Min(UNION {numbers(outs2, i) : i \in DOMAIN instr.args}),
                                  Max(UNION {numbers(outs2, i) : i \in DOMAIN instr.args})>>
      /\ Joined(instr, outs) = <<Min(UNION {numbers(outs, i) : i \in DOMAIN instr.args}),
                                 Max(UNION {numbers(outs, i) : i \in DOMAIN instr.args})>>
  BY DEF Joined, JoinedOf
<1> QED BY <1>2, <1>3

\* Two maps that agree on the names that are known before the i-th instruction.
Agree(f, b, i, m, m2) ==
  \A k : Known(f, k, b, i) =>
    /\ k \in DOMAIN m2 <=> k \in DOMAIN m
    /\ tryGetRange([name |-> k], m2) = tryGetRange([name |-> k], m)

LEMMA OperandAgrees ==
  ASSUME NEW f, NEW b, NEW i, NEW m, NEW m2, Agree(f, b, i, m, m2), NEW o \in Operand,
         IsConst(o) \/ Known(f, o.name, b, i)
  PROVE  tryGetRange(o, m2) = tryGetRange(o, m) /\ RangeOf(o, m2) = RangeOf(o, m)
<1>1. CASE IsConst(o)
  BY <1>1 DEF tryGetRange, RangeOf
<1>2. CASE ~IsConst(o)
  <2>1. o = [name |-> o.name]
    BY <1>2, OperandKinds
  <2>2. tryGetRange([name |-> o.name], m2) = tryGetRange([name |-> o.name], m)
    BY <1>2 DEF Agree
  <2>3. tryGetRange(o, m2) = tryGetRange(o, m)
    BY <2>1, <2>2
  <2> QED BY <1>2, <2>3 DEF RangeOf
<1> QED BY <1>1, <1>2

LEMMA ExplainedKnown ==
  ASSUME NEW f \in Function, NEW ranges, NEW names, NEW b \in Blocks(f), NEW i \in Nat \ {0}, NEW n, NEW m,
         Explained(f, ranges, names, b, i, n, m)
  PROVE  Known(f, n, b, i)
<1>1. CASE \E j \in DOMAIN f.blocks[b] : j < i /\ Assigns(f, b, j, n)
  BY <1>1 DEF Known
<1>2. CASE n \in ToSet(f.params)
  BY <1>2 DEF Known
<1>3. CASE Known(f, n, b, 1)
  <2> DEFINE z == 1
  <2>1. Blocks(f) \subseteq Int /\ \A a \in Blocks(f) : DOMAIN f.blocks[a] \subseteq Int
    BY FunctionFacts
  <2>2. b \in Int /\ z \in Int /\ i \in Int /\ z <= i /\ Known(f, n, b, z)
    BY <1>3, <2>1
  <2> HIDE DEF z
  <2> QED BY <2>1, <2>2, KnownLater
<1> QED BY <1>1, <1>2, <1>3 DEF Explained

LEMMA ExplainedStays ==
  ASSUME NEW f \in Function, Forward(f), NEW b \in Blocks(f), NEW ranges, NEW ranges2, NEW names, NEW names2,
         \A c \in Blocks(f) : c < b => ranges2[c] = ranges[c] /\ names2[c] = names[c],
         names[b] \subseteq names2[b],
         NEW i \in Nat \ {0}, NEW i2 \in Nat \ {0}, i <= i2, NEW n, NEW m, NEW m2, Agree(f, b, i, m, m2),
         Explained(f, ranges, names, b, i, n, m)
  PROVE  Explained(f, ranges2, names2, b, i2, n, m2)
<1>1. Known(f, n, b, i)
  BY ExplainedKnown
<1>2. (n \in DOMAIN m2 <=> n \in DOMAIN m) /\ tryGetRange([name |-> n], m2) = tryGetRange([name |-> n], m)
  BY <1>1 DEF Agree
<1>3. Blocks(f) \subseteq Int /\ \A a \in Blocks(f) : DOMAIN f.blocks[a] \subseteq Int
  BY FunctionFacts
<1>4. CASE \E j \in DOMAIN f.blocks[b] :
             /\ j < i /\ Assigns(f, b, j, n) /\ n \in DOMAIN m
             /\ ComputingOp(f, names, b, j, m) \/ ComputingPhi(f, ranges, names, b, j, m)
  <2>1. PICK j \in DOMAIN f.blocks[b] :
             /\ j < i /\ Assigns(f, b, j, n) /\ n \in DOMAIN m
             /\ ComputingOp(f, names, b, j, m) \/ ComputingPhi(f, ranges, names, b, j, m)
    BY <1>4
  <2> DEFINE instr == f.blocks[b][j]
  <2>2. instr.to = n /\ n \in DOMAIN m2 /\ j < i2 /\ j \in Int
    BY <1>2, <1>3, <2>1 DEF Assigns
  <2>3. m2[n] = m[n]
    <3>1. ~IsConst([name |-> n]) /\ [name |-> n].name = n
      BY OperandKinds
    <3> QED BY <1>2, <2>1, <2>2, <3>1 DEF tryGetRange
  <2>4. CASE ComputingOp(f, names, b, j, m)
    <3>1. /\ instr.op \in BinaryOp /\ Computes(instr, m)
          /\ \A x \in 1..2 : /\ Usable(instr.args[x], names[b], m)
                             /\ IsConst(instr.args[x]) \/ Known(f, instr.args[x].name, b, j)
          /\ \E g \in Leftovers \X Leftovers : m[instr.to] = Computed(instr, m, g)
      BY <2>4 DEF ComputingOp
    <3>2. instr.args[1] \in Operand /\ instr.args[2] \in Operand
      BY <3>1, OperandFacts DEF BinaryInstr
    <3>3. \A x \in 1..2 : IsConst(instr.args[x]) \/ Known(f, instr.args[x].name, b, i)
      <4> TAKE x \in 1..2
      <4>1. b \in Int /\ j \in Int /\ i \in Int /\ j <= i
        BY <1>3, <2>1
      <4> HIDE DEF instr
      <4> QED BY <1>3, <3>1, <4>1, KnownLater
    <3>4. \A x \in 1..2 : /\ tryGetRange(instr.args[x], m2) = tryGetRange(instr.args[x], m)
                          /\ RangeOf(instr.args[x], m2) = RangeOf(instr.args[x], m)
      <4> HIDE DEF instr
      <4> QED BY <3>2, <3>3, OperandAgrees
    <3>5. \A x \in 1..2 : Usable(instr.args[x], names2[b], m2)
      <4> HIDE DEF instr
      <4> QED BY <3>1, <3>4 DEF Usable
    <3>6. /\ \A g : Computed(instr, m2, g) = Computed(instr, m, g)
          /\ Computes(instr, m2)
      <4> HIDE DEF instr
      <4>1. /\ RangeOf(instr.args[1], m2) = RangeOf(instr.args[1], m)
            /\ RangeOf(instr.args[2], m2) = RangeOf(instr.args[2], m)
        BY <3>4
      <4> QED BY <3>1, <4>1, EndsSame
    <3>7. \E g \in Leftovers \X Leftovers : m2[instr.to] = Computed(instr, m2, g)
      BY <2>2, <2>3, <3>1, <3>6
    <3>8. ComputingOp(f, names2, b, j, m2)
      BY <3>1, <3>5, <3>6, <3>7 DEF ComputingOp
    <3> QED BY <2>1, <2>2, <3>8 DEF Explained
  <2>5. CASE ComputingPhi(f, ranges, names, b, j, m)
    <3>1. /\ instr.op = "phi"
          /\ \A x \in DOMAIN instr.args :
               IF IsConst(instr.args[x]) THEN instr.args[x].const \in Bounded
               ELSE instr.args[x].name \in names[instr.at[x]]
          /\ m[instr.to] = Joined(instr, ranges)
      BY <2>5 DEF ComputingPhi
    <3>2. \A x \in DOMAIN instr.args : instr.at[x] \in Predecessors(f, b)
      BY <3>1, OperandFacts
    <3>3. \A x \in DOMAIN instr.args : ranges2[instr.at[x]] = ranges[instr.at[x]] /\ names2[instr.at[x]] = names[instr.at[x]]
      <4> HIDE DEF instr
      <4> TAKE x \in DOMAIN instr.args
      <4>1. instr.at[x] \in Blocks(f) /\ instr.at[x] < b
        BY <3>2, PredecessorsBefore
      <4> QED BY <4>1
    <3>4. Joined(instr, ranges2) = Joined(instr, ranges)
      <4> HIDE DEF instr
      <4> QED BY <3>3, JoinedSame
    <3>5. ComputingPhi(f, ranges2, names2, b, j, m2)
      BY <2>2, <2>3, <3>1, <3>3, <3>4 DEF ComputingPhi
    <3> QED BY <2>1, <2>2, <3>5 DEF Explained
  <2> QED BY <2>1, <2>4, <2>5
<1>5. CASE b = 1 /\ n \in ToSet(f.params) /\ n \notin DOMAIN m
  BY <1>2, <1>5 DEF Explained
<1>6. CASE /\ b # 1 /\ Known(f, n, b, 1)
           /\ \E p \in Blocks(f) :
                /\ Predecessors(f, b) = {p}
                /\ n \in Carried(f, p, names[p], ranges[p])
                /\ \/ tryGetRange([name |-> n], m) = tryGetRange([name |-> n], ranges[p])
                   \/ FromBranch(f, ranges, p, b, n, tryGetRange([name |-> n], m))
  <2>1. PICK p \in Blocks(f) :
                /\ Predecessors(f, b) = {p}
                /\ n \in Carried(f, p, names[p], ranges[p])
                /\ \/ tryGetRange([name |-> n], m) = tryGetRange([name |-> n], ranges[p])
                   \/ FromBranch(f, ranges, p, b, n, tryGetRange([name |-> n], m))
    BY <1>6
  <2>2. p \in Predecessors(f, b)
    BY <2>1
  <2>3. ranges2[p] = ranges[p] /\ names2[p] = names[p]
    BY <2>2, PredecessorsBefore
  <2>4. FromBranch(f, ranges, p, b, n, tryGetRange([name |-> n], m))
          => FromBranch(f, ranges2, p, b, n, tryGetRange([name |-> n], m))
    BY <2>3 DEF FromBranch
  <2>5. n \in Carried(f, p, names2[p], ranges2[p])
    BY <2>1, <2>3
  <2> QED BY <1>2, <1>6, <2>1, <2>3, <2>4, <2>5 DEF Explained
<1> QED BY <1>4, <1>5, <1>6 DEF Explained

\* So what is known of a block when others are visited.
LEMMA BlockStays ==
  ASSUME NEW f \in Function, Forward(f), NEW b \in Blocks(f), NEW ranges, NEW ranges2, NEW names, NEW names2,
         \A c \in Blocks(f) : c < b => ranges2[c] = ranges[c] /\ names2[c] = names[c],
         names2[b] = names[b], NEW i \in Nat \ {0}, NEW m, BlockRight(f, ranges, names, b, i, m)
  PROVE  BlockRight(f, ranges2, names2, b, i, m)
<1>1. Agree(f, b, i, m, m) /\ i <= i
  BY DEF Agree
<1>2. ASSUME NEW n \in names2[b]
      PROVE  Explained(f, ranges2, names2, b, i, n, m)
  <2>1. Explained(f, ranges, names, b, i, n, m)
    BY <1>2 DEF BlockRight
  <2> QED BY <1>1, <2>1, ExplainedStays
<1> QED BY <1>2 DEF BlockRight

\* What was printed stays.
LEMMA LineStays ==
  ASSUME NEW f, NEW lines, NEW lines2, \A j \in DOMAIN lines : j \in DOMAIN lines2 /\ lines2[j] = lines[j],
         NEW b, NEW m, HasLine(f, lines, b, m)
  PROVE  HasLine(f, lines2, b, m)
  BY DEF HasLine

\* At its begin a block knows what its predecessors know.
LEMMA EntryRight ==
  ASSUME NEW f \in Function, Forward(f), NEW b \in Blocks(f), b # 1, NEW ranges, NEW names, NEW names2, NEW m,
         \A c \in Blocks(f) : IsMap(ranges[c]),
         \A n \in DOMAIN m : \E p \in Predecessors(f, b) : Incoming(f, ranges, p, b, n, m[n]),
         \A p \in Predecessors(f, b) : BlockRight(f, ranges, names, p, Len(f.blocks[p]) + 1, ranges[p]),
         \A p : Predecessors(f, b) = {p} => DOMAIN ranges[p] \subseteq DOMAIN m,
         \A n \in names2[b] :
           \E p \in Blocks(f) : Predecessors(f, b) = {p} /\ n \in Carried(f, p, names[p], ranges[p]),
         \A c \in Blocks(f) : c < b => names2[c] = names[c]
  PROVE  BlockRight(f, ranges, names2, b, 1, m)
<1>1. Blocks(f) \subseteq Int /\ \A a \in Blocks(f) : DOMAIN f.blocks[a] \subseteq Int /\ Len(f.blocks[a]) \in Nat \ {0}
  BY FunctionFacts
<1>2. ASSUME NEW p \in Predecessors(f, b)
      PROVE  p \in Blocks(f) /\ p \in Int /\ p < b /\ names2[p] = names[p]
  BY <1>2, PredecessorsBefore
<1>3. ASSUME NEW p \in Predecessors(f, b), NEW n, NEW i \in Int, Known(f, n, p, i)
      PROVE  Known(f, n, b, 1)
  <2> DEFINE z == 1
  <2>1. b \in Int /\ p \in Int /\ p < b /\ z \in Int
    BY <1>1, <1>2
  <2> HIDE DEF z
  <2>2. Known(f, n, b, z)
    BY <1>1, <1>3, <2>1, KnownLater
  <2> QED BY <2>2 DEF z
<1>4. ASSUME NEW n \in DOMAIN m
      PROVE  Known(f, n, b, 1)
  <2>1. PICK p \in Predecessors(f, b) : Incoming(f, ranges, p, b, n, m[n])
    BY <1>4
  <2>2. p \in Blocks(f) /\ Len(f.blocks[p]) \in Int /\ Len(f.blocks[p]) + 1 \in Int
    BY <1>1, <1>2
  <2>3. CASE n \in DOMAIN ranges[p]
    <3>1. Known(f, n, p, Len(f.blocks[p]) + 1)
      BY <2>3 DEF BlockRight
    <3> DEFINE k == Len(f.blocks[p]) + 1
    <3>2. k \in Int /\ Known(f, n, p, k)
      BY <2>2, <3>1
    <3> HIDE DEF k
    <3> QED BY <1>3, <3>2
  <2>4. CASE FromBranch(f, ranges, p, b, n, m[n])
    <3>1. PICK i \in 1..2 : Terminator(f, p).args[i] = [name |-> n]
      BY <2>4 DEF FromBranch
    <3>2. IsBranch(Terminator(f, p)) /\ Terminator(f, p).test # "none"
      BY <2>4 DEF FromBranch
    <3>3. IsConst(Terminator(f, p).args[i]) \/ Known(f, Terminator(f, p).args[i].name, p, Len(f.blocks[p]))
      BY <2>2, <3>2, BranchFacts
    <3>4. ~IsConst([name |-> n]) /\ [name |-> n].name = n
      BY OperandKinds
    <3>5. Known(f, n, p, Len(f.blocks[p]))
      BY <3>1, <3>3, <3>4
    <3> QED BY <1>3, <2>2, <3>5
  <2> QED BY <2>1, <2>3, <2>4 DEF Incoming
<1>5. ASSUME NEW n \in names2[b]
      PROVE  /\ tryGetRange([name |-> n], m) \in RangesOf(Bounded)
             /\ Explained(f, ranges, names2, b, 1, n, m)
  <2>1. PICK p \in Blocks(f) : Predecessors(f, b) = {p} /\ n \in Carried(f, p, names[p], ranges[p])
    BY <1>5
  <2> DEFINE o == [name |-> n]
  <2>2. p \in Predecessors(f, b) /\ n \in names[p]
    BY <2>1 DEF Carried
  <2>3. tryGetRange(o, ranges[p]) \in RangesOf(Bounded) /\ Known(f, n, b, 1)
    <3> DEFINE k == Len(f.blocks[p]) + 1
    <3>1. k \in Nat \ {0} /\ p \in Blocks(f)
      BY <1>1, <2>1
    <3>2. BlockRight(f, ranges, names, p, k, ranges[p])
      BY <2>2
    <3> HIDE DEF k
    <3>3. tryGetRange(o, ranges[p]) \in RangesOf(Bounded) /\ Explained(f, ranges, names, p, k, n, ranges[p])
      BY <2>2, <3>2 DEF BlockRight
    <3>4. Known(f, n, p, k)
      BY <3>1, <3>3, ExplainedKnown
    <3> QED BY <1>3, <2>2, <3>1, <3>3, <3>4
  <2>4. ~IsConst(o) /\ o.name = n
    BY OperandKinds
  <2>5. tryGetRange(o, m) = tryGetRange(o, ranges[p]) \/ FromBranch(f, ranges, p, b, n, tryGetRange(o, m))
    <3>1. CASE n \in DOMAIN m
      <4>1. Incoming(f, ranges, p, b, n, m[n])
        BY <2>1, <3>1
      <4>2. tryGetRange(o, m) = m[n]
        BY <2>4, <3>1 DEF tryGetRange
      <4>3. n \in DOMAIN ranges[p] => tryGetRange(o, ranges[p]) = ranges[p][n]
        BY <2>4 DEF tryGetRange
      <4> QED BY <4>1, <4>2, <4>3 DEF Incoming
    <3>2. CASE n \notin DOMAIN m
      <4>1. n \notin DOMAIN ranges[p]
        BY <2>1, <3>2
      <4> HIDE DEF o
      <4> QED BY <2>4, <3>2, <4>1 DEF tryGetRange
    <3> QED BY <3>1, <3>2
  <2>6. tryGetRange(o, m) \in RangesOf(Bounded)
    <3>1. CASE FromBranch(f, ranges, p, b, n, tryGetRange(o, m))
      <4> DEFINE A == -Inf
                 B == Inf
                 r == tryGetRange(o, m)
      <4>1. Bounded = A..B /\ A \in Int /\ B \in Int
        BY Ranging DEF Bounded
      <4>2. IsMap(ranges[p]) /\ FromBranch(f, ranges, p, b, n, r)
        BY <3>1
      <4> HIDE DEF A, B, r
      <4>3. r \in RangesOf(A..B)
        BY <2>3, <4>1, <4>2, LearntType
      <4> QED BY <4>1, <4>3 DEF r
    <3> QED BY <2>3, <2>5, <3>1
  <2>7. p \in Blocks(f) /\ names2[p] = names[p]
    BY <1>2, <2>2
  <2>8. Explained(f, ranges, names2, b, 1, n, m)
    BY <2>1, <2>3, <2>5, <2>7 DEF Explained
  <2> QED BY <2>6, <2>8
<1> QED BY <1>4, <1>5 DEF BlockRight

\* An instruction of block b whose result can be relied on; names are those of each
\* block that can.
ReliableOp(instr, names, b, m) ==
  /\ instr.op \in BinaryOp
  /\ \A x \in 1..2 : Usable(instr.args[x], names[b], m)
  /\ Computes(instr, m)
ReliablePhi(instr, names) ==
  /\ instr.op = "phi"
  /\ \A x \in DOMAIN instr.args :
       IF IsConst(instr.args[x]) THEN instr.args[x].const \in Bounded
       ELSE instr.args[x].name \in names[instr.at[x]]

LEMMA ReliableKinds ==
  ASSUME NEW instr, NEW b, NEW m
  PROVE  Reliable(instr, trusted[b], m) <=> ReliableOp(instr, trusted, b, m) \/ ReliablePhi(instr, trusted)
  BY DEF Reliable, ReliableOp, ReliablePhi, Bounded

\* After an instruction a block knows what it knew, and the result.
LEMMA AfterRight ==
  ASSUME NEW f \in Function, Forward(f), NEW b \in Blocks(f), NEW i \in DOMAIN f.blocks[b],
         NEW ranges, NEW ranges2, NEW names, NEW names2, NEW m, IsMap(m),
         \A c \in Blocks(f) : IsMap(ranges[c]),
         \A c \in Blocks(f) : c < b => ranges2[c] = ranges[c] /\ names2[c] = names[c],
         \A p \in Blocks(f) : p < b => BlockRight(f, ranges, names, p, Len(f.blocks[p]) + 1, ranges[p]),
         BlockRight(f, ranges, names, b, i, m),
         ~DividesByZero(f.blocks[b][i]), NEW g \in Leftovers \X Leftovers,
         names[b] \subseteq names2[b],
         \A n \in names2[b] : \/ n \in names[b]
                              \/ /\ n = f.blocks[b][i].to
                                 /\ ReliableOp(f.blocks[b][i], names, b, m) \/ ReliablePhi(f.blocks[b][i], names)
  PROVE  BlockRight(f, ranges2, names2, b, i + 1, After(f.blocks[b][i], m, ranges, g))
<1> DEFINE instr == f.blocks[b][i]
           new == After(instr, m, ranges, g)
           to == instr.to
           result == IF instr.op \in BinaryOp THEN Computed(instr, m, g) ELSE Joined(instr, ranges)
           one == i + 1
<1>1. i \in Nat \ {0} /\ one \in Nat \ {0} /\ i <= one /\ i < one
  BY FunctionFacts
<1>2. CASE instr.op \notin BinaryOp \cup {"phi"}
  <2>1. new = m
    BY <1>2, AfterMap
  <2>2. names2[b] = names[b]
    BY <1>2 DEF ReliableOp, ReliablePhi
  <2>3. Agree(f, b, i, m, m)
    BY DEF Agree
  <2>4. \A n \in DOMAIN m : Known(f, n, b, one)
    BY KnownAfter DEF BlockRight
  <2>5. ASSUME NEW n \in names2[b]
        PROVE  tryGetRange([name |-> n], m) \in RangesOf(Bounded) /\ Explained(f, ranges2, names2, b, one, n, m)
    <3>1. tryGetRange([name |-> n], m) \in RangesOf(Bounded) /\ Explained(f, ranges, names, b, i, n, m)
      BY <2>2, <2>5 DEF BlockRight
    <3> HIDE DEF one
    <3>2. Explained(f, ranges2, names2, b, one, n, m)
      BY <1>1, <2>3, <3>1, ExplainedStays
    <3> QED BY <3>1, <3>2
  <2> QED BY <2>1, <2>4, <2>5 DEF BlockRight
<1>3. CASE instr.op \in BinaryOp \cup {"phi"}
  <2>1. new = Insert(m, to, result)
    BY <1>3, AfterMap, OperandFacts
  <2>2. ~Closes(instr)
    BY <1>3, OperandFacts
  <2>3. Assigns(f, b, i, to) /\ Known(f, to, b, one) /\ ~Known(f, to, b, i)
    BY <2>2, KnownAfter DEF Assigns
  <2>4. to \notin DOMAIN m
    BY <2>3 DEF BlockRight
  <2>5. /\ DOMAIN new = DOMAIN m \cup {to}
        /\ \A k \in DOMAIN m : new[k] = m[k]
        /\ new[to] = result
    <3> HIDE DEF to, result, new
    <3>1. new = [k \in DOMAIN m \cup {to} |-> IF k \in DOMAIN m THEN m[k] ELSE result]
      BY <2>1 DEF Insert
    <3> QED BY <2>4, <3>1
  <2>6. Agree(f, b, i, m, new)
    <3> SUFFICES ASSUME NEW k, Known(f, k, b, i)
                 PROVE  /\ k \in DOMAIN new <=> k \in DOMAIN m
                        /\ tryGetRange([name |-> k], new) = tryGetRange([name |-> k], m)
      <4> HIDE DEF new
      <4> QED BY DEF Agree
    <3>1. k # to
      BY <2>3
    <3> HIDE DEF new, to
    <3> QED BY <2>5, <3>1, OperandKinds DEF tryGetRange
  <2>7. \A n \in DOMAIN new : Known(f, n, b, one)
    <3>1. \A n \in DOMAIN m : Known(f, n, b, one)
      BY KnownAfter DEF BlockRight
    <3> HIDE DEF new, one, to
    <3> QED BY <2>3, <2>5, <3>1
  <2>8. ASSUME NEW n \in names[b]
        PROVE  /\ tryGetRange([name |-> n], new) \in RangesOf(Bounded) /\ Explained(f, ranges2, names2, b, one, n, new)
               /\ tryGetRange([name |-> n], new) = tryGetRange([name |-> n], m) /\ Known(f, n, b, i)
    <3>1. tryGetRange([name |-> n], m) \in RangesOf(Bounded) /\ Explained(f, ranges, names, b, i, n, m)
      BY <2>8 DEF BlockRight
    <3>2. Known(f, n, b, i)
      BY <1>1, <3>1, ExplainedKnown
    <3>3. tryGetRange([name |-> n], new) = tryGetRange([name |-> n], m)
      <4> HIDE DEF new
      <4> QED BY <2>6, <3>2 DEF Agree
    <3> HIDE DEF one, new
    <3>4. Explained(f, ranges2, names2, b, one, n, new)
      BY <1>1, <2>6, <3>1, ExplainedStays
    <3> QED BY <3>1, <3>2, <3>3, <3>4
  <2>9. tryGetRange([name |-> to], new) = result
    <3> HIDE DEF new, to, result
    <3> QED BY <2>5, OperandKinds DEF tryGetRange
  <2>10. ASSUME ReliableOp(instr, names, b, m)
         PROVE  result \in RangesOf(Bounded) /\ Explained(f, ranges2, names2, b, one, to, new)
    <3>1. /\ instr.op \in BinaryOp /\ Computes(instr, m) /\ result = Computed(instr, m, g)
          /\ \A x \in 1..2 : Usable(instr.args[x], names[b], m)
      BY <2>10 DEF ReliableOp
    <3>2. BinaryInstr(instr)
      BY <3>1, OperandFacts
    <3>3. result \in RangesOf(Bounded)
      <4> HIDE DEF instr, result
      <4> QED BY <3>1, <3>2, ComputedRange
    <3>4. \A x \in 1..2 : instr.args[x] \in Operand
      BY <3>2 DEF BinaryInstr
    <3>5. \A x \in 1..2 : IsConst(instr.args[x]) \/ (instr.args[x].name \in names[b] /\ Known(f, instr.args[x].name, b, i))
      <4> HIDE DEF instr, new, one
      <4> QED BY <2>8, <3>1 DEF Usable
    <3>6. \A x \in 1..2 : /\ tryGetRange(instr.args[x], new) = tryGetRange(instr.args[x], m)
                          /\ RangeOf(instr.args[x], new) = RangeOf(instr.args[x], m)
      <4> HIDE DEF instr, new
      <4> QED BY <2>6, <3>4, <3>5, OperandAgrees
    <3>7. \A x \in 1..2 : Usable(instr.args[x], names2[b], new)
      <4> HIDE DEF instr, new
      <4> QED BY <3>1, <3>6 DEF Usable
    <3>8. Computes(instr, new) /\ Computed(instr, new, g) = Computed(instr, m, g)
      <4> HIDE DEF instr, new
      <4>1. RangeOf(instr.args[1], new) = RangeOf(instr.args[1], m) /\ RangeOf(instr.args[2], new) = RangeOf(instr.args[2], m)
        BY <3>6
      <4> QED BY SMTT(30), <3>1, <4>1, EndsSame
    <3>9. new[to] = Computed(instr, new, g)
      <4> HIDE DEF new
      <4> QED BY <2>5, <3>1, <3>8
    <3>10. ComputingOp(f, names2, b, i, new)
      <4> HIDE DEF new
      <4> QED BY <3>1, <3>5, <3>7, <3>8, <3>9 DEF ComputingOp
    <3>11. to \in DOMAIN new
      <4> HIDE DEF new
      <4> QED BY <2>5
    <3> HIDE DEF one, new, to
    <3> QED BY <1>1, <2>3, <3>3, <3>10, <3>11 DEF Explained
  <2>11. ASSUME ReliablePhi(instr, names)
         PROVE  result \in RangesOf(Bounded) /\ Explained(f, ranges2, names2, b, one, to, new)
    <3>1. /\ instr.op = "phi"
          /\ \A x \in DOMAIN instr.args :
               IF IsConst(instr.args[x]) THEN instr.args[x].const \in Bounded
               ELSE instr.args[x].name \in names[instr.at[x]]
      BY <2>11 DEF ReliablePhi
    <3>2. /\ instr.op \notin BinaryOp /\ instr.args \in Seq(Operand) /\ instr.args # <<>>
          /\ \A x \in DOMAIN instr.args : instr.at[x] \in Predecessors(f, b)
      BY <3>1, OperandFacts
    <3>3. \A x \in DOMAIN instr.args : instr.at[x] \in Blocks(f) /\ instr.at[x] < b
      <4> HIDE DEF instr
      <4> QED BY <3>2, PredecessorsBefore
    <3>4. result = Joined(instr, ranges) /\ Joined(instr, ranges2) = Joined(instr, ranges)
      <4>1. result = Joined(instr, ranges)
        BY <3>2
      <4> HIDE DEF instr, result
      <4>2. \A x \in DOMAIN instr.args : ranges2[instr.at[x]] = ranges[instr.at[x]]
        BY <3>3
      <4> QED BY <4>1, <4>2, JoinedSame
    <3>5. result \in RangesOf(Bounded)
      <4> DEFINE A == -Inf
                 B == Inf
      <4>1. Bounded = A..B /\ A \in Int /\ B \in Int
        BY Ranging DEF Bounded
      <4>2. ASSUME NEW x \in DOMAIN instr.args
            PROVE  IF IsConst(instr.args[x]) THEN instr.args[x].const \in Bounded
                   ELSE tryGetRange(instr.args[x], ranges[instr.at[x]]) \in RangesOf(Bounded)
        <5>1. CASE IsConst(instr.args[x])
          BY <3>1, <5>1
        <5>2. CASE ~IsConst(instr.args[x])
          <6>1. instr.args[x].name \in names[instr.at[x]] /\ instr.args[x] \in Operand
            BY <3>1, <3>2, <5>2
          <6>2. instr.args[x] = [name |-> instr.args[x].name]
            BY <5>2, <6>1, OperandKinds
          <6> DEFINE p == instr.at[x]
                     k == instr.args[x].name
          <6>3. BlockRight(f, ranges, names, p, Len(f.blocks[p]) + 1, ranges[p])
            BY <3>3
          <6> HIDE DEF p, k, instr
          <6>4. tryGetRange([name |-> k], ranges[p]) \in RangesOf(Bounded)
            BY <6>1, <6>3 DEF BlockRight, p, k
          <6> QED BY <5>2, <6>2, <6>4 DEF p, k
        <5> QED BY <5>1, <5>2
      <4> HIDE DEF A, B, instr, result
      <4>3. Joined(instr, ranges) \in RangesOf(A..B)
        BY <3>2, <4>1, <4>2, JoinedRight
      <4> QED BY <3>4, <4>1, <4>3
    <3>6. ComputingPhi(f, ranges2, names2, b, i, new)
      <4>1. \A x \in DOMAIN instr.args : names2[instr.at[x]] = names[instr.at[x]]
        BY <3>3
      <4> HIDE DEF new, result
      <4> QED BY <2>5, <3>1, <3>4, <4>1 DEF ComputingPhi
    <3>7. to \in DOMAIN new
      <4> HIDE DEF new
      <4> QED BY <2>5
    <3> HIDE DEF one, new, to
    <3> QED BY <1>1, <2>3, <3>5, <3>6, <3>7 DEF Explained
  <2>12. ASSUME NEW n \in names2[b]
         PROVE  tryGetRange([name |-> n], new) \in RangesOf(Bounded) /\ Explained(f, ranges2, names2, b, one, n, new)
    <3>1. CASE n \in names[b]
      BY <2>8, <3>1
    <3>2. CASE n = to /\ (ReliableOp(instr, names, b, m) \/ ReliablePhi(instr, names))
      <4> HIDE DEF new, to, result, one
      <4> QED BY <2>9, <2>10, <2>11, <3>2
    <3> QED BY <2>12, <3>1, <3>2
  <2> HIDE DEF new, one
  <2>13. BlockRight(f, ranges2, names2, b, one, new)
    BY <2>7, <2>12 DEF BlockRight
  <2> QED BY <2>13 DEF new, one
<1> QED BY <1>2, <1>3

LEMMA RangesStep ==
  TypeOK /\ LoopsFound /\ Forward(fn) /\ EntriesLearnt /\ EntriesMerged /\ RangesRight /\ [Next]_vars => RangesRight'
<1> SUFFICES ASSUME TypeOK, LoopsFound, Forward(fn), EntriesLearnt, EntriesMerged, RangesRight, [Next]_vars
             PROVE  RangesRight'
  OBVIOUS
<1>0. /\ fn \in Function /\ next \in 1..(Len(fn.blocks) + 1) /\ next \in Int
      /\ in = [b \in Blocks(fn) |-> in[b]] /\ out = [b \in Blocks(fn) |-> out[b]]
      /\ trusted = [b \in Blocks(fn) |-> trusted[b]]
      /\ \A b \in Blocks(fn) : IsMap(in[b]) /\ IsMap(out[b])
      /\ Blocks(fn) = 1..Len(fn.blocks) /\ Blocks(fn) \subseteq Int
      /\ \A b \in Blocks(fn) : Len(fn.blocks[b]) \in Nat \ {0} /\ Len(fn.blocks[b]) + 1 \in Nat \ {0}
  BY FunctionFacts DEF TypeOK
<1>a. pc # "start" => \A b \in Blocks(fn) : b < next =>
         /\ BlockRight(fn, out, trusted, b, Len(fn.blocks[b]) + 1, out[b])
         /\ HasLine(fn, printed, b, out[b])
  BY DEF RangesRight
<1>1. CASE /\ UNCHANGED <<fn, out, printed, trusted, next>> /\ pc # "start"
           /\ pc' = "computing" => pc = "computing" /\ UNCHANGED <<in, turn>>
  BY <1>1 DEF RangesRight, AtHand
<1>2. CASE FindLoops
  <2>1. next' = 1 /\ UNCHANGED fn /\ pc' = "blocks"
    BY <1>2 DEF FindLoops, TypeOK
  <2>2. \A b \in Blocks(fn) : ~(b < 1)
    BY <1>0
  <2> QED BY <2>1, <2>2 DEF RangesRight
<1>3. CASE TakeFirst
  <2>1. /\ pc = "blocks" /\ next = 1 /\ turn = 1 /\ out[1] = NoRanges /\ pc' = "computing"
        /\ trusted' = [trusted EXCEPT ![1] = ToSet(fn.params)]
        /\ UNCHANGED <<fn, out, printed, next, turn>>
    BY <1>3 DEF TakeFirst, TypeOK, Entering
  <2>2. 1 \in Blocks(fn) /\ \A b \in Blocks(fn) : ~(b < 1)
    BY <1>0, FunctionFacts
  <2>3. trusted'[1] = ToSet(fn.params) /\ out'[1] = NoRanges /\ DOMAIN NoRanges = {}
    BY <1>0, <2>1, <2>2 DEF NoRanges
  <2>4. \A n : tryGetRange([name |-> n], NoRanges) = Full /\ Full \in RangesOf(Bounded)
    <3>1. Full \in RangesOf(Bounded)
      BY RangeMade, Ranging DEF Full
    <3> QED BY <2>3, <3>1, OperandKinds DEF tryGetRange
  <2>5. BlockRight(fn, out', trusted', 1, 1, NoRanges)
    BY <2>3, <2>4 DEF BlockRight, Explained
  <2>6. ~(1 > Len(fn.blocks[1]))
    BY <1>0, <2>2
  <2>7. AtHand' = NoRanges
    BY <2>1, <2>3 DEF AtHand
  <2> QED BY <2>1, <2>2, <2>5, <2>6, <2>7 DEF RangesRight
<1>4. CASE EndMerge
  <2>1. /\ pc = "merging" /\ turn = Len(preds) + 1 /\ turn' = 1 /\ pc' = "computing"
        /\ trusted' = [trusted EXCEPT ![next] = Entering]
        /\ UNCHANGED <<fn, in, out, next, printed>>
    BY <1>4 DEF EndMerge
  <2>2. /\ next # 1 /\ next \in Blocks(fn)
        /\ \A k \in DOMAIN preds : preds[k] \in Predecessors(fn, next)
    BY <2>1, ListedPredecessors
  <2>3. trusted'[next] = Entering /\ \A c \in Blocks(fn) : c < next => trusted'[c] = trusted[c]
    BY <1>0, <2>1, <2>2
  <2>4. \A n \in trusted'[next] :
           \E p \in Blocks(fn) : Predecessors(fn, next) = {p} /\ n \in Carried(fn, p, trusted[p], out[p])
    BY <2>2, <2>3 DEF Entering
  <2>5. \A n \in DOMAIN in[next] : \E p \in Predecessors(fn, next) : Incoming(fn, out, p, next, n, in[next][n])
    BY <2>1, <2>2 DEF EntriesLearnt
  <2>6. \A p \in Predecessors(fn, next) : BlockRight(fn, out, trusted, p, Len(fn.blocks[p]) + 1, out[p])
    <3> TAKE p \in Predecessors(fn, next)
    <3>1. p \in Blocks(fn) /\ p < next
      BY <1>0, PredecessorsBefore
    <3> QED BY <1>a, <2>1, <3>1
  <2>7. \A p : Predecessors(fn, next) = {p} => DOMAIN out[p] \subseteq DOMAIN in[next]
    <3> TAKE p
    <3> HAVE Predecessors(fn, next) = {p}
    <3>1. preds \in SetToSeqs({p})
      BY <2>1 DEF TypeOK
    <3>2. Cardinality({p}) = 1
      BY FS_Singleton
    <3>3. preds \in [1..1 -> {p}]
      BY <3>1, <3>2 DEF SetToSeqs
    <3>4. preds[1] = p /\ 1 \in DOMAIN preds /\ Len(preds) = 1
      <4>1. DOMAIN preds = 1..1 /\ preds[1] = p
        BY <3>3
      <4>2. preds \in Seq({p})
        BY <3>3, SeqDef
      <4>3. Len(preds) = 1
        BY <4>1, <4>2
      <4> QED BY <4>1, <4>3
    <3>5. 1 < turn
      BY <2>1, <3>4
    <3> QED BY <2>1, <3>4, <3>5 DEF EntriesMerged
  <2>8. BlockRight(fn, out, trusted', next, 1, in[next])
    <3> DEFINE names2 == trusted'
               m == in[next]
               b == next
    <3> HIDE DEF names2, m, b
    <3>1. b \in Blocks(fn) /\ b # 1 /\ (\A c \in Blocks(fn) : c < b => names2[c] = trusted[c])
          /\ (\A n \in names2[b] : \E p \in Blocks(fn) : Predecessors(fn, b) = {p} /\ n \in Carried(fn, p, trusted[p], out[p]))
          /\ (\A n \in DOMAIN m : \E p \in Predecessors(fn, b) : Incoming(fn, out, p, b, n, m[n]))
          /\ (\A p \in Predecessors(fn, b) : BlockRight(fn, out, trusted, p, Len(fn.blocks[p]) + 1, out[p]))
          /\ (\A p : Predecessors(fn, b) = {p} => DOMAIN out[p] \subseteq DOMAIN m)
      BY <2>2, <2>3, <2>4, <2>5, <2>6, <2>7 DEF names2, m, b
    <3>2. \A c \in Blocks(fn) : IsMap(out[c])
      BY <1>0
    <3>3. BlockRight(fn, out, names2, b, 1, m)
      BY <1>0, <3>1, <3>2, EntryRight
    <3> QED BY <3>3 DEF names2, m, b
  <2>9. ASSUME NEW b \in Blocks(fn), b < next
        PROVE  BlockRight(fn, out, trusted', b, Len(fn.blocks[b]) + 1, out[b])
    <3> DEFINE names2 == trusted'
               i == Len(fn.blocks[b]) + 1
               m == out[b]
    <3>0. \A c \in Blocks(fn) : c < b => c < next
      BY <1>0, <2>9
    <3>1. i \in Nat \ {0} /\ BlockRight(fn, out, trusted, b, i, m) /\ names2[b] = trusted[b]
          /\ \A c \in Blocks(fn) : c < b => out[c] = out[c] /\ names2[c] = trusted[c]
      BY <1>0, <1>a, <2>1, <2>3, <2>9, <3>0
    <3> HIDE DEF names2, i, m
    <3>2. BlockRight(fn, out, names2, b, i, m)
      BY <1>0, <3>1, BlockStays
    <3> QED BY <3>2 DEF names2, i, m
  <2>10. AtHand' = in[next] /\ ~(1 > Len(fn.blocks[next]))
    BY <1>0, <2>1, <2>2 DEF AtHand
  <2> QED BY <1>a, <2>1, <2>8, <2>9, <2>10 DEF RangesRight
<1>5. CASE ComputeInstr
  <2> DEFINE b == next
             i == turn
             m == AtHand
             instr == fn.blocks[b][i]
  <2>1. /\ pc = "computing" /\ i \in DOMAIN fn.blocks[b] /\ ~ReturnCrashes(instr) /\ ~DividesByZero(instr)
        /\ trusted' = [trusted EXCEPT ![b] = IF Reliable(instr, trusted[b], m)
                                             THEN trusted[b] \cup {instr.to} ELSE trusted[b]]
        /\ turn' = i + 1 /\ UNCHANGED <<fn, back_edge, next, pc>>
    BY <1>5 DEF ComputeInstr, answer
  <2>2. PICK g \in Leftovers \X Leftovers :
          /\ Set(After(instr, m, out, g))
          /\ IF IsReturn(instr) THEN \E line \in Lines(b, instr, m, g) : printed' = Append(printed, line)
             ELSE UNCHANGED printed
    BY <1>5 DEF ComputeInstr
  <2> DEFINE new == After(instr, m, out, g)
             names2 == trusted'
             ranges2 == out'
  <2>3. b \in Blocks(fn) /\ i \in Nat \ {0} /\ i <= Len(fn.blocks[b])
    <3>1. b \in Blocks(fn)
      BY <2>1 DEF TypeOK, Visiting
    <3> QED BY <2>1, <3>1, FunctionFacts, <1>0
  <2>4. /\ IsMap(m) /\ AtHand' = new
        /\ \A c \in Blocks(fn) : c < b => ranges2[c] = out[c] /\ names2[c] = trusted[c]
    <3>1. IsMap(m)
      BY <1>0, <2>3 DEF AtHand
    <3>2. AtHand' = new /\ \A c \in Blocks(fn) : c < b => ranges2[c] = out[c]
      <4> HIDE DEF new
      <4>1. Set(new)
        BY <2>2 DEF new
      <4>2. CASE b = 1
        <5>1. \A c \in Blocks(fn) : ~(c < 1)
          BY <1>0
        <5>2. out'[1] = new
          BY <1>0, <2>3, <4>1, <4>2 DEF Set
        <5> QED BY <2>1, <4>2, <5>1, <5>2 DEF AtHand
      <4>3. CASE b # 1
        <5>1. in'[b] = new /\ out' = out
          BY <1>0, <2>3, <4>1, <4>3 DEF Set
        <5> QED BY <2>1, <4>3, <5>1 DEF AtHand
      <4> QED BY <4>2, <4>3
    <3>3. \A c \in Blocks(fn) : c < b => names2[c] = trusted[c]
      BY <1>0, <2>1
    <3> QED BY <3>1, <3>2, <3>3
  <2>5. /\ trusted[b] \subseteq names2[b]
        /\ \A n \in names2[b] : \/ n \in trusted[b]
                               \/ /\ n = instr.to
                                  /\ ReliableOp(instr, trusted, b, m) \/ ReliablePhi(instr, trusted)
    <3> HIDE DEF instr, m
    <3>1. Reliable(instr, trusted[b], m) <=> ReliableOp(instr, trusted, b, m) \/ ReliablePhi(instr, trusted)
      BY ReliableKinds
    <3>2. names2[b] = IF Reliable(instr, trusted[b], m) THEN trusted[b] \cup {instr.to} ELSE trusted[b]
      BY <1>0, <2>1, <2>3
    <3> HIDE DEF names2
    <3> QED BY <3>1, <3>2
  <2>6. BlockRight(fn, out, trusted, b, i, m)
    BY <2>1 DEF RangesRight
  <2>7. BlockRight(fn, ranges2, names2, b, i + 1, new)
    <3> HIDE DEF ranges2, names2, b, i, m
    <3>1. \A c \in Blocks(fn) : IsMap(out[c])
      BY <1>0
    <3>2. \A p \in Blocks(fn) : p < b => BlockRight(fn, out, trusted, p, Len(fn.blocks[p]) + 1, out[p])
      BY <1>a, <2>1 DEF b
    <3> QED BY <1>0, <2>1, <2>3, <2>4, <2>5, <2>6, <3>1, <3>2, AfterRight
  <2>8. \A j \in DOMAIN printed : j \in DOMAIN printed' /\ printed'[j] = printed[j]
    <3>1. printed \in Seq(Range(printed))
      BY DEF TypeOK
    <3>2. (\E line : printed' = Append(printed, line)) \/ printed' = printed
      BY <2>2
    <3>3. ASSUME NEW line, printed' = Append(printed, line)
          PROVE  \A j \in DOMAIN printed : j \in DOMAIN printed' /\ printed'[j] = printed[j]
      BY <3>1, <3>3
    <3> QED BY <3>2, <3>3
  <2>9. ASSUME NEW c \in Blocks(fn), c < next
        PROVE  /\ BlockRight(fn, out', trusted', c, Len(fn.blocks[c]) + 1, out'[c])
               /\ HasLine(fn, printed', c, out'[c])
    <3> DEFINE k == Len(fn.blocks[c]) + 1
               was == out[c]
               lines2 == printed'
    <3>0. \A d \in Blocks(fn) : d < c => d < b
      BY <1>0, <2>9
    <3>1. /\ k \in Nat \ {0} /\ BlockRight(fn, out, trusted, c, k, was) /\ names2[c] = trusted[c] /\ ranges2[c] = was
          /\ HasLine(fn, printed, c, was)
          /\ \A d \in Blocks(fn) : d < c => ranges2[d] = out[d] /\ names2[d] = trusted[d]
      BY <1>0, <1>a, <2>1, <2>4, <2>9, <3>0
    <3>2. \A j \in DOMAIN printed : j \in DOMAIN lines2 /\ lines2[j] = printed[j]
      BY <2>8
    <3> HIDE DEF names2, ranges2, k, was, lines2
    <3>3. BlockRight(fn, ranges2, names2, c, k, was)
      BY <1>0, <3>1, BlockStays
    <3>4. HasLine(fn, lines2, c, was)
      BY <3>1, <3>2, LineStays
    <3> QED BY <3>1, <3>3, <3>4 DEF names2, ranges2, k, was, lines2
  <2>10. i + 1 > Len(fn.blocks[b]) => HasLine(fn, printed', b, new)
    <3> SUFFICES ASSUME i + 1 > Len(fn.blocks[b]), IsReturn(Terminator(fn, b))
                 PROVE  \E j \in DOMAIN printed' : printed'[j] = RangeLine(fn, b, new)
      BY DEF HasLine
    <3>1. i = Len(fn.blocks[b])
      BY <1>0, <2>3
    <3>2. instr = Terminator(fn, b)
      BY <2>3, <3>1, FunctionFacts, <1>0
    <3>3. IsReturn(instr) /\ instr.op \notin BinaryOp \cup {"phi"}
      BY <3>2 DEF IsReturn, BinaryOp, Arithmetic, Division, Bitwise, Shift
    <3>4. new = m
      BY <3>3 DEF After
    <3>5. back_edge = {}
      BY <2>1, NoBackEdge
    <3>6. PICK line \in Lines(b, instr, m, g) : printed' = Append(printed, line)
      BY <2>2, <3>3
    <3>7. line = RangeLine(fn, b, new)
      <4> HIDE DEF new, m, b
      <4> QED BY <3>2, <3>4, <3>5, <3>6 DEF Lines, RangeLine
    <3>8. printed \in Seq(Range(printed))
      BY DEF TypeOK
    <3> DEFINE at == Len(printed) + 1
    <3>9. at \in DOMAIN printed' /\ printed'[at] = line
      BY <3>6, <3>8
    <3> HIDE DEF new, at
    <3> QED BY <3>7, <3>9
  <2> HIDE DEF new, m, instr
  <2> QED BY <2>1, <2>4, <2>7, <2>9, <2>10 DEF RangesRight
<1>6. CASE EndBlock
  <2> DEFINE m == AtHand
             b == next
             ranges2 == out'
  <2>1. /\ pc = "computing" /\ turn = Len(fn.blocks[b]) + 1 /\ out' = [out EXCEPT ![b] = m]
        /\ next' = b + 1 /\ pc' = "blocks" /\ UNCHANGED <<fn, printed, trusted>>
    BY <1>6 DEF EndBlock
  <2>2. b \in Blocks(fn)
    BY <2>1 DEF TypeOK, Visiting
  <2>3. ranges2[b] = m /\ \A c \in Blocks(fn) : c < b => ranges2[c] = out[c]
    <3> HIDE DEF m
    <3> QED BY <1>0, <2>1, <2>2
  <2>4. turn > Len(fn.blocks[b]) /\ turn \in Nat \ {0}
    BY <1>0, <2>1, <2>2
  <2>5. BlockRight(fn, out, trusted, b, turn, m) /\ HasLine(fn, printed, b, m)
    BY <2>1, <2>4 DEF RangesRight
  <2>6. ASSUME NEW c \in Blocks(fn), c < b + 1
        PROVE  BlockRight(fn, ranges2, trusted, c, Len(fn.blocks[c]) + 1, ranges2[c]) /\ HasLine(fn, printed, c, ranges2[c])
    <3> DEFINE k == Len(fn.blocks[c]) + 1
               was == ranges2[c]
    <3>1. /\ k \in Nat \ {0} /\ BlockRight(fn, out, trusted, c, k, was)
          /\ HasLine(fn, printed, c, was)
          /\ \A d \in Blocks(fn) : d < c => ranges2[d] = out[d] /\ trusted[d] = trusted[d]
      <4>1. c < b \/ c = b
        BY <1>0, <2>6
      <4>2. CASE c < b
        <5>1. \A d \in Blocks(fn) : d < c => d < b
          BY <1>0, <4>2
        <5>2. k \in Nat \ {0} /\ was = out[c]
          BY <1>0, <2>3, <4>2
        <5>3. BlockRight(fn, out, trusted, c, k, out[c]) /\ HasLine(fn, printed, c, out[c])
          BY <1>a, <2>1, <4>2
        <5> HIDE DEF k, ranges2
        <5> QED BY <2>3, <5>1, <5>2, <5>3
      <4>3. CASE c = b
        <5> HIDE DEF m, ranges2
        <5> QED BY <1>0, <2>1, <2>3, <2>5, <4>3
      <4> QED BY <4>1, <4>2, <4>3
    <3> HIDE DEF ranges2, k, was
    <3>2. BlockRight(fn, ranges2, trusted, c, k, was)
      BY <1>0, <3>1, BlockStays
    <3> QED BY <3>1, <3>2 DEF k, was
  <2> HIDE DEF m
  <2> QED BY <2>1, <2>6 DEF RangesRight
<1>7. CASE UNCHANGED vars
  <2>1. CASE pc = "start"
    BY <1>7, <2>1 DEF vars, RangesRight
  <2> QED BY <1>1, <1>7, <2>1 DEF vars
<1>8. CASE TakeBlock \/ LearnFrom \/ EndLearn \/ MergeFrom \/ End
  BY <1>1, <1>8 DEF TakeBlock, LearnFrom, EndLearn, MergeFrom, End
<1>9. CASE Crash \/ Call \/ Trap \/ Return
  BY <1>1, <1>9 DEF Crash, Call, Trap, Return, pass
<1>10. CASE ExecutePhi \/ ExecuteBinaryOp \/ ExecuteOther \/ ExecuteGoto \/ ExecuteBranch \/ Stopped
  BY <1>1, <1>10 DEF ExecutePhi, ExecuteBinaryOp, ExecuteOther, ExecuteGoto, ExecuteBranch, Stopped, Assign, GoTo,
                     vars, pass
<1> QED BY <1>2, <1>3, <1>4, <1>5, <1>6, <1>7, <1>8, <1>9, <1>10 DEF Next

-----------------------------------------------------------------------------
(* The answers for loops.                                                  *)

\* What processLoop reads does not change.
LEMMA ReadsStay ==
  ASSUME UNCHANGED <<fn, order, loop_list>>
  PROVE  /\ Reads' = Reads
         /\ \A r : At(r)' = At(r)
         /\ \A r : BranchesBefore(r)' = BranchesBefore(r)
<1>1. Reads' = Reads
  BY DEF Reads
<1>2. \A r : At(r)' = At(r)
  BY DEF At
<1>3. \A r : BranchesBefore(r)' = BranchesBefore(r)
  BY <1>1, <1>2 DEF BranchesBefore
<1> QED BY <1>1, <1>2, <1>3

LEMMA AnswerSame ==
  ASSUME UNCHANGED <<fn, order, loop_list>>
  PROVE  \A leftover, g : processLoop(leftover, g)' = processLoop(leftover, g)
<1>1. Reads' = Reads /\ \A r : At(r)' = At(r) /\ BranchesBefore(r)' = BranchesBefore(r)
  BY ReadsStay
<1>2. \A r : Bound(r)' = Bound(r)
  BY <1>1 DEF Bound
<1>3. \A r, leftover : Symbol(r, leftover)' = Symbol(r, leftover)
  BY <1>1 DEF Symbol
<1>4. \A r, leftover : Answers(r, leftover)' = Answers(r, leftover)
  BY <1>1, <1>2, <1>3 DEF Answers
<1> QED BY <1>1, <1>4 DEF processLoop

\* A line stays an answer.
LEMMA LoopLineStays ==
  ASSUME UNCHANGED <<fn, order, loop_list>>
  PROVE  \A line : LoopLine(line)' <=> LoopLine(line)
<1>1. \A leftover, g : processLoop(leftover, g)' = processLoop(leftover, g)
  BY AnswerSame
<1>2. Blocks(fn)' = Blocks(fn)
  OBVIOUS
<1> QED BY <1>1, <1>2 DEF LoopLine

LEMMA PrintedStep == TypeOK /\ LoopPrinted /\ [Next]_vars => LoopPrinted'
<1> SUFFICES ASSUME TypeOK, LoopPrinted, [Next]_vars PROVE LoopPrinted'
  OBVIOUS
<1>0. /\ fn \in Function /\ next \in 1..(Len(fn.blocks) + 1) /\ next \in Int
      /\ Blocks(fn) = 1..Len(fn.blocks) /\ Blocks(fn) \subseteq Int
      /\ \A b \in Blocks(fn) : Len(fn.blocks[b]) \in Nat \ {0}
  BY FunctionFacts DEF TypeOK
<1>1. CASE FindLoops
  <2>1. next' = 1 /\ printed' = <<>> /\ pc' = "blocks" /\ UNCHANGED fn
    BY <1>1 DEF FindLoops, TypeOK
  <2>2. \A b \in Blocks(fn) : ~(b < 1)
    BY <1>0
  <2>3. Range(printed)' = {}
    BY <2>1 DEF Range
  <2> QED BY <2>1, <2>2, <2>3 DEF LoopPrinted
<1>2. CASE UNCHANGED vars /\ pc = "start"
  BY <1>2, LoopLineStays DEF vars, answer, LoopPrinted
<1>3. CASE pc # "start"
  <2>1. UNCHANGED <<fn, order, back_edge, loop_list>>
    BY <1>3, AnswerStays
  <2> SUFFICES ASSUME back_edge # {}
               PROVE  /\ \A line \in Range(printed)' : LoopLine(line)'
                      /\ \A b \in Blocks(fn) :
                           /\ b < next' \/ (b = next' /\ pc' = "computing" /\ turn' > Len(fn.blocks[b]))
                           /\ IsReturn(Terminator(fn, b))
                           => printed' # <<>>
    BY <2>1 DEF LoopPrinted
  <2>2. /\ \A line \in Range(printed) : LoopLine(line)
        /\ \A b \in Blocks(fn) :
             /\ b < next \/ (b = next /\ pc = "computing" /\ turn > Len(fn.blocks[b]))
             /\ IsReturn(Terminator(fn, b))
             => printed # <<>>
    BY DEF LoopPrinted
  <2>3. \A line : LoopLine(line)' <=> LoopLine(line)
    BY <2>1, LoopLineStays
  <2>4. CASE ComputeInstr
    <3> DEFINE instr == fn.blocks[next][turn]
    <3>1. pc = "computing" /\ turn \in DOMAIN fn.blocks[next] /\ turn' = turn + 1 /\ UNCHANGED <<next, pc>>
      BY <2>4 DEF ComputeInstr
    <3>2. PICK g \in Leftovers \X Leftovers :
            IF IsReturn(instr) THEN \E line \in Lines(next, instr, AtHand, g) : printed' = Append(printed, line)
            ELSE UNCHANGED printed
      BY <2>4 DEF ComputeInstr
    <3>3. next \in Blocks(fn)
      BY <3>1 DEF TypeOK, Visiting
    <3>4. turn \in 1..Len(fn.blocks[next])
      BY <1>0, <3>1, <3>3, FunctionFacts
    <3>5. printed \in Seq(Range(printed))
      BY DEF TypeOK
    <3>6. CASE IsReturn(instr)
      <4>1. PICK line \in Lines(next, instr, AtHand, g) : printed' = Append(printed, line)
        BY <3>2, <3>6
      <4>2. LoopLine(line)
        <5>1. PICK leftover \in Signs \cup {"none"} :
                line = Line(next, processLoop(leftover, g)[1], processLoop(leftover, g)[2], FALSE, FALSE)
          BY <4>1 DEF Lines
        <5> QED BY <3>3, <5>1 DEF LoopLine
      <4>3. printed' # <<>>
        BY <3>5, <4>1
      <4>4. Range(printed)' \subseteq Range(printed) \cup {line}
        <5>1. DOMAIN printed' = 1..(Len(printed) + 1) /\ DOMAIN printed = 1..Len(printed) /\ Len(printed) \in Nat
          BY <3>5, <4>1
        <5>2. \A j \in 1..Len(printed) : printed'[j] = printed[j]
          BY <3>5, <4>1
        <5>3. printed'[Len(printed) + 1] = line
          BY <3>5, <4>1
        <5>4. \A j \in DOMAIN printed' : printed'[j] \in Range(printed) \cup {line}
          BY <5>1, <5>2, <5>3 DEF Range
        <5> QED BY <5>4 DEF Range
      <4>5. \A l \in Range(printed)' : LoopLine(l)
        BY <2>2, <4>2, <4>4
      <4>6. \A l \in Range(printed)' : LoopLine(l)'
        BY <2>3, <4>5
      <4> QED BY <4>3, <4>6
    <3>7. CASE ~IsReturn(instr)
      <4>1. printed' = printed
        BY <3>2, <3>7
      <4>2. \A line \in Range(printed)' : LoopLine(line)'
        BY <2>2, <2>3, <4>1
      <4>3. ASSUME NEW b \in Blocks(fn), IsReturn(Terminator(fn, b)),
                   b < next \/ (b = next /\ turn + 1 > Len(fn.blocks[b]))
            PROVE  printed # <<>>
        <5>1. CASE b < next
          BY <2>2, <4>3, <5>1
        <5>2. CASE b = next /\ turn + 1 > Len(fn.blocks[b])
          <6>1. turn = Len(fn.blocks[b])
            BY <1>0, <3>4, <5>2
          <6>2. instr = Terminator(fn, b)
            BY <1>0, <5>2, <6>1, FunctionFacts
          <6> QED BY <3>7, <4>3, <6>2
        <5> QED BY <4>3, <5>1, <5>2
      <4> QED BY <3>1, <4>1, <4>2, <4>3
    <3> QED BY <3>6, <3>7
  <2>5. CASE EndBlock
    <3>1. /\ pc = "computing" /\ turn = Len(fn.blocks[next]) + 1 /\ next' = next + 1 /\ pc' = "blocks"
          /\ UNCHANGED printed
      BY <2>5 DEF EndBlock
    <3>2. next \in Blocks(fn)
      BY <3>1 DEF TypeOK, Visiting
    <3>3. turn > Len(fn.blocks[next])
      BY <1>0, <3>1, <3>2
    <3>4. \A b \in Blocks(fn) : b < next + 1 => b < next \/ b = next
      BY <1>0
    <3> QED BY <2>2, <2>3, <3>1, <3>3, <3>4
  <2>6. CASE UNCHANGED <<printed, next>> /\ (pc' = "computing" => pc = "computing" /\ turn' = turn)
    BY <2>2, <2>3, <2>6
  <2>7. CASE TakeFirst \/ EndMerge
    <3>1. UNCHANGED <<printed, next>> /\ turn' = 1 /\ next \in Blocks(fn)
      <4>1. CASE TakeFirst
        BY <4>1, <1>0, FunctionFacts DEF TakeFirst, TypeOK
      <4>2. CASE EndMerge
        BY <4>2 DEF EndMerge, TypeOK, Visiting
      <4> QED BY <2>7, <4>1, <4>2
    <3>2. ~(turn' > Len(fn.blocks[next]))
      BY <1>0, <3>1
    <3> QED BY <2>2, <2>3, <3>1, <3>2
  <2>8. CASE UNCHANGED vars
    BY <2>6, <2>8 DEF vars
  <2>9. CASE TakeBlock \/ LearnFrom \/ EndLearn \/ MergeFrom \/ Crash \/ End
    BY <2>6, <2>9 DEF TakeBlock, LearnFrom, EndLearn, MergeFrom, Crash, End
  <2>10. CASE Call \/ Trap \/ Return
    BY <2>6, <2>10 DEF Call, Trap, Return, pass
  <2>11. CASE ExecutePhi \/ ExecuteBinaryOp \/ ExecuteOther \/ ExecuteGoto \/ ExecuteBranch \/ Stopped
    BY <2>6, <2>11 DEF ExecutePhi, ExecuteBinaryOp, ExecuteOther, ExecuteGoto, ExecuteBranch, Stopped, Assign, GoTo,
                       vars, pass
  <2>12. ~FindLoops
    BY <1>3 DEF FindLoops
  <2> QED BY <2>4, <2>5, <2>7, <2>8, <2>9, <2>10, <2>11, <2>12 DEF Next
<1> QED BY <1>1, <1>2, <1>3, FirstStep

-----------------------------------------------------------------------------
(* Executions.                                                             *)

\* When the pass is done it is right about every block.
LEMMA AllRight ==
  ASSUME TypeOK, RangesRight, Forward(fn), pc \in {"done"} \cup Executing
  PROVE  \A b \in Blocks(fn) : /\ BlockRight(fn, out, trusted, b, Len(fn.blocks[b]) + 1, out[b])
                               /\ HasLine(fn, printed, b, out[b])
<1>1. next = Len(fn.blocks) + 1 /\ pc # "start" /\ fn \in Function
  BY DEF TypeOK, Executing
<1>2. \A b \in Blocks(fn) : b < next
  BY <1>1, FunctionFacts
<1> QED BY <1>1, <1>2 DEF RangesRight

\* A name is assigned by one instruction.
LEMMA AssignedOnce ==
  ASSUME NEW f \in Function, NEW b \in Blocks(f), NEW i \in DOMAIN f.blocks[b], NEW n,
         Assigns(f, b, i, n)
  PROVE  /\ ~Known(f, n, b, i) /\ ~Known(f, n, b, 1) /\ n \notin ToSet(f.params) /\ n \in Names(f)
         /\ \A j \in DOMAIN f.blocks[b] : Assigns(f, b, j, n) => j = i
<1>1. /\ Blocks(f) \subseteq Int /\ \A a \in Blocks(f) : DOMAIN f.blocks[a] \subseteq Int
      /\ DOMAIN f.blocks[b] = 1..Len(f.blocks[b])
  BY FunctionFacts
<1>2. ASSUME NEW j \in DOMAIN f.blocks[b], Assigns(f, b, j, n) PROVE ~Known(f, n, b, j)
  BY <1>2, KnownAfter
<1>3. ASSUME NEW j \in DOMAIN f.blocks[b], NEW k \in DOMAIN f.blocks[b], Assigns(f, b, k, n), k < j
      PROVE  Known(f, n, b, j)
  BY <1>3 DEF Known
<1>4. \A j \in DOMAIN f.blocks[b] : Assigns(f, b, j, n) => j = i
  BY <1>1, <1>2, <1>3
<1>5. ~Known(f, n, b, 1)
  <2> DEFINE z == 1
  <2>1. b \in Int /\ z \in Int /\ i \in Int /\ z <= i
    BY <1>1
  <2> HIDE DEF z
  <2>2. Known(f, n, b, z) => Known(f, n, b, i)
    BY <1>1, <2>1, KnownLater
  <2> QED BY <1>2, <2>2 DEF z
<1>6. n \in Names(f)
  <2>1. f.blocks[b][i].to = n /\ f.blocks[b][i] \in ToSet(f.blocks[b])
    BY DEF Assigns, ToSet
  <2>2. n \in {k.to : k \in ToSet(f.blocks[b])}
    BY <2>1
  <2> QED BY <2>2 DEF Names
<1>7. n \notin ToSet(f.params)
  BY <1>2 DEF Known
<1> QED BY <1>2, <1>4, <1>5, <1>6, <1>7

\* What can be relied on of a name that an instruction assigns comes from it.
LEMMA AssignedBy ==
  ASSUME NEW f \in Function, NEW b \in Blocks(f), NEW i \in DOMAIN f.blocks[b], NEW n, Assigns(f, b, i, n),
         NEW ranges, NEW names, NEW k, NEW m, Explained(f, ranges, names, b, k, n, m)
  PROVE  /\ n \in DOMAIN m
         /\ ComputingOp(f, names, b, i, m) \/ ComputingPhi(f, ranges, names, b, i, m)
<1>1. /\ ~Known(f, n, b, 1) /\ n \notin ToSet(f.params)
      /\ \A j \in DOMAIN f.blocks[b] : Assigns(f, b, j, n) => j = i
  BY AssignedOnce
<1>2. PICK j \in DOMAIN f.blocks[b] :
        /\ Assigns(f, b, j, n) /\ n \in DOMAIN m
        /\ ComputingOp(f, names, b, j, m) \/ ComputingPhi(f, ranges, names, b, j, m)
  BY <1>1 DEF Explained
<1>3. j = i
  BY <1>1, <1>2
<1> QED BY <1>2, <1>3

\* The value of an operand that is usable lies between the ends of its range.
LEMMA OperandInRange ==
  ASSUME NEW f \in Function, NEW ranges, NEW names, NEW s, NEW b, NEW i, InRanges(f, ranges, names, s, b, i),
         IsMap(ranges[b]), NEW o \in Operand, Usable(o, names[b], ranges[b]), IsConst(o) \/ Known(f, o.name, b, i)
  PROVE  ValueOf(o, s) \in RangeOf(o, ranges[b])[1]..RangeOf(o, ranges[b])[2]
<1>1. CASE IsConst(o)
  <2>1. o.const \in Integer /\ Integer \subseteq Int
    BY <1>1, OperandKinds, Ranging
  <2>2. ValueOf(o, s) = o.const /\ RangeOf(o, ranges[b]) = <<o.const, o.const>>
    BY <1>1 DEF ValueOf, RangeOf, Single
  <2> DEFINE c == o.const
             r == RangeOf(o, ranges[b])
  <2>3. c \in Int /\ ValueOf(o, s) = c /\ r = <<c, c>>
    BY <2>1, <2>2
  <2> HIDE DEF c, r
  <2>4. r[1] = c /\ r[2] = c
    BY <2>3
  <2> QED BY <2>3, <2>4 DEF r
<1>2. CASE ~IsConst(o)
  <2> DEFINE r == tryGetRange(o, ranges[b])
  <2>1. o = [name |-> o.name]
    BY <1>2, OperandKinds
  <2>2. o.name \in names[b] /\ Len(r) = 2
    BY <1>2 DEF Usable
  <2>3. Within(s[o.name], r)
    BY <1>2, <2>1, <2>2 DEF InRanges
  <2> HIDE DEF r
  <2>4. s[o.name] \in r[1]..r[2]
    BY <2>2, <2>3 DEF Within
  <2> QED BY <1>2, <2>4 DEF ValueOf, RangeOf, r
<1> QED BY <1>1, <1>2

\* An assignment with a right value leaves all values in their ranges.
LEMMA AssignRight ==
  ASSUME NEW f \in Function, NEW b \in Blocks(f), NEW i \in DOMAIN f.blocks[b], NEW n, Assigns(f, b, i, n),
         NEW ranges, NEW names, NEW s, DOMAIN s = Names(f), InRanges(f, ranges, names, s, b, i),
         NEW s2, NEW v, s2 = [s EXCEPT ![n] = v],
         n \in names[b] => Within(v, tryGetRange([name |-> n], ranges[b]))
  PROVE  /\ DOMAIN s2 = Names(f) /\ InRanges(f, ranges, names, s2, b, i + 1)
         /\ \A c : \A k \in Int : /\ InRanges(f, ranges, names, s, c, k) /\ c \in Int /\ c < b
                                  /\ \A y \in names[c] : Known(f, y, c, k)
                                  => InRanges(f, ranges, names, s2, c, k)
<1>1. n \in Names(f) /\ ~Known(f, n, b, i)
  BY AssignedOnce
<1>2. DOMAIN s2 = Names(f) /\ \A y : y # n => s2[y] = s[y]
  <2>1. \A y : y # n => s2[y] = s[y]
    OBVIOUS
  <2> QED BY <2>1
<1>3. s2[n] = v
  BY <1>1
<1>4. ASSUME NEW y \in names[b], Known(f, y, b, i + 1)
      PROVE  Within(s2[y], tryGetRange([name |-> y], ranges[b]))
  <2>1. Known(f, y, b, i) \/ Assigns(f, b, i, y)
    BY <1>4, KnownAfter
  <2>2. CASE Assigns(f, b, i, y)
    <3>1. y = n
      BY <2>2 DEF Assigns
    <3> QED BY <1>3, <1>4, <3>1
  <2>3. CASE Known(f, y, b, i)
    <3>1. y # n /\ Within(s[y], tryGetRange([name |-> y], ranges[b]))
      BY <1>1, <1>4, <2>3 DEF InRanges
    <3> QED BY <1>2, <3>1
  <2> QED BY <2>1, <2>2, <2>3
<1>5. ASSUME NEW c \in Int, NEW k \in Int, InRanges(f, ranges, names, s, c, k), c < b,
             \A y \in names[c] : Known(f, y, c, k)
      PROVE  InRanges(f, ranges, names, s2, c, k)
  <2>1. /\ Blocks(f) \subseteq Int /\ \A a \in Blocks(f) : DOMAIN f.blocks[a] \subseteq Int
        /\ b \in Int /\ i \in Int
    BY FunctionFacts
  <2>2. ASSUME NEW y \in names[c]
        PROVE  Within(s2[y], tryGetRange([name |-> y], ranges[c]))
    <3>1. Known(f, y, b, i)
      BY <1>5, <2>1, KnownLater
    <3>2. y # n /\ Within(s[y], tryGetRange([name |-> y], ranges[c]))
      BY <1>1, <1>5, <3>1 DEF InRanges
    <3> QED BY <1>2, <3>2
  <2> QED BY <2>2 DEF InRanges
<1>6. InRanges(f, ranges, names, s2, b, i + 1)
  BY <1>4 DEF InRanges
<1> QED BY <1>2, <1>5, <1>6

\* What a binary operator computes lies in its range.
LEMMA OperatorRight ==
  ASSUME NEW f \in Function, NEW b \in Blocks(f), NEW i \in DOMAIN f.blocks[b], NEW ranges, NEW names,
         IsMap(ranges[b]), NEW s, InRanges(f, ranges, names, s, b, i),
         NEW instr, instr = f.blocks[b][i], instr.op \in BinaryOp,
         instr.op \in Division => ValueOf(instr.args[2], s) # 0,
         NEW k, Explained(f, ranges, names, b, k, instr.to, ranges[b])
  PROVE  Within(Meaning(instr.op, ValueOf(instr.args[1], s), ValueOf(instr.args[2], s)),
                tryGetRange([name |-> instr.to], ranges[b]))
<1>1. BinaryInstr(instr) /\ ~Closes(instr) /\ instr.op # "phi"
  BY OperandFacts
<1>2. Assigns(f, b, i, instr.to)
  BY <1>1 DEF Assigns
<1>3. instr.to \in DOMAIN ranges[b] /\ ComputingOp(f, names, b, i, ranges[b])
  <2> DEFINE n == instr.to
             m == ranges[b]
  <2>1. Assigns(f, b, i, n) /\ Explained(f, ranges, names, b, k, n, m)
    BY <1>2
  <2> HIDE DEF n, m
  <2>2. n \in DOMAIN m /\ (ComputingOp(f, names, b, i, m) \/ ComputingPhi(f, ranges, names, b, i, m))
    BY <2>1, AssignedBy
  <2>3. ~ComputingPhi(f, ranges, names, b, i, m)
    BY <1>1 DEF ComputingPhi
  <2> QED BY <2>2, <2>3 DEF n, m
<1> DEFINE m == ranges[b]
           v == ValueOf(instr.args[1], s)
           w == ValueOf(instr.args[2], s)
<1>4. /\ \A x \in 1..2 : /\ Usable(instr.args[x], names[b], m)
                         /\ IsConst(instr.args[x]) \/ Known(f, instr.args[x].name, b, i)
      /\ Computes(instr, m)
  BY <1>3 DEF ComputingOp
<1>5. PICK g \in Leftovers \X Leftovers : m[instr.to] = Computed(instr, m, g)
  BY <1>3 DEF ComputingOp
<1>6. instr.args[1] \in Operand /\ instr.args[2] \in Operand
  BY <1>1 DEF BinaryInstr
<1>7. v \in RangeOf(instr.args[1], m)[1]..RangeOf(instr.args[1], m)[2]
  <2> DEFINE o == instr.args[1]
  <2>1. o \in Operand /\ Usable(o, names[b], ranges[b]) /\ (IsConst(o) \/ Known(f, o.name, b, i))
    BY <1>4, <1>6
  <2> HIDE DEF o
  <2>2. ValueOf(o, s) \in RangeOf(o, ranges[b])[1]..RangeOf(o, ranges[b])[2]
    BY <2>1, OperandInRange
  <2> QED BY <2>2 DEF o
<1>8. w \in RangeOf(instr.args[2], m)[1]..RangeOf(instr.args[2], m)[2]
  <2> DEFINE o == instr.args[2]
  <2>1. o \in Operand /\ Usable(o, names[b], ranges[b]) /\ (IsConst(o) \/ Known(f, o.name, b, i))
    BY <1>4, <1>6
  <2> HIDE DEF o
  <2>2. ValueOf(o, s) \in RangeOf(o, ranges[b])[1]..RangeOf(o, ranges[b])[2]
    BY <2>1, OperandInRange
  <2> QED BY <2>2 DEF o
<1>9. instr.args[1] = instr.args[2] => v = w
  OBVIOUS
<1>10. tryGetRange([name |-> instr.to], m) = m[instr.to]
  BY <1>3, OperandKinds DEF tryGetRange
<1>11. instr.op \in Division => w # 0
  OBVIOUS
<1>12. IsMap(m)
  OBVIOUS
<1> HIDE DEF m, v, w
<1>13. Within(Meaning(instr.op, v, w), Computed(instr, m, g))
  BY <1>1, <1>4, <1>7, <1>8, <1>9, <1>11, <1>12, ComputesRight
<1> QED BY <1>5, <1>10, <1>13 DEF m, v, w

\* The operand that a phi node takes lies in its range.
LEMMA PhiRight ==
  ASSUME NEW f \in Function, Forward(f), NEW b \in Blocks(f), NEW i \in DOMAIN f.blocks[b], NEW ranges, NEW names,
         \A p \in Blocks(f) : p < b => BlockRight(f, ranges, names, p, Len(f.blocks[p]) + 1, ranges[p]),
         NEW s, NEW instr, instr = f.blocks[b][i], instr.op = "phi", NEW x \in DOMAIN instr.args,
         InRanges(f, ranges, names, s, instr.at[x], Len(f.blocks[instr.at[x]]) + 1),
         NEW k, Explained(f, ranges, names, b, k, instr.to, ranges[b])
  PROVE  Within(ValueOf(instr.args[x], s), tryGetRange([name |-> instr.to], ranges[b]))
<1>1. /\ ~Closes(instr) /\ instr.op \notin BinaryOp
      /\ instr.args \in Seq(Operand) /\ instr.args # <<>>
      /\ \A j \in DOMAIN instr.args : instr.at[j] \in Predecessors(f, b)
  BY OperandFacts
<1>2. Assigns(f, b, i, instr.to)
  BY <1>1 DEF Assigns
<1>3. instr.to \in DOMAIN ranges[b] /\ ComputingPhi(f, ranges, names, b, i, ranges[b])
  <2> DEFINE n == instr.to
             m == ranges[b]
  <2>1. Assigns(f, b, i, n) /\ Explained(f, ranges, names, b, k, n, m)
    BY <1>2
  <2> HIDE DEF n, m
  <2>2. n \in DOMAIN m /\ (ComputingOp(f, names, b, i, m) \/ ComputingPhi(f, ranges, names, b, i, m))
    BY <2>1, AssignedBy
  <2>3. ~ComputingOp(f, names, b, i, m)
    BY <1>1 DEF ComputingOp
  <2> QED BY <2>2, <2>3 DEF n, m
<1>4. /\ \A j \in DOMAIN instr.args :
           IF IsConst(instr.args[j]) THEN instr.args[j].const \in Bounded
           ELSE instr.args[j].name \in names[instr.at[j]]
      /\ ranges[b][instr.to] = Joined(instr, ranges)
  BY <1>3 DEF ComputingPhi
<1>5. tryGetRange([name |-> instr.to], ranges[b]) = Joined(instr, ranges)
  BY <1>3, <1>4, OperandKinds DEF tryGetRange
<1>6. ASSUME NEW j \in DOMAIN instr.args, ~IsConst(instr.args[j])
      PROVE  /\ instr.args[j] = [name |-> instr.args[j].name] /\ instr.args[j].name \in names[instr.at[j]]
             /\ BlockRight(f, ranges, names, instr.at[j], Len(f.blocks[instr.at[j]]) + 1, ranges[instr.at[j]])
             /\ instr.at[j] \in Blocks(f)
  <2>1. instr.args[j] \in Operand /\ instr.at[j] \in Predecessors(f, b)
    BY <1>1
  <2>2. instr.at[j] \in Blocks(f) /\ instr.at[j] < b
    <3> DEFINE p == instr.at[j]
    <3>1. p \in Predecessors(f, b)
      BY <2>1
    <3> HIDE DEF p
    <3>2. p \in Blocks(f) /\ p < b
      BY <3>1, PredecessorsBefore
    <3> QED BY <3>2 DEF p
  <2>3. instr.args[j] = [name |-> instr.args[j].name]
    BY <1>6, <2>1, OperandKinds
  <2> QED BY <1>4, <1>6, <2>2, <2>3
<1>7. ASSUME NEW j \in DOMAIN instr.args
      PROVE  IF IsConst(instr.args[j]) THEN instr.args[j].const \in Bounded
             ELSE tryGetRange(instr.args[j], ranges[instr.at[j]]) \in RangesOf(Bounded)
  <2>1. CASE IsConst(instr.args[j])
    BY <1>4, <2>1
  <2>2. CASE ~IsConst(instr.args[j])
    <3> DEFINE p == instr.at[j]
               n == instr.args[j].name
    <3>1. instr.args[j] = [name |-> n] /\ n \in names[p]
      BY <1>6, <2>2
    <3>2. BlockRight(f, ranges, names, p, Len(f.blocks[p]) + 1, ranges[p])
      BY <1>6, <2>2
    <3> HIDE DEF p, n
    <3>3. tryGetRange([name |-> n], ranges[p]) \in RangesOf(Bounded)
      BY <3>1, <3>2 DEF BlockRight
    <3> QED BY <2>2, <3>1, <3>3 DEF p
  <2> QED BY <2>1, <2>2
<1> DEFINE v == ValueOf(instr.args[x], s)
<1>8. IF IsConst(instr.args[x]) THEN v = instr.args[x].const
      ELSE Within(v, tryGetRange(instr.args[x], ranges[instr.at[x]]))
  <2>1. CASE IsConst(instr.args[x])
    BY <2>1 DEF ValueOf
  <2>2. CASE ~IsConst(instr.args[x])
    <3> DEFINE p == instr.at[x]
               n == instr.args[x].name
               end == Len(f.blocks[p]) + 1
    <3>1. instr.args[x] = [name |-> n] /\ n \in names[p] /\ p \in Blocks(f)
      BY <1>6, <2>2
    <3>2. BlockRight(f, ranges, names, p, end, ranges[p]) /\ InRanges(f, ranges, names, s, p, end)
      BY <1>6, <2>2
    <3>3. end \in Nat \ {0}
      BY SMTT(30), <3>1, FunctionFacts
    <3>4. v = s[n]
      BY <2>2 DEF ValueOf
    <3> HIDE DEF p, n, end, v
    <3>5. Explained(f, ranges, names, p, end, n, ranges[p])
      BY <3>1, <3>2 DEF BlockRight
    <3>6. Known(f, n, p, end)
      BY <3>1, <3>3, <3>5, ExplainedKnown
    <3>7. Within(s[n], tryGetRange([name |-> n], ranges[p]))
      BY <3>1, <3>2, <3>6 DEF InRanges
    <3> QED BY <2>2, <3>1, <3>4, <3>7 DEF p
  <2> QED BY <2>1, <2>2
<1>9. Within(v, Joined(instr, ranges))
  <2> DEFINE A == -Inf
             B == Inf
  <2>1. Bounded = A..B /\ A \in Int /\ B \in Int
    BY Ranging DEF Bounded
  <2> HIDE DEF A, B, v
  <2>2. \A j \in DOMAIN instr.args : \A u :
          (IF IsConst(instr.args[j]) THEN u = instr.args[j].const
           ELSE Within(u, tryGetRange(instr.args[j], ranges[instr.at[j]])))
            => Within(u, Joined(instr, ranges))
    BY <1>1, <1>7, <2>1, JoinedRight
  <2> QED BY <1>8, <2>2
<1> QED BY <1>5, <1>9

\* A branch that is followed has refined the range of its operand as it should.
LEMMA BranchRight ==
  ASSUME NEW f \in Function, Forward(f), NEW p \in Blocks(f), IsBranch(Terminator(f, p)),
         NEW ranges, NEW names, IsMap(ranges[p]),
         BlockRight(f, ranges, names, p, Len(f.blocks[p]) + 1, ranges[p]),
         NEW s, InRanges(f, ranges, names, s, p, Len(f.blocks[p])),
         NEW e \in 1..2,
         e = (IF Compares(Terminator(f, p).test, ValueOf(Terminator(f, p).args[1], s), ValueOf(Terminator(f, p).args[2], s))
              THEN 1 ELSE 2),
         NEW n, n \in Carried(f, p, names[p], ranges[p]),
         NEW r, FromBranch(f, ranges, p, Terminator(f, p).at[e], n, r)
  PROVE  Within(s[n], r)
<1> DEFINE br == Terminator(f, p)
           m == ranges[p]
           last == Len(f.blocks[p])
           v == ValueOf(br.args[1], s)
           w == ValueOf(br.args[2], s)
<1>1. PICK i, d \in 1..2 : br.args[i] = [name |-> n] /\ br.at[d] = br.at[e] /\ r = Learnt(f, p, i, m)[d]
  BY DEF FromBranch
<1>2. br.test # "none" /\ r # <<>>
  BY DEF FromBranch
<1>3. /\ n \in names[p] /\ br.test \notin Unsigns /\ br.at[1] # br.at[2]
      /\ \A x \in 1..2 : Usable(br.args[x], names[p], m)
  BY <1>1 DEF Carried
<1>4. d = e
  BY <1>1, <1>3
<1>5. /\ br.test \in Tests
      /\ \A x \in 1..2 : br.args[x] \in Operand
      /\ \A x \in 1..2 : IsConst(br.args[x]) \/ Known(f, br.args[x].name, p, last)
  <2> HIDE DEF last
  <2> QED BY <1>2, BranchFacts DEF last
<1>6. ASSUME NEW x \in 1..2
      PROVE  /\ ValueOf(br.args[x], s) \in RangeOf(br.args[x], m)[1]..RangeOf(br.args[x], m)[2]
             /\ RangeOf(br.args[x], m) \in RangesOf(Integer)
             /\ ~IsConst(br.args[x]) => /\ tryGetRange(br.args[x], m) \in RangesOf(Bounded)
                                        /\ RangeOf(br.args[x], m) = tryGetRange(br.args[x], m)
  <2> DEFINE o == br.args[x]
  <2>1. o \in Operand /\ Usable(o, names[p], ranges[p]) /\ (IsConst(o) \/ Known(f, o.name, p, last))
    BY <1>3, <1>5
  <2>2. IsMap(ranges[p]) /\ InRanges(f, ranges, names, s, p, last)
    OBVIOUS
  <2> HIDE DEF o, last, m
  <2>3. ValueOf(o, s) \in RangeOf(o, ranges[p])[1]..RangeOf(o, ranges[p])[2]
    BY <2>1, <2>2, OperandInRange
  <2>4. RangeOf(o, m) \in RangesOf(Integer)
    BY <2>1, <2>2, RangeFound DEF m
  <2>5. ASSUME ~IsConst(o)
        PROVE  tryGetRange(o, m) \in RangesOf(Bounded) /\ RangeOf(o, m) = tryGetRange(o, m)
    <3>1. o = [name |-> o.name] /\ o.name \in names[p]
      BY <2>1, <2>5, OperandKinds DEF Usable
    <3>2. tryGetRange([name |-> o.name], ranges[p]) \in RangesOf(Bounded)
      BY <3>1 DEF BlockRight
    <3> QED BY <2>5, <3>1, <3>2 DEF RangeOf, m
  <2> QED BY <2>3, <2>4, <2>5 DEF o, m
<1>7. br.args[i] \in Operand /\ ~IsConst(br.args[i]) /\ ValueOf(br.args[i], s) = s[n]
  BY <1>1, <1>5, OperandKinds DEF ValueOf
<1>8. Compares(br.test, v, w) <=> e = 1
  OBVIOUS
<1>9. v \in Int /\ w \in Int
  <2> DEFINE r1 == RangeOf(br.args[1], m)
             r2 == RangeOf(br.args[2], m)
  <2>1. v \in r1[1]..r1[2] /\ w \in r2[1]..r2[2] /\ r1 \in RangesOf(Integer) /\ r2 \in RangesOf(Integer)
    BY <1>6
  <2> HIDE DEF r1, r2, v, w
  <2>2. r1[1] \in Int /\ r1[2] \in Int /\ r2[1] \in Int /\ r2[2] \in Int
    BY <2>1, RangeNumbers, Ranging
  <2> QED BY <2>1, <2>2
<1> DEFINE test == IF i = 1 THEN br.test ELSE Turned(br.test)
           x == br.args[i]
           y == br.args[3 - i]
           a == ValueOf(x, s)
           c == ValueOf(y, s)
<1>10. test \in Tests \ Unsigns /\ (Compares(test, a, c) <=> e = 1)
  <2>1. CASE i = 1
    BY <1>3, <1>5, <1>8, <2>1
  <2>2. CASE i = 2
    <3>1. a = w /\ c = v /\ test = Turned(br.test)
      BY <2>2
    <3> HIDE DEF a, c, v, w, test
    <3>2. Turned(br.test) \in Tests \ Unsigns /\ (Compares(Turned(br.test), w, v) <=> Compares(br.test, v, w))
      BY <1>3, <1>5, <1>9, TurnedRight
    <3> QED BY <1>8, <3>1, <3>2
  <2> QED BY <2>1, <2>2
<1>11. /\ x \in Operand /\ y \in Operand /\ tryGetRange(x, m) \in RangesOf(Bounded)
       /\ RangeOf(y, m) \in RangesOf(Integer)
       /\ a \in tryGetRange(x, m)[1]..tryGetRange(x, m)[2]
       /\ c \in RangeOf(y, m)[1]..RangeOf(y, m)[2]
       /\ IsConst(y) => c = y.const
  <2>1. 3 - i \in 1..2
    OBVIOUS
  <2>2. x \in Operand /\ y \in Operand
    BY <1>5, <2>1
  <2>3. RangeOf(y, m) \in RangesOf(Integer) /\ c \in RangeOf(y, m)[1]..RangeOf(y, m)[2]
    <3> DEFINE j == 3 - i
    <3>1. j \in 1..2
      BY <2>1
    <3> HIDE DEF j
    <3>2. RangeOf(br.args[j], m) \in RangesOf(Integer)
          /\ ValueOf(br.args[j], s) \in RangeOf(br.args[j], m)[1]..RangeOf(br.args[j], m)[2]
      BY <1>6, <3>1
    <3> QED BY <3>2 DEF j
  <2>4. IsConst(y) => c = y.const
    BY DEF ValueOf
  <2> QED BY <1>6, <1>7, <2>2, <2>3, <2>4
<1>12. r = Refined(test, x, y, m)[e]
  BY <1>1, <1>4 DEF Learnt
<1>13. a = s[n]
  BY <1>7
<1> HIDE DEF test, x, y, a, c, m
<1>14. Within(a, Refined(test, x, y, m)[e])
  BY <1>2, <1>10, <1>11, <1>12, RefinedHolds
<1> QED BY <1>12, <1>13, <1>14

\* The values with which a block is left are right where the next one begins.
LEMMA GoRight ==
  ASSUME NEW f \in Function, Forward(f), NEW p \in Blocks(f), NEW c, c \in Successors(f, p),
         NEW ranges, NEW names, IsMap(ranges[p]),
         BlockRight(f, ranges, names, p, Len(f.blocks[p]) + 1, ranges[p]),
         BlockRight(f, ranges, names, c, Len(f.blocks[c]) + 1, ranges[c]),
         NEW s, InRanges(f, ranges, names, s, p, Len(f.blocks[p])),
         IsBranch(Terminator(f, p)) =>
           c = Terminator(f, p).at[IF Compares(Terminator(f, p).test, ValueOf(Terminator(f, p).args[1], s),
                                               ValueOf(Terminator(f, p).args[2], s)) THEN 1 ELSE 2]
  PROVE  /\ c \in Blocks(f) /\ c # 1 /\ p \in Predecessors(f, c)
         /\ InRanges(f, ranges, names, s, c, 1)
         /\ InRanges(f, ranges, names, s, p, Len(f.blocks[p]) + 1)
<1>1. c \in Blocks(f) /\ c # 1 /\ p \in Predecessors(f, c)
  BY FunctionFacts DEF Predecessors
<1>2. Len(f.blocks[p]) \in DOMAIN f.blocks[p] /\ Closes(f.blocks[p][Len(f.blocks[p])]) /\ Len(f.blocks[p]) \in Nat \ {0}
  BY FunctionFacts
<1>3. ASSUME NEW n \in names[p]
      PROVE  Within(s[n], tryGetRange([name |-> n], ranges[p]))
  <2> DEFINE last == Len(f.blocks[p])
             end == last + 1
  <2>1. last \in DOMAIN f.blocks[p] /\ end \in Nat \ {0} /\ Closes(f.blocks[p][last])
    BY <1>2
  <2>2. BlockRight(f, ranges, names, p, end, ranges[p]) /\ InRanges(f, ranges, names, s, p, last)
    OBVIOUS
  <2> HIDE DEF end
  <2>3. Explained(f, ranges, names, p, end, n, ranges[p])
    BY <2>2 DEF BlockRight
  <2>4. Known(f, n, p, end)
    BY <2>1, <2>3, ExplainedKnown
  <2> HIDE DEF last
  <2>5. Known(f, n, p, last) \/ Assigns(f, p, last, n)
    BY <2>1, <2>4, KnownAfter DEF end
  <2>6. ~Assigns(f, p, last, n)
    BY <2>1 DEF Assigns
  <2> QED BY <2>2, <2>5, <2>6 DEF InRanges
<1>4. ASSUME NEW n \in names[c], Known(f, n, c, 1)
      PROVE  Within(s[n], tryGetRange([name |-> n], ranges[c]))
  <2> DEFINE end == Len(f.blocks[c]) + 1
             m == ranges[c]
             r == tryGetRange([name |-> n], m)
  <2>1. Explained(f, ranges, names, c, end, n, m)
    BY DEF BlockRight
  <2>2. ~ \E j \in DOMAIN f.blocks[c] : Assigns(f, c, j, n)
    BY <1>1, <1>4, AssignedOnce
  <2> HIDE DEF end, m, r
  <2>3. PICK q \in Blocks(f) :
          /\ Predecessors(f, c) = {q}
          /\ n \in Carried(f, q, names[q], ranges[q])
          /\ \/ tryGetRange([name |-> n], m) = tryGetRange([name |-> n], ranges[q])
             \/ FromBranch(f, ranges, q, c, n, tryGetRange([name |-> n], m))
    BY <1>1, <2>1, <2>2 DEF Explained
  <2>4. q = p
    BY <1>1, <2>3
  <2>5. n \in names[p]
    BY <2>3, <2>4 DEF Carried
  <2>6. CASE tryGetRange([name |-> n], m) = tryGetRange([name |-> n], ranges[p])
    BY <1>3, <2>5, <2>6 DEF m
  <2>7. CASE FromBranch(f, ranges, p, c, n, r)
    <3> DEFINE e == IF Compares(Terminator(f, p).test, ValueOf(Terminator(f, p).args[1], s),
                                ValueOf(Terminator(f, p).args[2], s)) THEN 1 ELSE 2
    <3>1. IsBranch(Terminator(f, p))
      BY <2>7 DEF FromBranch
    <3>2. e \in 1..2 /\ c = Terminator(f, p).at[e]
      BY <3>1
    <3>3. e = IF Compares(Terminator(f, p).test, ValueOf(Terminator(f, p).args[1], s),
                          ValueOf(Terminator(f, p).args[2], s)) THEN 1 ELSE 2
      OBVIOUS
    <3>4. FromBranch(f, ranges, p, Terminator(f, p).at[e], n, r)
      BY <2>7, <3>2
    <3> HIDE DEF e
    <3>5. Within(s[n], r)
      BY <2>3, <2>4, <3>1, <3>2, <3>3, <3>4, BranchRight
    <3> QED BY <3>5 DEF r, m
  <2> QED BY <2>3, <2>4, <2>6, <2>7 DEF r
<1> QED BY <1>1, <1>3, <1>4 DEF InRanges

\* A name that has its value when a function is called is a parameter.
LEMMA KnownFirst ==
  ASSUME NEW f \in Function, NEW n, Known(f, n, 1, 1)
  PROVE  n \in ToSet(f.params)
<1>1. Blocks(f) = 1..Len(f.blocks) /\ \A a \in Blocks(f) : DOMAIN f.blocks[a] = 1..Len(f.blocks[a])
  BY FunctionFacts
<1> QED BY <1>1 DEF Known

LEMMA ExecutionStep == TypeOK /\ LoopsFound /\ RangesRight /\ ExecutionRight /\ [Next]_vars => ExecutionRight'
<1> SUFFICES ASSUME TypeOK, LoopsFound, RangesRight, ExecutionRight, [Next]_vars PROVE ExecutionRight'
  OBVIOUS
<1>0. /\ fn \in Function /\ \A b \in Blocks(fn) : IsMap(out[b])
      /\ Blocks(fn) = 1..Len(fn.blocks) /\ Blocks(fn) \subseteq Int /\ 1 \in Blocks(fn)
      /\ \A b \in Blocks(fn) : /\ Len(fn.blocks[b]) \in Nat \ {0}
                               /\ DOMAIN fn.blocks[b] = 1..Len(fn.blocks[b])
  BY FunctionFacts DEF TypeOK
<1>1. CASE FindLoops \/ TakeFirst \/ TakeBlock \/ LearnFrom \/ EndLearn \/ MergeFrom \/ EndMerge \/ ComputeInstr
            \/ EndBlock \/ Crash \/ End
  <2>1. pc \notin Executing /\ pc' \notin Executing /\ UNCHANGED place
    BY <1>1 DEF FindLoops, TakeFirst, TakeBlock, LearnFrom, EndLearn, MergeFrom, EndMerge, ComputeInstr, EndBlock,
                Crash, End, Executing, execution
  <2> QED BY <2>1 DEF ExecutionRight, Executing
<1>2. CASE UNCHANGED vars
  BY <1>2 DEF vars, execution, ExecutionRight, InRanges, Executing
<1>3. CASE Call
  <2>1. /\ pc = "done" /\ Forward(fn) /\ pc' = "running" /\ UNCHANGED <<fn, out, trusted, place>>
    BY <1>3 DEF Call, pass
  <2>2. PICK arguments \in [ToSet(fn.params) -> -Inf..Inf] :
          store' = [n \in Names(fn) |-> IF n \in ToSet(fn.params) THEN arguments[n] ELSE Undefined]
    BY <1>3 DEF Call
  <2>3. place.block = 1 /\ place.i = 1 /\ place' = [block |-> 1, i |-> 1, from |-> 0]
    BY <2>1 DEF ExecutionRight, Executing
  <2>4. ASSUME NEW n \in trusted[1], Known(fn, n, 1, 1)
        PROVE  Within(store'[n], tryGetRange([name |-> n], out[1]))
    <3> DEFINE m == out[1]
               end == Len(fn.blocks[1]) + 1
    <3>1. BlockRight(fn, out, trusted, 1, end, m)
      BY <1>0, <2>1, AllRight
    <3>2. n \in ToSet(fn.params)
      BY <1>0, <2>4, KnownFirst
    <3>3. \A j \in DOMAIN fn.blocks[1] : ~Assigns(fn, 1, j, n)
      BY <1>0, <3>2, AssignedOnce
    <3> HIDE DEF m, end
    <3>4. n \notin DOMAIN m
      BY <3>1, <3>3 DEF BlockRight, Explained
    <3>5. tryGetRange([name |-> n], m) = <<-Inf, Inf>>
      BY <3>4, OperandKinds DEF tryGetRange, Full
    <3>6. n \in Names(fn) /\ store'[n] \in -Inf..Inf
      BY <2>2, <3>2 DEF Names
    <3>7. Within(store'[n], <<-Inf, Inf>>)
      BY <3>6 DEF Within
    <3> QED BY <3>5, <3>7 DEF m
  <2>5. DOMAIN store' = Names(fn)
    BY <2>2
  <2>6. InRanges(fn, out, trusted, store', 1, 1)
    BY <2>4 DEF InRanges
  <2> QED BY <1>0, <2>1, <2>3, <2>5, <2>6 DEF ExecutionRight, Executing
<1>4. CASE Trap \/ Return
  BY <1>4 DEF Trap, Return, pass, execution, ExecutionRight, Executing
<1>5. CASE Stopped
  BY <1>2, <1>5 DEF Stopped
<1>6. CASE ExecutePhi \/ ExecuteBinaryOp \/ ExecuteOther \/ ExecuteGoto \/ ExecuteBranch
  <2> DEFINE b == place.block
             i == place.i
             instr == fn.blocks[b][i]
             end == Len(fn.blocks[b]) + 1
  <2>1. pc = "running" /\ instr = Here
    BY <1>6 DEF ExecutePhi, ExecuteBinaryOp, ExecuteOther, ExecuteGoto, ExecuteBranch, Here
  <2>2. /\ Forward(fn) /\ b \in Blocks(fn) /\ i \in DOMAIN fn.blocks[b] /\ DOMAIN store = Names(fn)
        /\ place = [block |-> b, i |-> i, from |-> place.from]
        /\ b # 1 => place.from \in Predecessors(fn, b)
        /\ InRanges(fn, out, trusted, store, b, i)
        /\ b # 1 => InRanges(fn, out, trusted, store, place.from, Len(fn.blocks[place.from]) + 1)
    BY <2>1 DEF ExecutionRight, Executing
  <2>3. \A c \in Blocks(fn) : BlockRight(fn, out, trusted, c, Len(fn.blocks[c]) + 1, out[c])
    BY <2>1, <2>2, AllRight DEF Executing
  <2>4. ASSUME NEW n \in trusted[b]
        PROVE  Explained(fn, out, trusted, b, end, n, out[b])
    BY <2>2, <2>3 DEF BlockRight
  <2>5. Closes(instr) <=> i = Len(fn.blocks[b])
    BY <1>0, <2>2, InstructionFacts
  <2>6. ASSUME NEW v, Assign(v), ~Closes(instr),
               instr.to \in trusted[b] => Within(v, tryGetRange([name |-> instr.to], out[b]))
        PROVE  ExecutionRight'
    <3>1. /\ store' = [store EXCEPT ![instr.to] = v] /\ place' = [place EXCEPT !.i = @ + 1]
          /\ UNCHANGED <<fn, out, trusted, pc>>
      BY <2>1, <2>6 DEF Assign, pass
    <3>2. place' = [block |-> b, i |-> i + 1, from |-> place.from]
      <4>1. [place EXCEPT !.i = @ + 1] = [[block |-> b, i |-> i, from |-> place.from] EXCEPT !.i = i + 1]
        BY <2>2
      <4> HIDE DEF b, i
      <4> QED BY <3>1, <4>1
    <3>3. i + 1 \in DOMAIN fn.blocks[b]
      BY <1>0, <2>2, <2>5, <2>6
    <3> DEFINE n == instr.to
    <3>4. Assigns(fn, b, i, n)
      BY <2>2, <2>6 DEF Assigns
    <3>5. store' = [store EXCEPT ![n] = v] /\ (n \in trusted[b] => Within(v, tryGetRange([name |-> n], out[b])))
      BY <2>6, <3>1
    <3> HIDE DEF n, instr, b, i
    <3>6. /\ DOMAIN store' = Names(fn) /\ InRanges(fn, out, trusted, store', b, i + 1)
          /\ \A c : \A k \in Int : /\ InRanges(fn, out, trusted, store, c, k) /\ c \in Int /\ c < b
                                   /\ \A y \in trusted[c] : Known(fn, y, c, k)
                                   => InRanges(fn, out, trusted, store', c, k)
      BY <1>0, <2>2, <3>4, <3>5, AssignRight
    <3>7. ASSUME b # 1
          PROVE  InRanges(fn, out, trusted, store', place.from, Len(fn.blocks[place.from]) + 1)
      <4> DEFINE c == place.from
                 k == Len(fn.blocks[c]) + 1
      <4>1. c \in Predecessors(fn, b) /\ InRanges(fn, out, trusted, store, c, k)
        BY <2>2, <3>7
      <4> HIDE DEF c, k
      <4>2. c \in Blocks(fn) /\ c \in Int /\ c < b
        BY <1>0, <2>2, <4>1, PredecessorsBefore
      <4>3. k \in Nat \ {0} /\ BlockRight(fn, out, trusted, c, k, out[c])
        BY <1>0, <2>3, <4>2 DEF k
      <4>4. \A y \in trusted[c] : Known(fn, y, c, k)
        BY <1>0, <4>2, <4>3, ExplainedKnown DEF BlockRight
      <4>5. InRanges(fn, out, trusted, store', c, k)
        BY <3>6, <4>1, <4>2, <4>3, <4>4
      <4> QED BY <4>5 DEF c, k
    <3>8. place'.block = b /\ place'.i = i + 1 /\ place'.from = place.from
      BY <3>2
    <3> QED BY <2>1, <2>2, <3>1, <3>2, <3>3, <3>6, <3>7, <3>8 DEF ExecutionRight, Executing
  <2>7. ASSUME NEW c, GoTo(c), c \in Successors(fn, b), Closes(instr),
               IsBranch(Terminator(fn, b)) =>
                 c = Terminator(fn, b).at[IF Compares(Terminator(fn, b).test, ValueOf(Terminator(fn, b).args[1], store),
                                                      ValueOf(Terminator(fn, b).args[2], store)) THEN 1 ELSE 2]
        PROVE  ExecutionRight'
    <3>1. place' = [block |-> c, i |-> 1, from |-> b] /\ UNCHANGED <<fn, out, trusted, pc, store>>
      BY <2>7 DEF GoTo, pass
    <3>2. InRanges(fn, out, trusted, store, b, Len(fn.blocks[b]))
      BY <2>2, <2>5, <2>7
    <3>3. c \in Blocks(fn)
      BY <1>0, <2>2, <2>7, FunctionFacts
    <3> DEFINE last == Len(fn.blocks[c]) + 1
    <3>4. BlockRight(fn, out, trusted, c, last, out[c]) /\ BlockRight(fn, out, trusted, b, end, out[b]) /\ IsMap(out[b])
      BY <1>0, <2>2, <2>3, <3>3
    <3> HIDE DEF instr, i, b
    <3>5. /\ c \in Blocks(fn) /\ c # 1 /\ b \in Predecessors(fn, c)
          /\ InRanges(fn, out, trusted, store, c, 1)
          /\ InRanges(fn, out, trusted, store, b, end)
      BY <1>0, <2>2, <2>7, <3>2, <3>4, GoRight
    <3>6. place'.block = c /\ place'.i = 1 /\ place'.from = b
      BY <3>1
    <3>7. 1 \in DOMAIN fn.blocks[c]
      BY <1>0, <3>5
    <3> QED BY <2>1, <2>2, <3>1, <3>5, <3>6, <3>7 DEF ExecutionRight, Executing
  <2>8. CASE ExecutePhi
    <3>1. instr.op = "phi"
      BY <2>1, <2>8 DEF ExecutePhi
    <3>2. PICK x \in DOMAIN instr.args : instr.at[x] = place.from /\ Assign(ValueOf(instr.args[x], store))
      BY <2>1, <2>8 DEF ExecutePhi, Val
    <3>3. ~Closes(instr) /\ instr.at[x] \in Predecessors(fn, b)
      BY <1>0, <2>2, <3>1, OperandFacts
    <3>4. b # 1
      BY <1>0, <2>2, <3>3, PredecessorsBefore
    <3>5. InRanges(fn, out, trusted, store, instr.at[x], Len(fn.blocks[instr.at[x]]) + 1)
      BY <2>2, <3>2, <3>4
    <3>6. \A p \in Blocks(fn) : p < b => BlockRight(fn, out, trusted, p, Len(fn.blocks[p]) + 1, out[p])
      BY <2>3
    <3>7. ASSUME instr.to \in trusted[b]
          PROVE  Within(ValueOf(instr.args[x], store), tryGetRange([name |-> instr.to], out[b]))
      <4>1. Explained(fn, out, trusted, b, end, instr.to, out[b])
        BY <2>4, <3>7
      <4>2. instr = fn.blocks[b][i]
        OBVIOUS
      <4> HIDE DEF instr, b, i, end
      <4> QED BY <1>0, <2>2, <3>1, <3>5, <3>6, <4>1, <4>2, PhiRight
    <3> QED BY <2>6, <3>2, <3>3, <3>7
  <2>9. CASE ExecuteBinaryOp
    <3> DEFINE v == Meaning(instr.op, ValueOf(instr.args[1], store), ValueOf(instr.args[2], store))
    <3>1. instr.op \in BinaryOp /\ Assign(v) /\ (instr.op \in Division => ValueOf(instr.args[2], store) # 0)
      BY <2>1, <2>9 DEF ExecuteBinaryOp, Traps, Val
    <3>2. ~Closes(instr)
      BY <1>0, <2>2, <3>1, OperandFacts
    <3>3. ASSUME instr.to \in trusted[b]
          PROVE  Within(v, tryGetRange([name |-> instr.to], out[b]))
      <4>1. Explained(fn, out, trusted, b, end, instr.to, out[b])
        BY <2>4, <3>3
      <4>2. instr = fn.blocks[b][i] /\ IsMap(out[b])
        BY <1>0, <2>2
      <4> HIDE DEF instr, b, i, end
      <4> QED BY <1>0, <2>2, <3>1, <4>1, <4>2, OperatorRight
    <3> HIDE DEF v
    <3> QED BY <2>6, <3>1, <3>2, <3>3
  <2>10. CASE ExecuteOther
    <3>1. instr.op \notin BinaryOp \cup {"phi"} /\ ~Closes(instr)
      BY <2>1, <2>10 DEF ExecuteOther, Closes
    <3>2. PICK v \in Integer : Assign(v)
      BY <2>10 DEF ExecuteOther
    <3>3. instr.to \notin trusted[b]
      <4> SUFFICES ASSUME instr.to \in trusted[b] PROVE FALSE
        OBVIOUS
      <4> DEFINE n == instr.to
                 m == out[b]
      <4>1. Explained(fn, out, trusted, b, end, n, m)
        BY <2>4
      <4>2. Assigns(fn, b, i, n)
        BY <2>2, <3>1 DEF Assigns
      <4> HIDE DEF n, b, i, end, m
      <4>3. ComputingOp(fn, trusted, b, i, m) \/ ComputingPhi(fn, out, trusted, b, i, m)
        BY <1>0, <2>2, <4>1, <4>2, AssignedBy
      <4> QED BY <3>1, <4>3 DEF ComputingOp, ComputingPhi
    <3> QED BY <2>6, <3>1, <3>2, <3>3
  <2>11. CASE ExecuteGoto
    <3>1. instr.op = "goto" /\ GoTo(instr.at[1])
      BY <2>1, <2>11 DEF ExecuteGoto
    <3>2. Closes(instr)
      BY <3>1 DEF Closes
    <3>3. instr = Terminator(fn, b) /\ HasOperands(fn, b, instr) /\ instr \in Instruction
      BY <1>0, <2>2, <2>5, <3>2, FunctionFacts
    <3>4. Len(instr.at) = 1 /\ instr.at \in Seq(Nat)
      BY <3>1, <3>3 DEF HasOperands, Instruction
    <3>5. instr.at[1] \in ToSet(instr.at)
      BY <3>4 DEF ToSet
    <3>6. instr.at[1] \in Successors(fn, b) /\ ~IsBranch(Terminator(fn, b))
      BY <3>1, <3>3, <3>5 DEF Successors, IsBranch
    <3> QED BY <2>7, <3>1, <3>2, <3>6
  <2>12. CASE ExecuteBranch
    <3> DEFINE c == instr.at[IF Compares(instr.test, ValueOf(instr.args[1], store), ValueOf(instr.args[2], store))
                             THEN 1 ELSE 2]
    <3>1. IsBranch(instr) /\ GoTo(c)
      BY <2>1, <2>12 DEF ExecuteBranch, Val
    <3>2. Closes(instr)
      BY <3>1 DEF Closes, IsBranch
    <3>3. instr = Terminator(fn, b)
      BY <1>0, <2>2, <2>5, <3>2, FunctionFacts
    <3>4. instr.at[1] \in Successors(fn, b) /\ instr.at[2] \in Successors(fn, b)
      BY <1>0, <2>2, <3>1, <3>3, BranchFacts
    <3>5. c \in Successors(fn, b)
      BY <3>4
    <3> QED BY <2>7, <3>1, <3>2, <3>3, <3>5
  <2> QED BY <1>6, <2>8, <2>9, <2>10, <2>11, <2>12
<1> QED BY <1>1, <1>2, <1>3, <1>4, <1>5, <1>6 DEF Next

-----------------------------------------------------------------------------
(* The invariant and what follows from it.                                 *)

LEMMA RestInit == Init => RangesRight /\ ExecutionRight /\ LoopPrinted
<1> SUFFICES ASSUME Init PROVE RangesRight /\ ExecutionRight /\ LoopPrinted
  OBVIOUS
<1>1. pc = "start" /\ place = [block |-> 1, i |-> 1, from |-> 0] /\ back_edge = {}
  BY DEF Init
<1>2. place.block = 1 /\ place.i = 1 /\ place.from = 0
  BY <1>1
<1> QED BY <1>1, <1>2 DEF RangesRight, ExecutionRight, LoopPrinted, Executing

\* IInv is an inductive invariant: the invariant that the pass and the executions
\* keep at each step.
THEOREM Invariance == Spec => []IInv
<1>1. Init => IInv
  BY TypeInit, LoopsInit, EntriesInit, RestInit DEF IInv
<1>2. IInv /\ [Next]_vars => IInv'
  <2> SUFFICES ASSUME IInv, [Next]_vars PROVE IInv'
    OBVIOUS
  <2>1. TypeOK' /\ LoopsFound' /\ EntriesMerged' /\ LoopPrinted'
    BY TypeStep, LoopsStep, MergedStep, PrintedStep DEF IInv
  <2>2. fn' = fn
    BY DEF Next, FindLoops, TakeFirst, TakeBlock, LearnFrom, EndLearn, MergeFrom, EndMerge, ComputeInstr, EndBlock,
           Crash, End, Call, ExecutePhi, ExecuteBinaryOp, Trap, ExecuteOther, ExecuteGoto, ExecuteBranch, Return,
           Stopped, Assign, GoTo, pass, vars
  <2>3. Forward(fn) => EntriesLearnt'
    BY EntriesStep DEF IInv
  <2>4. ExecutionRight'
    BY ExecutionStep DEF IInv
  <2>5. RangesRight'
    <3>1. CASE Forward(fn)
      BY <3>1, RangesStep DEF IInv
    <3>2. CASE ~Forward(fn)
      BY <2>2, <3>2 DEF RangesRight
    <3> QED BY <3>1, <3>2
  <2>6. (Forward(fn) => EntriesLearnt)'
    BY <2>2, <2>3
  <2> QED BY <2>1, <2>4, <2>5, <2>6 DEF IInv
<1> QED BY <1>1, <1>2, PTL DEF Spec

LEMMA ImpliesSound == IInv => Sound
<1> SUFFICES ASSUME IInv, pc = "running", Closes(Here)
             PROVE  /\ \A n \in trusted[place.block] :
                         Within(store[n], tryGetRange([name |-> n], out[place.block]))
                    /\ IsReturn(Here) /\ Usable(Here.args[1], trusted[place.block], out[place.block]) =>
                         \E j \in DOMAIN printed : printed[j].block = place.block /\ InLine(Val(1), printed[j])
  BY DEF Sound
<1> DEFINE b == place.block
           i == place.i
           m == out[b]
           end == Len(fn.blocks[b]) + 1
<1>1. /\ fn \in Function /\ Forward(fn) /\ b \in Blocks(fn) /\ i \in DOMAIN fn.blocks[b]
      /\ InRanges(fn, out, trusted, store, b, i)
  BY DEF IInv, TypeOK, ExecutionRight, Executing
<1>2. BlockRight(fn, out, trusted, b, end, m) /\ HasLine(fn, printed, b, m)
  BY <1>1, AllRight DEF IInv, Executing
<1>3. i = Len(fn.blocks[b]) /\ Here = Terminator(fn, b) /\ end \in Nat \ {0} /\ end = i + 1
  BY <1>1, InstructionFacts, FunctionFacts DEF Here
<1>4. ASSUME NEW n \in trusted[b]
      PROVE  Within(store[n], tryGetRange([name |-> n], m))
  <2> HIDE DEF end
  <2>1. Known(fn, n, b, end)
    BY <1>1, <1>2, <1>3, ExplainedKnown DEF BlockRight
  <2>2. ~Assigns(fn, b, i, n)
    BY <1>3 DEF Assigns, Here
  <2> HIDE DEF b, i
  <2>3. Known(fn, n, b, i)
    BY <1>1, <1>3, <2>1, <2>2, KnownAfter
  <2> QED BY <1>1, <2>3 DEF InRanges, m
<1>5. ASSUME IsReturn(Here), Usable(Here.args[1], trusted[b], m)
      PROVE  \E j \in DOMAIN printed : printed[j].block = b /\ InLine(Val(1), printed[j])
  <2> DEFINE o == Here.args[1]
             r == tryGetRange(o, m)
             v == Val(1)
  <2>1. PICK j \in DOMAIN printed : printed[j] = RangeLine(fn, b, m)
    BY <1>2, <1>3, <1>5 DEF HasLine
  <2>2. printed[j] = [block |-> b, lo |-> r[1], hi |-> r[2], min |-> r[1] = -Inf, max |-> r[2] = Inf]
    BY <1>3, <2>1 DEF RangeLine, Line
  <2>3. CASE IsConst(o)
    <3>1. r = <<-Inf, Inf>>
      BY <2>3 DEF tryGetRange, Full
    <3> HIDE DEF r
    <3>2. r[1] = -Inf /\ r[2] = Inf
      BY <3>1
    <3> HIDE DEF b, v
    <3>3. /\ printed[j].block = b /\ printed[j].min = (r[1] = -Inf)
          /\ printed[j].max = (r[2] = Inf)
      BY <2>2
    <3>4. InLine(v, printed[j])
      BY <3>2, <3>3 DEF InLine
    <3> QED BY <3>3, <3>4 DEF v
  <2>4. CASE ~IsConst(o)
    <3>1. o.name \in trusted[b] /\ Len(r) = 2
      BY <1>5, <2>4 DEF Usable
    <3>2. r = tryGetRange([name |-> o.name], m)
      <4> HIDE DEF o
      <4> QED BY <2>4, OperandKinds DEF tryGetRange
    <3>3. v = store[o.name]
      BY <2>4 DEF Val, ValueOf
    <3>4. Within(v, r)
      BY <1>4, <3>1, <3>2, <3>3
    <3>5. r \in RangesOf(Bounded)
      <4> HIDE DEF r, m, o
      <4> QED BY <1>2, <3>1, <3>2 DEF BlockRight
    <3> HIDE DEF r, v, b
    <3>6. v \in r[1]..r[2] /\ r[1] \in Int /\ r[2] \in Int
      <4>1. r[1] \in Bounded /\ r[2] \in Bounded /\ Bounded \subseteq Int
        BY <3>5, RangeNumbers, Ranging
      <4>2. v \in r[1]..r[2]
        BY <3>1, <3>4 DEF Within
      <4> QED BY <4>1, <4>2
    <3>7. v <= r[2] /\ r[1] <= v
      BY <3>6
    <3> QED BY <2>2, <3>7 DEF InLine, v
  <2> QED BY <2>3, <2>4
<1> QED BY <1>4, <1>5

\* Whenever an execution of a function without loops gets to the end of a block, the
\* names that can be relied on have values of their ranges, and the value returned
\* lies in the range that is printed.
THEOREM RangesAreSound == Spec => []Sound
BY Invariance, ImpliesSound, PTL

-----------------------------------------------------------------------------
(* Counting loops.                                                         *)

\* Of the numbers from start on, each step further, the first that reaches bound, or
\* passes it, is less than a step further, or at most a step.
LEMMA FirstBeyond ==
  ASSUME NEW start \in Int, NEW bound \in Int, start <= bound, bound - start <= 2 * Greatest + 1,
         NEW step \in Int, step > 0, NEW passes \in BOOLEAN,
         NEW S, S = {k \in 0..(2 * Greatest + 2) : IF passes THEN start + k * step > bound ELSE start + k * step >= bound}
  PROVE  /\ Min(S) \in 0..(2 * Greatest + 2) /\ start + Min(S) * step \in Int
         /\ start + Min(S) * step >= bound
         /\ start + Min(S) * step <= IF passes THEN bound + step ELSE bound + step - 1
<1> DEFINE top == 2 * Greatest + 2
           p(k) == start + k * step
           z == 0
<1>1. Greatest \in Nat /\ top \in Nat /\ bound - start < top
  BY Ranging
<1>2. \A k \in Int : p(k) \in Int
  OBVIOUS
<1>3. S = {k \in 0..top : IF passes THEN p(k) > bound ELSE p(k) >= bound}
  OBVIOUS
<1>4. top \in S
  <2> HIDE DEF top
  <2> DEFINE q == top * step
  <2>1. q \in Int /\ q >= top
    BY <1>1, Z3
  <2> HIDE DEF q
  <2>2. start + q > bound
    BY <1>1, <2>1
  <2>3. p(top) > bound /\ p(top) \in Int /\ top \in 0..top
    BY <1>1, <2>1, <2>2 DEF q
  <2> HIDE DEF p
  <2> QED BY <1>3, <2>3
<1>5. Min(S) \in S /\ \A y \in S : Min(S) <= y
  <2> HIDE DEF p
  <2>1. S \subseteq z..top
    BY <1>3
  <2>2. z \in Int /\ top \in Int
    BY <1>1
  <2>3. S # {}
    BY <1>4
  <2> HIDE DEF z, top
  <2> QED BY <2>1, <2>2, <2>3, Extremes
<1> DEFINE m == Min(S)
<1> HIDE DEF top, m
<1>6. m \in 0..top /\ p(m) >= bound /\ (passes => p(m) > bound) /\ p(m) \in Int
  <2>1. m \in 0..top /\ IF passes THEN p(m) > bound ELSE p(m) >= bound
    BY <1>3, <1>5 DEF m
  <2>2. p(m) \in Int
    BY <1>1, <1>2, <2>1
  <2> HIDE DEF p
  <2> QED BY <2>1, <2>2
<1>7. p(m) <= IF passes THEN bound + step ELSE bound + step - 1
  <2>1. CASE m = 0
    <3>1. p(m) = start
      BY <2>1
    <3> HIDE DEF p
    <3> QED BY <1>6, <3>1
  <2>2. CASE m # 0
    <3> DEFINE j == m - 1
    <3>1. j \in 0..top /\ j < m /\ j \in Int
      BY <1>1, <1>6, <2>2
    <3>2. j \notin S
      <4>1. \A y \in S : m <= y
        BY <1>5 DEF m
      <4>2. m \in Int
        BY <1>6
      <4> HIDE DEF j, p
      <4> QED BY <3>1, <4>1, <4>2
    <3>3. p(m) = p(j) + step
      <4>1. m * step = j * step + step
        BY <1>6, Z3
      <4> DEFINE q == j * step
                 t == m * step
      <4>2. q \in Int /\ t \in Int /\ t = q + step
        BY <1>6, <3>1, <4>1
      <4> HIDE DEF q, t
      <4>3. start + t = (start + q) + step
        BY <4>2
      <4> QED BY <4>3 DEF q, t
    <3>4. p(j) \in Int
      BY <1>2, <3>1
    <3> HIDE DEF p, j
    <3>5. IF passes THEN p(j) <= bound ELSE p(j) < bound
      BY <1>3, <3>1, <3>2, <3>4
    <3> QED BY <3>3, <3>4, <3>5
  <2> QED BY <2>1, <2>2
<1> QED BY <1>6, <1>7 DEF m, top

\* A loop that counts up ends where Steps says.
LEMMA CountUp ==
  ASSUME NEW start \in Integer, NEW bound \in Integer, NEW step \in Int, step > 0, start <= bound,
         NEW test \in {"slt", "sle"},
         NEW S, S = {k \in 0..(2 * Greatest + 2) : ~Compares(test, start + k * step, bound)}
  PROVE  Min(S) \in Int /\ start + Min(S) * step \in Steps(test, "add", bound, step)[1]..Steps(test, "add", bound, step)[2]
<1> DEFINE passes == test = "sle"
           r == Steps(test, "add", bound, step)
           m == Min(S)
           v(k) == start + k * step
<1>1. start \in Int /\ bound \in Int /\ bound - start <= 2 * Greatest + 1 /\ passes \in BOOLEAN /\ Greatest \in Nat
  BY Ranging
<1>2. \A k \in Int : /\ start + k * step \in Int
                     /\ ~Compares(test, v(k), bound) <=>
                          IF passes THEN start + k * step > bound ELSE start + k * step >= bound
  <2> SUFFICES ASSUME NEW k \in Int
               PROVE  /\ start + k * step \in Int
                      /\ ~Compares(test, v(k), bound) <=>
                           IF passes THEN start + k * step > bound ELSE start + k * step >= bound
    OBVIOUS
  <2> DEFINE q == start + k * step
  <2>1. q \in Int /\ v(k) = q
    BY <1>1
  <2> HIDE DEF v
  <2> HIDE DEF q
  <2>2. Compares(test, q, bound) <=> IF passes THEN q <= bound ELSE q < bound
    BY <1>1, <2>1 DEF Compares, Unsigns
  <2>3. ~Compares(test, v(k), bound) <=> IF passes THEN q > bound ELSE q >= bound
    BY <1>1, <2>1, <2>2
  <2> QED BY <2>1, <2>3 DEF q
<1>3. S = {k \in 0..(2 * Greatest + 2) : IF passes THEN start + k * step > bound ELSE start + k * step >= bound}
  BY <1>1, <1>2
<1> HIDE DEF passes, m, v
<1>4. /\ m \in 0..(2 * Greatest + 2) /\ start + m * step \in Int
      /\ start + m * step >= bound
      /\ start + m * step <= IF passes THEN bound + step ELSE bound + step - 1
  BY <1>1, <1>3, FirstBeyond DEF m
<1> DEFINE e == start + m * step
<1>5. v(m) = e /\ e \in Int /\ e >= bound /\ e <= IF passes THEN bound + step ELSE bound + step - 1
  BY <1>1, <1>4 DEF v
<1>6. r[1] = bound /\ r[2] = IF passes THEN bound + step ELSE bound + step - 1
  BY DEF Steps, Less, LessEqual, Greater, GreaterEqual, passes
<1> HIDE DEF e, r
<1>7. e \in r[1]..r[2]
  BY <1>1, <1>5, <1>6
<1>8. m \in Int
  BY <1>1, <1>4
<1> QED BY <1>5, <1>7, <1>8 DEF m, r, v

\* A loop that counts down ends where Steps says.
LEMMA CountDown ==
  ASSUME NEW start \in Integer, NEW bound \in Integer, NEW step \in Int, step > 0, bound <= start,
         NEW test \in {"sgt", "sge"},
         NEW S, S = {k \in 0..(2 * Greatest + 2) : ~Compares(test, start - k * step, bound)}
  PROVE  Min(S) \in Int /\ start - Min(S) * step \in Steps(test, "sub", bound, step)[1]..Steps(test, "sub", bound, step)[2]
<1> DEFINE passes == test = "sge"
           r == Steps(test, "sub", bound, step)
           m == Min(S)
           v(k) == start - k * step
           from == -start
           to == -bound
<1>1. /\ start \in Int /\ bound \in Int /\ from \in Int /\ to \in Int /\ from <= to /\ to - from <= 2 * Greatest + 1
      /\ passes \in BOOLEAN /\ Greatest \in Nat
  BY Ranging
<1>2. \A k \in Int : /\ from + k * step \in Int /\ v(k) = -(from + k * step)
                     /\ ~Compares(test, v(k), bound) <=>
                          IF passes THEN from + k * step > to ELSE from + k * step >= to
  <2> SUFFICES ASSUME NEW k \in Int
               PROVE  /\ from + k * step \in Int /\ v(k) = -(from + k * step)
                      /\ ~Compares(test, v(k), bound) <=>
                           IF passes THEN from + k * step > to ELSE from + k * step >= to
    OBVIOUS
  <2> DEFINE q == k * step
             u == start - q
  <2>1. q \in Int /\ v(k) = u
    BY <1>1
  <2> HIDE DEF v
  <2> HIDE DEF q
  <2>2. u \in Int /\ u = -(from + q)
    BY <1>1, <2>1
  <2>3. (u < bound <=> from + q > to) /\ (u <= bound <=> from + q >= to)
    BY <1>1, <2>1
  <2> HIDE DEF u, from, to
  <2>4. Compares(test, u, bound) <=> IF passes THEN u >= bound ELSE u > bound
    BY <1>1, <2>2 DEF Compares, Unsigns
  <2>5. ~Compares(test, v(k), bound) <=> IF passes THEN u < bound ELSE u <= bound
    BY <1>1, <2>1, <2>2, <2>4
  <2>6. from + q \in Int
    BY <1>1, <2>1
  <2> QED BY <2>1, <2>2, <2>3, <2>5, <2>6 DEF q
<1> HIDE DEF from, to
<1>3. S = {k \in 0..(2 * Greatest + 2) : IF passes THEN from + k * step > to ELSE from + k * step >= to}
  BY <1>1, <1>2
<1> HIDE DEF passes, m, v
<1>4. /\ m \in 0..(2 * Greatest + 2) /\ from + m * step \in Int
      /\ from + m * step >= to
      /\ from + m * step <= IF passes THEN to + step ELSE to + step - 1
  BY <1>1, <1>3, FirstBeyond DEF m
<1> DEFINE e == from + m * step
<1>5. v(m) = -e /\ e \in Int /\ e >= to /\ e <= IF passes THEN to + step ELSE to + step - 1
  BY <1>1, <1>2, <1>4
<1>6. r[2] = bound /\ r[1] = IF passes THEN bound - step ELSE bound - step + 1
  BY DEF Steps, Less, LessEqual, Greater, GreaterEqual, passes
<1> HIDE DEF e, r
<1>7. -e <= bound /\ -e >= IF passes THEN bound - step ELSE bound - step + 1
  BY <1>1, <1>5 DEF to
<1>8. -e \in r[1]..r[2]
  BY <1>1, <1>5, <1>6, <1>7
<1>9. m \in Int
  BY <1>1, <1>4
<1> QED BY <1>5, <1>8, <1>9 DEF m, r, v

\* The instructions of a counting loop.
Counter == [name |-> "i"]
HasBlocksOf(l, f) ==
  /\ f.headers = {2} /\ Len(f.blocks) = 4 /\ Blocks(f) = 1..4
  /\ \A b \in 1..4 : DOMAIN f.blocks[b] = 1..(IF b \in {1, 4} THEN 1 ELSE 2)
  /\ f.blocks[1][1].op = "goto" /\ f.blocks[2][1].op = "phi" /\ f.blocks[2][2].op = "br"
  /\ f.blocks[3][1].op = l.op /\ f.blocks[3][2].op = "goto" /\ f.blocks[4][1].op = "ret"
  /\ f.blocks[2][2].at = <<3, 4>> /\ f.blocks[3][2].at = <<2>>
  /\ f.blocks[2][2].test = IF l.turned THEN Turned(l.test) ELSE l.test
  /\ f.blocks[2][2].args = IF l.turned THEN <<[const |-> l.bound], Counter>> ELSE <<Counter, [const |-> l.bound]>>
  /\ f.blocks[3][1].args = <<Counter, [const |-> l.step]>>

LEMMA WhileFacts == ASSUME NEW l PROVE HasBlocksOf(l, While(l))
<1> DEFINE f == While(l)
<1> SUFFICES HasBlocksOf(l, f)
  OBVIOUS
<1> DEFINE b1 == f.blocks[1]
           b2 == f.blocks[2]
           b3 == f.blocks[3]
           b4 == f.blocks[4]
<1>1. f.headers = {2} /\ Len(f.blocks) = 4 /\ DOMAIN f.blocks = 1..4
  <2>1. f.headers = {2} /\ f.blocks = <<b1, b2, b3, b4>>
    BY DEF While
  <2> HIDE DEF b1, b2, b3, b4
  <2> QED BY <2>1
<1>2. DOMAIN b1 = 1..1 /\ DOMAIN b2 = 1..2 /\ DOMAIN b3 = 1..2 /\ DOMAIN b4 = 1..1
  <2> DEFINE i1 == b1[1]
             i2 == b2[1]
             i3 == b2[2]
             i4 == b3[1]
             i5 == b3[2]
             i6 == b4[1]
  <2>1. b1 = <<i1>> /\ b2 = <<i2, i3>> /\ b3 = <<i4, i5>> /\ b4 = <<i6>>
    BY DEF While
  <2> HIDE DEF i1, i2, i3, i4, i5, i6, b1, b2, b3, b4
  <2> QED BY <2>1
<1>3. /\ f.blocks[1][1].op = "goto" /\ f.blocks[2][1].op = "phi" /\ f.blocks[2][2].op = "br"
      /\ f.blocks[3][1].op = l.op /\ f.blocks[3][2].op = "goto" /\ f.blocks[4][1].op = "ret"
  BY DEF While
<1>4. /\ f.blocks[2][2].at = <<3, 4>> /\ f.blocks[3][2].at = <<2>>
      /\ f.blocks[2][2].test = IF l.turned THEN Turned(l.test) ELSE l.test
  BY DEF While
<1>5. /\ f.blocks[2][2].args = IF l.turned THEN <<[const |-> l.bound], Counter>> ELSE <<Counter, [const |-> l.bound]>>
      /\ f.blocks[3][1].args = <<Counter, [const |-> l.step]>>
  BY DEF While, Counter
<1>6. \A b \in 1..4 : DOMAIN f.blocks[b] = 1..(IF b \in {1, 4} THEN 1 ELSE 2)
  <2>1. \A b \in 1..4 : b = 1 \/ b = 2 \/ b = 3 \/ b = 4
    OBVIOUS
  <2> HIDE DEF b1, b2, b3, b4
  <2> QED BY <1>2, <2>1 DEF b1, b2, b3, b4
<1> HIDE DEF f
<1> QED BY <1>1, <1>3, <1>4, <1>5, <1>6 DEF HasBlocksOf, Blocks

\* The only element of a set is the latest.
LEMMA LatestOnly == \A r : Latest({r}) = r
BY DEF Latest

\* What processLoop answers for a counting loop whose test is read before it counts.
LEMMA WhileAnswer ==
  ASSUME TypeOK, LoopsFound, pc # "start", NEW l, fn = While(l),
         NEW j \in DOMAIN order, NEW k \in DOMAIN order, j < k, order[j] = 2, order[k] = 3,
         <<l.op, l.test>> \in ({"add"} \X {"slt", "sle"}) \cup ({"sub"} \X {"sgt", "sge"}),
         NEW leftover, NEW g
  PROVE  processLoop(leftover, g) = Steps(l.test, l.op, l.bound, l.step)
<1>1. /\ fn.headers = {2} /\ Len(fn.blocks) = 4 /\ Blocks(fn) = 1..4
      /\ \A b \in 1..4 : DOMAIN fn.blocks[b] = 1..(IF b \in {1, 4} THEN 1 ELSE 2)
      /\ fn.blocks[1][1].op = "goto" /\ fn.blocks[2][1].op = "phi" /\ fn.blocks[2][2].op = "br"
      /\ fn.blocks[3][1].op = l.op /\ fn.blocks[3][2].op = "goto" /\ fn.blocks[4][1].op = "ret"
      /\ fn.blocks[2][2].test = IF l.turned THEN Turned(l.test) ELSE l.test
      /\ fn.blocks[2][2].args = IF l.turned THEN <<[const |-> l.bound], Counter>> ELSE <<Counter, [const |-> l.bound]>>
      /\ fn.blocks[3][1].args = <<Counter, [const |-> l.step]>>
  BY WhileFacts DEF HasBlocksOf
<1>2. /\ DOMAIN order = 1..4 /\ \A a \in 1..4 : order[a] \in 1..4
      /\ \A a \in 1..4 : (order[a] = 2 => a = j) /\ (order[a] = 3 => a = k)
  <2>1. order \in [1..4 -> 1..4] /\ IsInjective(order)
    BY <1>1 DEF LoopsFound
  <2>2. \A a, b \in DOMAIN order : order[a] = order[b] => a = b
    BY <2>1 DEF IsInjective
  <2> QED BY <2>1, <2>2
<1>3. 2 \in loop_list /\ 3 \in loop_list
  BY <1>1 DEF LoopsFound
<1> DEFINE test == <<j, 2>>
           count == <<k, 1>>
<1>4. At(test) = fn.blocks[2][2] /\ At(count) = fn.blocks[3][1]
  BY DEF At
<1>5. test \in Reads /\ count \in Reads
  BY <1>1, <1>2, <1>3 DEF Reads
<1>6. ASSUME NEW r \in Reads
      PROVE  /\ At(r) = fn.blocks[order[r[1]]][r[2]] /\ r = <<r[1], r[2]>>
             /\ r[1] \in 1..4 /\ order[r[1]] \in 1..4 /\ r[2] \in 1..(IF order[r[1]] \in {1, 4} THEN 1 ELSE 2)
  <2>1. PICK a \in DOMAIN order : r \in {<<a, i>> : i \in DOMAIN fn.blocks[order[a]]}
    BY <1>6 DEF Reads
  <2>2. PICK i \in DOMAIN fn.blocks[order[a]] : r = <<a, i>>
    BY <2>1
  <2> QED BY <1>1, <1>2, <2>1, <2>2 DEF At
<1>7. ASSUME NEW r \in Reads, IsBranch(At(r))
      PROVE  r = test
  <2>1. order[r[1]] = 2 /\ r[2] = 2
    BY <1>1, <1>6, <1>7 DEF IsBranch
  <2> QED BY <1>2, <1>6, <2>1
<1>8. ASSUME NEW r \in Reads, At(r).op \in BinaryOp
      PROVE  r = count
  <2>1. order[r[1]] = 3 /\ r[2] = 1
    BY <1>1, <1>6, <1>8 DEF BinaryOp, Arithmetic, Division, Bitwise, Shift
  <2> QED BY <1>2, <1>6, <2>1
<1>9. BranchesBefore(count) = {test}
  <2>1. Earlier(test, count) /\ IsBranch(At(test))
    BY <1>1, <1>4 DEF Earlier, IsBranch
  <2> HIDE DEF test, count
  <2> QED BY <1>5, <1>7, <2>1 DEF BranchesBefore
<1>10. ~IsConst(Counter) /\ \A c : IsConst([const |-> c]) /\ [const |-> c].const = c
  BY DEF IsConst, Counter
<1>11. Number(At(test)) = l.bound /\ TestOf(At(test)) = l.test
  <2>1. CASE l.turned
    <3>1. At(test).args[1] = [const |-> l.bound] /\ At(test).args[2] = Counter /\ At(test).test = Turned(l.test)
      BY <1>1, <1>4, <2>1
    <3>2. Turned(Turned(l.test)) = l.test
      BY DEF Turned
    <3> QED BY <1>10, <3>1, <3>2 DEF Number, TestOf
  <2>2. CASE ~l.turned
    <3>1. At(test).args[1] = Counter /\ At(test).args[2] = [const |-> l.bound] /\ At(test).test = l.test
      BY <1>1, <1>4, <2>2
    <3> QED BY <1>10, <3>1 DEF Number, TestOf
  <2> QED BY <2>1, <2>2
<1>12. At(count).op = l.op /\ WithConst(At(count)) /\ Number(At(count)) = l.step /\ At(count).op \in BinaryOp
  <2>1. At(count).args[1] = Counter /\ At(count).args[2] = [const |-> l.step] /\ At(count).op = l.op
    BY <1>1, <1>4
  <2>2. l.op \in BinaryOp
    BY DEF BinaryOp, Arithmetic
  <2> QED BY <1>10, <2>1, <2>2 DEF Number, WithConst
<1> HIDE DEF test, count
<1>13. Bound(count) = l.bound
  BY <1>9, <1>11, LatestOnly DEF Bound
<1>14. Symbol(count, leftover) = l.test
  <2>1. {s \in BranchesBefore(count) : TestOf(At(s)) \notin {"eq", "ne"}} = {test}
    BY <1>9, <1>11
  <2> QED BY ZenonT(40), <1>11, <2>1, LatestOnly DEF Symbol
<1>15. Answers(count, leftover) = Steps(l.test, l.op, l.bound, l.step)
  BY <1>12, <1>13, <1>14 DEF Answers
<1>16. Steps(l.test, l.op, l.bound, l.step) # <<>>
  BY DEF Steps, Less, LessEqual, Greater, GreaterEqual
<1>17. {r \in Reads : /\ At(r).op \in BinaryOp /\ WithConst(At(r)) /\ Answers(r, leftover) # <<>>} = {count}
  BY <1>5, <1>8, <1>12, <1>15, <1>16
<1> QED BY <1>15, <1>17, LatestOnly DEF processLoop

\* A loop that is done has printed an answer of processLoop.
LEMMA WhilePrinted ==
  ASSUME TypeOK, LoopPrinted, pc = "done", back_edge # {}, NEW l, fn = While(l)
  PROVE  \E leftover, g : /\ printed[1].lo = processLoop(leftover, g)[1]
                          /\ printed[1].hi = processLoop(leftover, g)[2]
<1>1. Blocks(fn) = 1..4 /\ Len(fn.blocks) = 4 /\ fn.blocks[4][1].op = "ret" /\ DOMAIN fn.blocks[4] = 1..1
  <2>1. HasBlocksOf(l, fn)
    BY WhileFacts
  <2> QED BY <2>1 DEF HasBlocksOf
<1>2. next = 5 /\ fn \in Function
  BY <1>1 DEF TypeOK
<1>3. IsReturn(Terminator(fn, 4))
  <2>1. Len(fn.blocks[4]) \in Nat /\ DOMAIN fn.blocks[4] = 1..Len(fn.blocks[4])
        /\ Terminator(fn, 4) = fn.blocks[4][Len(fn.blocks[4])]
    BY <1>1, <1>2, FunctionFacts
  <2> DEFINE n == Len(fn.blocks[4])
  <2>2. n \in Nat /\ 1..1 = 1..n
    BY <1>1, <2>1
  <2> HIDE DEF n
  <2>3. \A j \in Int : j \in 1..1 <=> j \in 1..n
    BY <2>2
  <2>4. n = 1
    BY <2>2, <2>3
  <2> QED BY <1>1, <2>1, <2>4 DEF IsReturn, n
<1>4. printed # <<>>
  BY <1>1, <1>2, <1>3 DEF LoopPrinted
<1>5. printed[1] \in Range(printed)
  BY <1>4 DEF TypeOK, Range
<1>6. LoopLine(printed[1])
  BY <1>5 DEF LoopPrinted
<1> QED BY <1>6 DEF LoopLine, Line

LEMMA ImpliesCountsRight == IInv => CountsRight
<1> SUFFICES ASSUME IInv, pc = "done", back_edge # {}, NEW l \in Loops
             PROVE  LET before(a, b) == \E i, j \in DOMAIN order : i < j /\ order[i] = a /\ order[j] = b
                        sign == IF l.op = "add" THEN 1 ELSE -1
                        value(k) == l.start + sign * k * l.step
                        ends == {k \in 0..2 * Greatest + 2 : ~Compares(l.test, value(k), l.bound)}
                    IN  /\ fn = While(l) /\ before(2, 3)
                        /\ l.op \in {"add", "sub"} /\ l.step > 0 /\ sign * (l.bound - l.start) >= 0
                        /\ l.test \in (IF l.op = "add" THEN {"slt", "sle"} ELSE {"sgt", "sge"})
                        /\ value(Min(ends)) \in Integer
                        => Within(value(Min(ends)), <<printed[1].lo, printed[1].hi>>)
  BY DEF CountsRight
<1> DEFINE sign == IF l.op = "add" THEN 1 ELSE -1
           value(k) == l.start + sign * k * l.step
           ends == {k \in 0..2 * Greatest + 2 : ~Compares(l.test, value(k), l.bound)}
<1> SUFFICES ASSUME fn = While(l), \E i, j \in DOMAIN order : i < j /\ order[i] = 2 /\ order[j] = 3,
                    l.op \in {"add", "sub"}, l.step > 0, sign * (l.bound - l.start) >= 0,
                    l.test \in (IF l.op = "add" THEN {"slt", "sle"} ELSE {"sgt", "sge"})
             PROVE  Within(value(Min(ends)), <<printed[1].lo, printed[1].hi>>)
  OBVIOUS
<1>1. l.start \in Integer /\ l.bound \in Integer /\ l.step \in Integer /\ l.step \in Int /\ l.start \in Int /\ l.bound \in Int
      /\ Greatest \in Nat
  BY RangeAssumption, Ranging
<1>2. PICK leftover, g : printed[1].lo = processLoop(leftover, g)[1] /\ printed[1].hi = processLoop(leftover, g)[2]
  BY WhilePrinted DEF IInv
<1> DEFINE r == Steps(l.test, l.op, l.bound, l.step)
<1>3. processLoop(leftover, g) = r
  <2>1. <<l.op, l.test>> \in ({"add"} \X {"slt", "sle"}) \cup ({"sub"} \X {"sgt", "sge"})
    OBVIOUS
  <2>2. PICK i, j \in DOMAIN order : i < j /\ order[i] = 2 /\ order[j] = 3
    OBVIOUS
  <2> QED BY <2>1, <2>2, WhileAnswer DEF IInv
<1>4. value(Min(ends)) \in r[1]..r[2]
  <2>1. CASE l.op = "add"
    <3>1. \A k \in Int : value(k) = l.start + k * l.step
      BY <1>1, <2>1
    <3>2. l.start <= l.bound
      BY <1>1, <2>1
    <3>3. ends = {k \in 0..(2 * Greatest + 2) : ~Compares(l.test, l.start + k * l.step, l.bound)}
      <4> HIDE DEF value
      <4> QED BY <1>1, <3>1
    <3> DEFINE start == l.start
               bound == l.bound
               step == l.step
               test == l.test
    <3>4. start \in Integer /\ bound \in Integer /\ step \in Int /\ step > 0 /\ start <= bound /\ test \in {"slt", "sle"}
      BY <1>1, <2>1, <3>2
    <3>5. ends = {k \in 0..(2 * Greatest + 2) : ~Compares(test, start + k * step, bound)}
      BY <3>3
    <3> HIDE DEF start, bound, step, test, ends, value
    <3>6. /\ Min(ends) \in Int
          /\ start + Min(ends) * step \in Steps(test, "add", bound, step)[1]..Steps(test, "add", bound, step)[2]
      BY <3>4, <3>5, CountUp
    <3> QED BY <2>1, <3>1, <3>6 DEF start, bound, step, test
  <2>2. CASE l.op = "sub"
    <3>1. \A k \in Int : value(k) = l.start - k * l.step
      BY <1>1, <2>2
    <3>2. l.bound <= l.start
      BY <1>1, <2>2
    <3>3. ends = {k \in 0..(2 * Greatest + 2) : ~Compares(l.test, l.start - k * l.step, l.bound)}
      <4> HIDE DEF value
      <4> QED BY <1>1, <3>1
    <3> DEFINE start == l.start
               bound == l.bound
               step == l.step
               test == l.test
    <3>4. start \in Integer /\ bound \in Integer /\ step \in Int /\ step > 0 /\ bound <= start /\ test \in {"sgt", "sge"}
      BY <1>1, <2>2, <3>2
    <3>5. ends = {k \in 0..(2 * Greatest + 2) : ~Compares(test, start - k * step, bound)}
      BY <3>3
    <3> HIDE DEF start, bound, step, test, ends, value
    <3>6. /\ Min(ends) \in Int
          /\ start - Min(ends) * step \in Steps(test, "sub", bound, step)[1]..Steps(test, "sub", bound, step)[2]
      BY <3>4, <3>5, CountDown
    <3> QED BY <2>2, <3>1, <3>6 DEF start, bound, step, test
  <2> QED BY <2>1, <2>2
<1>5. value(Min(ends)) \in printed[1].lo..printed[1].hi
  BY <1>2, <1>3, <1>4
<1> HIDE DEF value, ends
<1> QED BY <1>5 DEF Within

\* The range that is printed for a counting loop has the value it ends with.
THEOREM LoopsCountRight == Spec => []CountsRight
BY Invariance, ImpliesCountsRight, PTL
=============================================================================
