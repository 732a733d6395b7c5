----------------------------- MODULE ValueRange -----------------------------
(***************************************************************************)
(* The value range pass of value-range-analysis/: compForwardDataflow of   *)
(* Dataflow_.h with the LivenessVisitor of Liveness.h, and the execution   *)
(* of the functions that it is run on.                                     *)
(*                                                                         *)
(* A function is [params, blocks, headers]: its blocks in their order, each *)
(* a sequence of instructions that ends with a terminator, and the blocks  *)
(* that LoopInfo calls loop headers.  An instruction is that of            *)
(* Instructions with the blocks it goes to or its operands come from (at); *)
(* those without a result are left out.  A range is a sequence of two      *)
(* numbers, or of four where a point was cut out; a block has a range for  *)
(* some names where it begins (in) and where it ends (out).                *)
(*                                                                         *)
(* Each block is visited once, in order.  Inf stands for 0x7ffffff, Width  *)
(* for the 32 bits of an int.                                              *)
(***************************************************************************)
EXTENDS Instructions, SequencesExt

CONSTANTS
  Function,   \* the functions that are analysed
  Inf,        \* the end of the range of a name nothing is known about
  Leftovers,  \* what an uninitialised variable may hold
  Loops       \* counting loops: [start, op, step, test, bound, turned]

VARIABLES
  fn,        \* the function
  order,     \* its blocks in the order of their addresses
  back_edge, \* the edges that seem to go back
  loop_list, \* the blocks that seem to be in a loop
  in, out,   \* the ranges of each block
  next,      \* the first block of the worklist
  preds,     \* its predecessors as LLVM lists them
  turn,      \* the predecessor or the instruction that is at hand
  printed,   \* the ranges that were printed, with the block of the return
  trusted,   \* the names of each block whose ranges can be relied on
  place,     \* of an execution: its block, the next instruction, the block before
  store,     \* of an execution: the values of the names
  pc         \* start, blocks, learning, merging, computing, done or crashed, and
             \* running, returned or trapped when the function is executed

answer == <<order, back_edge, loop_list>>
execution == <<place, store>>
vars == <<fn, answer, in, out, next, preds, turn, printed, trusted, execution, pc>>

Blocks(f) == DOMAIN f.blocks
Terminator(f, b) == Last(f.blocks[b])
Successors(f, b) == IF Terminator(f, b).op = "ret" THEN {} ELSE ToSet(Terminator(f, b).at)
Predecessors(f, b) == {p \in Blocks(f) : b \in Successors(f, p)}

\* The instructions that no other follows, and the names a function has.
Closes(instr) == instr.op \in {"goto", "br", "ret"}
Names(f) == ToSet(f.params) \cup UNION {{i.to : i \in ToSet(f.blocks[b])} : b \in Blocks(f)}

\* A name is given its value once.  Known says that it has it before the i-th
\* instruction of block b if all blocks before are executed.
Assigns(f, c, j, n) ==
  /\ c \in Blocks(f) /\ j \in DOMAIN f.blocks[c]
  /\ f.blocks[c][j].to = n /\ ~Closes(f.blocks[c][j])
Known(f, n, b, i) ==
  \/ n \in ToSet(f.params)
  \/ \E c \in Blocks(f) : \E j \in DOMAIN f.blocks[c] :
       Assigns(f, c, j, n) /\ (c < b \/ (c = b /\ j < i))

Forward(f) == \A b \in Blocks(f) : \A s \in Successors(f, b) : b < s

Instruction ==
  [op : STRING, to : STRING, args : Seq([const : Integer] \cup [name : STRING]),
   test : Tests \cup {"none"}, at : Seq(Nat)]

\* As many operands and blocks as LLVM has them.
HasOperands(f, b, instr) ==
  /\ instr.op \in BinaryOp => Len(instr.args) = 2
  /\ instr.op = "goto" => Len(instr.at) = 1
  /\ instr.op = "br" => Len(instr.at) = 2 /\ (instr.test # "none" => Len(instr.args) = 2)
  /\ instr.op = "phi" => /\ instr.args # <<>> /\ Len(instr.at) = Len(instr.args)
                         /\ ToSet(instr.at) = Predecessors(f, b)

\* What LLVM's verifier asks of a function, and that a branch compares names that
\* were assigned on the way to it.
IsFunction(f) ==
  /\ DOMAIN f = {"params", "headers", "blocks"}
  /\ f.params \in Seq(STRING) /\ f.blocks \in Seq(Seq(Instruction)) /\ f.blocks # <<>>
  /\ \A b \in Blocks(f) :
       /\ f.blocks[b] # <<>>
       /\ \A i \in DOMAIN f.blocks[b] :
            /\ Closes(f.blocks[b][i]) <=> i = Len(f.blocks[b])
            /\ HasOperands(f, b, f.blocks[b][i])
       /\ Successors(f, b) \subseteq Blocks(f) \ {1}
  /\ \A b \in Blocks(f) : \A i \in DOMAIN f.blocks[b] :
       Closes(f.blocks[b][i]) \/ ~Known(f, f.blocks[b][i].to, b, i)
  /\ Forward(f) => \A b \in Blocks(f) : \A o \in ToSet(Terminator(f, b).args) :
       IsConst(o) \/ Known(f, o.name, b, Len(f.blocks[b]))

ASSUME RangeAssumption ==
  /\ Inf \in Nat /\ Inf < Greatest /\ Leftovers \subseteq Integer
  /\ \A f \in Function : IsFunction(f)
  /\ \A l \in Loops : l.start \in Integer /\ l.bound \in Integer /\ l.step \in Integer

-----------------------------------------------------------------------------
(* Ranges.                                                                 *)

Full == <<-Inf, Inf>>
Single(c) == <<c, c>>
NoRanges == [n \in {} |-> <<>>]

\* map::insert: an entry that is there stays.
Insert(m, n, r) == [k \in DOMAIN m \cup {n} |-> IF k \in DOMAIN m THEN m[k] ELSE r]

tryGetRange(o, m) == IF ~IsConst(o) /\ o.name \in DOMAIN m THEN m[o.name] ELSE Full
RangeOf(o, m) == IF IsConst(o) THEN Single(o.const) ELSE tryGetRange(o, m)

\* Only the first two numbers of a range are looked at.
Intersect(left, right) ==
  LET lo == Max({left[1], right[1]})
      hi == Min({left[2], right[2]})
  IN  IF lo <= hi THEN <<lo, hi>> ELSE <<>>

\* A point is cut out of a range that it is in.
Cut(left, c) ==
  IF Intersect(left, Single(c)) = <<>> THEN <<>>
  ELSE CASE left[1] < c /\ c < left[2] -> <<left[1], c - 1, c + 1, left[2]>>
         [] left[1] = c /\ c < left[2] -> <<c + 1, left[2]>>
         [] left[1] < c /\ c = left[2] -> <<left[1], c - 1>>
         [] left[1] = c /\ c = left[2] -> <<>>

Greater == {"sgt", "ugt"}
Less == {"slt", "ult"}
GreaterEqual == {"sge", "uge"}
LessEqual == {"sle", "ule"}

\* The test seen from the right operand.
Turned(test) ==
  CASE test = "sgt" -> "slt" [] test = "slt" -> "sgt" [] test = "sge" -> "sle"
    [] test = "sle" -> "sge" [] test = "ugt" -> "ult" [] test = "ult" -> "ugt"
    [] test = "uge" -> "ule" [] test = "ule" -> "uge" [] OTHER -> test

\* Faulty variant: the ends are taken from the wrong sides of r.
BoundsSwapped(test, r) ==
  CASE test \in Greater      -> <<<<r[2] + 1, Inf>>, <<-Inf, r[2]>>>>
    [] test \in Less         -> <<<<-Inf, r[2] - 1>>, <<r[1], Inf>>>>
    [] test \in GreaterEqual -> <<<<r[1], Inf>>, <<-Inf, r[2] - 1>>>>
    [] test \in LessEqual    -> <<<<-Inf, r[2]>>, <<r[1] + 1, Inf>>>>

\* What X > Y, ... says of X if Y is in r: on the true and on the false edge.
\* Unsigned comparisons are taken for signed ones.
Bounds(test, r) ==
  CASE test \in Greater      -> <<<<r[1] + 1, Inf>>, <<-Inf, r[2]>>>>
    [] test \in Less         -> <<<<-Inf, r[2] - 1>>, <<r[1], Inf>>>>
    [] test \in GreaterEqual -> <<<<r[1], Inf>>, <<-Inf, r[2] - 1>>>>
    [] test \in LessEqual    -> <<<<-Inf, r[2]>>, <<r[1] + 1, Inf>>>>

\* The range of X on each edge of X == C; on neither edge if X has no range yet.
Equal(x, c, m) ==
  LET r == tryGetRange(x, m)
      without == Cut(r, c)
  IN  IF x.name \notin DOMAIN m THEN <<<<>>, <<>>>>
      ELSE <<Intersect(r, Single(c)), IF without = <<>> THEN r ELSE without>>

\* X != C, of any X.
NotEqual(x, c, m) ==
  LET r == tryGetRange(x, m)
      without == Cut(r, c)
  IN  <<IF without = <<>> THEN r ELSE without, Intersect(r, Single(c))>>

\* The ranges of one operand x of a comparison with the other operand y.
Refined(test, x, y, m) ==
  LET r == RangeOf(y, m)
  IN  CASE test = "eq" /\ IsConst(y) -> Equal(x, y.const, m)
        [] test = "ne" /\ IsConst(y) -> NotEqual(x, y.const, m)
        [] test \in {"eq", "ne"} /\ ~IsConst(y) -> <<<<>>, <<>>>>
        [] OTHER -> [e \in 1..2 |-> Intersect(Bounds(test, r)[e], tryGetRange(x, m))]

-----------------------------------------------------------------------------
(* handlePredIcmp.                                                         *)

IsBranch(instr) == instr.op = "br"

\* A range enters a block, if there is one.
Enter(ins, b, n, r) == IF r = <<>> THEN ins ELSE [ins EXCEPT ![b] = Insert(@, n, r)]

\* The i-th operand of the branch of block p, on the true and on the false edge, if
\* p ends with the ranges m.
Learnt(f, p, i, m) ==
  LET br == Terminator(f, p)
  IN  Refined(IF i = 1 THEN br.test ELSE Turned(br.test), br.args[i], br.args[3 - i], m)
LearnOperand(ins, f, p, i, m) ==
  LET br == Terminator(f, p)
      o == br.args[i]
  IN  IF IsConst(o) THEN ins
      ELSE Enter(Enter(ins, br.at[1], o.name, Learnt(f, p, i, m)[1]),
                 br.at[2], o.name, Learnt(f, p, i, m)[2])

\* The ranges that both successors of block p have when its branch was looked at.
Learn(ins, f, p, m) ==
  IF IsBranch(Terminator(f, p))
  THEN LearnOperand(LearnOperand(ins, f, p, 1, m), f, p, 2, m) ELSE ins

\* merge: dest is the very map of the block, so that a name that is there is left
\* as it is: the first predecessor wins, and join is never reached.
Merge(m, src) == [k \in DOMAIN m \cup DOMAIN src |-> IF k \in DOMAIN m THEN m[k] ELSE src[k]]

-----------------------------------------------------------------------------
(* compDFVal.                                                              *)

\* The product of two ranges, or the square of one; g, two numbers, is what is left
\* over where the code assigns nothing.
Product(r, s, square, g) ==
  LET products == {r[i] * s[j] : i, j \in 1..2}
      negative == r[1] <= 0 /\ r[2] <= 0
      mixed == r[1] <= 0 /\ r[2] >= 0
  IN  CASE ~square -> <<Min(products), Max(products)>>
        [] square /\ negative -> <<r[2] * r[2], r[1] * r[1]>>
        [] square /\ ~negative /\ mixed -> <<0, Max({r[1] * r[1], r[2] * r[2]})>>
        [] OTHER -> IF r[1] >= 0 THEN <<r[1] * r[1], r[2] * r[2]>> ELSE g

\* A number minus a name is computed as the name minus the number.
Difference(a, b, r, s) ==
  CASE IsConst(a) /\ ~IsConst(b) -> <<s[1] - a.const, s[2] - a.const>>
    [] a = b -> <<r[1] - s[1], r[2] - s[2]>>
    [] OTHER -> <<r[1] - s[2], r[2] - s[1]>>

\* The two ends of the result of a binary operator before they are stored in an int.
Ends(instr, m, g) ==
  LET a == instr.args[1]
      b == instr.args[2]
      r == RangeOf(a, m)
      s == RangeOf(b, m)
  IN  CASE instr.op = "add" -> <<r[1] + s[1], r[2] + s[2]>>
        [] instr.op = "sub" -> Difference(a, b, r, s)
        [] instr.op = "mul" -> Product(r, s, a = b, g)
        [] instr.op \notin {"add", "mul", "sub"} /\ IsConst(a) /\ IsConst(b) ->
             IF instr.op \in {"sdiv", "udiv"} THEN Single(Quotient(a.const, b.const))
             ELSE Single(g[1])
        [] instr.op \notin {"add", "mul", "sub"} /\ IsConst(a) # IsConst(b) ->
             IF IsConst(a) THEN <<s[1], s[2]>> ELSE <<r[1], r[2]>>
        [] OTHER -> g

\* handleBinaryOp.
Computed(instr, m, g) == [e \in 1..2 |-> Signed(Ends(instr, m, g)[e])]

\* A phi node: the least and the greatest number of its operands.  A name has the
\* range with which its block ends, if that block was visited.
Joined(instr, outs) ==
  LET numbers(i) ==
        LET o == instr.args[i]
        IN  IF IsConst(o) THEN {o.const} ELSE ToSet(tryGetRange(o, outs[instr.at[i]]))
      all == UNION {numbers(i) : i \in DOMAIN instr.args}
  IN  <<Min(all), Max(all)>>

\* The ranges after one more instruction.
After(instr, m, outs, g) ==
  CASE instr.op \in BinaryOp -> Insert(m, instr.to, Computed(instr, m, g))
    [] instr.op = "phi" -> Insert(m, instr.to, Joined(instr, outs))
    [] OTHER -> m
-----------------------------------------------------------------------------
(* processLoop.                                                            *)

\* A comparison of a name with a number; any other one dereferences NULL.
WithConst(instr) == IsConst(instr.args[1]) # IsConst(instr.args[2])

\* Faulty variant: a loop that runs while X <= C ends where one with X < C does.
StepsShort(symbol, op, bound, step) ==
  CASE op = "add" /\ symbol \in Less \cup LessEqual -> <<bound, bound + step - 1>>
    [] op = "sub" /\ symbol \in Greater \cup GreaterEqual -> <<bound - step + 1, bound>>
    [] OTHER -> <<>>

\* How far a loop that tests symbol goes past its bound.
Steps(symbol, op, bound, step) ==
  CASE op = "add" /\ symbol \in Less -> <<bound, bound + step - 1>>
    [] op = "add" /\ symbol \in LessEqual -> <<bound, bound + step>>
    [] op = "sub" /\ symbol \in Greater -> <<bound - step + 1, bound>>
    [] op = "sub" /\ symbol \in GreaterEqual -> <<bound - step, bound>>
    [] OTHER -> <<>>
\* What processLoop reads: positions of the blocks in the list, these in the order
\* of their addresses.
Reads ==
  UNION {{<<k, i>> : i \in DOMAIN fn.blocks[order[k]]} : k \in {j \in DOMAIN order : order[j] \in loop_list}}
At(r) == fn.blocks[order[r[1]]][r[2]]
Earlier(r, s) == r[1] < s[1] \/ (r[1] = s[1] /\ r[2] < s[2])
Latest(S) == CHOOSE r \in S : \A s \in S : s = r \/ Earlier(s, r)

\* The number of an instruction that has one, and its test seen from the name.
Number(instr) == instr.args[IF IsConst(instr.args[2]) THEN 2 ELSE 1].const
TestOf(instr) == IF IsConst(instr.args[2]) THEN instr.test ELSE Turned(instr.test)

\* bound is that of the last branch before r, symbol the last that is no (in)equality;
\* it is not initialised.
BranchesBefore(r) == {s \in Reads : Earlier(s, r) /\ IsBranch(At(s))}
Bound(r) == IF BranchesBefore(r) = {} THEN 0 ELSE Number(At(Latest(BranchesBefore(r))))
Symbol(r, leftover) ==
  LET ordered == {s \in BranchesBefore(r) : TestOf(At(s)) \notin {"eq", "ne"}}
  IN  IF ordered = {} THEN leftover ELSE TestOf(At(Latest(ordered)))

\* An operation with a number sets left and right, and the last one stays; they are
\* not initialised either.
Answers(r, leftover) == Steps(Symbol(r, leftover), At(r).op, Bound(r), Number(At(r)))
processLoop(leftover, g) ==
  LET setting == {r \in Reads : /\ At(r).op \in BinaryOp /\ WithConst(At(r))
                                /\ Answers(r, leftover) # <<>>}
  IN  IF setting = {} THEN g ELSE Answers(Latest(setting), leftover)

\* A branch on no comparison, or on one of two names or of two numbers.
LoopCrashes ==
  \E r \in Reads : IsBranch(At(r)) /\ (At(r).test = "none" \/ ~WithConst(At(r)))

-----------------------------------------------------------------------------
(* compForwardDataflow.                                                    *)

Line(b, lo, hi, least, greatest) ==
  [block |-> b, lo |-> lo, hi |-> hi, min |-> least, max |-> greatest]

\* What the return instruction of block b prints if its ranges are m: what
\* processLoop answers, or the first two numbers of the range of its value, an end
\* of Full as min or max.
Lines(b, instr, m, g) ==
  IF back_edge # {}
  THEN {Line(b, ans[1], ans[2], FALSE, FALSE) :
          ans \in {processLoop(leftover, g) : leftover \in Signs \cup {"none"}}}
  ELSE LET r == tryGetRange(instr.args[1], m)
       IN  {Line(b, r[1], r[2], r[1] = -Inf, r[2] = Inf)}

IsReturn(instr) == instr.op = "ret"

\* A return without a value, outside of a function with loops, and the loops that
\* processLoop cannot read end the process.
ReturnCrashes(instr) ==
  IsReturn(instr) /\ IF back_edge # {} THEN LoopCrashes ELSE instr.args = <<>>

\* A division of two numbers by zero traps.
DividesByZero(instr) ==
  /\ instr.op \in {"sdiv", "udiv"}
  /\ IsConst(instr.args[1]) /\ IsConst(instr.args[2]) /\ instr.args[2].const = 0

\* The map that compDFVal works on: of the start block the outgoing one, of others
\* the incoming one.
AtHand == IF next = 1 THEN out[1] ELSE in[next]
Set(m) ==
  IF next = 1 THEN out' = [out EXCEPT ![1] = m] /\ UNCHANGED in
  ELSE in' = [in EXCEPT ![next] = m] /\ UNCHANGED out

-----------------------------------------------------------------------------
(* Which ranges can be relied on.                                          *)

Within(n, r) == n \in r[1]..r[2] \/ (Len(r) = 4 /\ n \in r[3]..r[4])

\* A number, or a name that can be relied on and whose range has no hole: only phi
\* nodes read both parts of one with a hole.
Usable(o, names, m) == IsConst(o) \/ (o.name \in names /\ Len(tryGetRange(o, m)) = 2)

\* A result that the pass computes as it should: sums, products and differences
\* (a number minus a name is computed the wrong way round), and signed quotients
\* of numbers, that stay between -Inf and Inf.
Computes(instr, m) ==
  /\ \/ instr.op \in {"add", "mul"}
     \/ instr.op = "sub" /\ (IsConst(instr.args[1]) => IsConst(instr.args[2]))
     \/ instr.op = "sdiv" /\ IsConst(instr.args[1]) /\ IsConst(instr.args[2])
  /\ \A e \in 1..2 : Ends(instr, m, <<0, 0>>)[e] \in -Inf..Inf
\* The names of block p, which ends with the ranges m, that its only successor or the
\* one of two may rely on: not those that an unsigned comparison or one with an
\* operand that is not usable refined.
Carried(f, p, names, m) ==
  LET br == Terminator(f, p)
      misleading == \/ br.test \in Unsigns \/ br.at[1] = br.at[2]
                    \/ \E i \in 1..2 : ~Usable(br.args[i], names, m)
  IN  IF IsBranch(br) /\ misleading
      THEN {n \in names : \A i \in 1..2 : br.args[i] # [name |-> n]} ELSE names

\* The names of the block at hand before its first instruction: those carried from a
\* single predecessor.
Entering ==
  IF next = 1 THEN ToSet(fn.params)
  ELSE {n \in UNION {trusted[p] : p \in Blocks(fn)} :
          \E p \in Blocks(fn) : /\ Predecessors(fn, next) = {p}
                               /\ n \in Carried(fn, p, trusted[p], out[p])}

\* The result of an instruction can be relied on if its operands can.
Reliable(instr, names, m) ==
  \/ /\ instr.op \in BinaryOp
     /\ \A i \in 1..2 : Usable(instr.args[i], names, m)
     /\ Computes(instr, m)
  \/ /\ instr.op = "phi"
     /\ \A i \in DOMAIN instr.args :
          LET o == instr.args[i]
          IN  IF IsConst(o) THEN o.const \in -Inf..Inf ELSE o.name \in trusted[instr.at[i]]

-----------------------------------------------------------------------------
(* The pass.                                                               *)

Init ==
  /\ fn \in Function
  /\ order \in IF fn.headers = {} THEN {[b \in Blocks(fn) |-> b]}
              ELSE {o \in [Blocks(fn) -> Blocks(fn)] : IsInjective(o)}
  /\ back_edge = {} /\ loop_list = {}
  /\ in = [b \in Blocks(fn) |-> NoRanges] /\ out = in
  /\ next = 1 /\ preds = <<>> /\ turn = 1 /\ printed = <<>>
  /\ trusted = [b \in Blocks(fn) |-> {}]
  /\ place = [block |-> 1, i |-> 1, from |-> 0] /\ store = <<>>
  /\ pc = "start"

\* The loops, by the order of the blocks: from a loop header to the last block
\* everything is in the list.
FindLoops ==
  /\ pc = "start"
  /\ back_edge' = {e \in Blocks(fn) \X Blocks(fn) : e[2] <= e[1] /\ e[2] \in Successors(fn, e[1])}
  /\ loop_list' =
       LET from == {b \in Blocks(fn) : \E h \in fn.headers : h <= b}
       IN  from \cup UNION {Successors(fn, b) : b \in from}
  /\ pc' = "blocks"
  /\ UNCHANGED <<fn, order, in, out, next, preds, turn, printed, trusted, execution>>

\* The start block has no incoming ranges.
TakeFirst ==
  /\ pc = "blocks" /\ next = 1
  /\ trusted' = [trusted EXCEPT ![1] = Entering]
  /\ pc' = "computing"
  /\ UNCHANGED <<fn, answer, in, out, next, preds, turn, printed, execution>>

\* The next block of the worklist; LLVM lists its predecessors in some order.
TakeBlock ==
  /\ pc = "blocks" /\ next \in 2..Len(fn.blocks)
  /\ preds' \in SetToSeqs(Predecessors(fn, next))
  /\ pc' = "learning"
  /\ UNCHANGED <<fn, answer, in, out, next, turn, printed, trusted, execution>>

\* handlePredIcmp of one predecessor.
Opaque(p) == IsBranch(Terminator(fn, p)) /\ Terminator(fn, p).test = "none"
LearnFrom ==
  /\ pc = "learning" /\ turn \in DOMAIN preds
  /\ ~Opaque(preds[turn])
  /\ in' = Learn(in, fn, preds[turn], out[preds[turn]])
  /\ turn' = turn + 1
  /\ UNCHANGED <<fn, answer, out, next, preds, printed, trusted, execution, pc>>

EndLearn ==
  /\ pc = "learning" /\ turn = Len(preds) + 1
  /\ turn' = 1 /\ pc' = "merging"
  /\ UNCHANGED <<fn, answer, in, out, next, preds, printed, trusted, execution>>

MergeFrom ==
  /\ pc = "merging" /\ turn \in DOMAIN preds
  /\ in' = [in EXCEPT ![next] = Merge(@, out[preds[turn]])]
  /\ turn' = turn + 1
  /\ UNCHANGED <<fn, answer, out, next, preds, printed, trusted, execution, pc>>

EndMerge ==
  /\ pc = "merging" /\ turn = Len(preds) + 1
  /\ trusted' = [trusted EXCEPT ![next] = Entering]
  /\ turn' = 1 /\ preds' = <<>> /\ pc' = "computing"
  /\ UNCHANGED <<fn, answer, in, out, next, printed, execution>>

\* compDFVal of one instruction.
ComputeInstr ==
  /\ pc = "computing" /\ turn \in DOMAIN fn.blocks[next]
  /\ LET instr == fn.blocks[next][turn]
     IN  /\ ~ReturnCrashes(instr) /\ ~DividesByZero(instr)
         /\ \E g \in Leftovers \X Leftovers :
              /\ Set(After(instr, AtHand, out, g))
              /\ IF IsReturn(instr)
                 THEN \E line \in Lines(next, instr, AtHand, g) : printed' = Append(printed, line)
                 ELSE UNCHANGED printed
         /\ trusted' = [trusted EXCEPT ![next] =
                          IF Reliable(instr, @, AtHand) THEN @ \cup {instr.to} ELSE @]
  /\ turn' = turn + 1
  /\ UNCHANGED <<fn, answer, next, preds, execution, pc>>

EndBlock ==
  /\ pc = "computing" /\ turn = Len(fn.blocks[next]) + 1
  /\ out' = [out EXCEPT ![next] = AtHand]
  /\ next' = next + 1 /\ turn' = 1 /\ pc' = "blocks"
  /\ UNCHANGED <<fn, answer, in, preds, printed, trusted, execution>>

\* dyn_cast<ICmpInst> of another condition is dereferenced.
Crash ==
  /\ \/ pc = "learning" /\ turn \in DOMAIN preds /\ Opaque(preds[turn])
     \/ /\ pc = "computing" /\ turn \in DOMAIN fn.blocks[next]
        /\ LET instr == fn.blocks[next][turn] IN ReturnCrashes(instr) \/ DividesByZero(instr)
  /\ pc' = "crashed"
  /\ UNCHANGED <<fn, answer, in, out, next, preds, turn, printed, trusted, execution>>

End ==
  /\ pc = "blocks" /\ next = Len(fn.blocks) + 1
  /\ pc' = "done"
  /\ UNCHANGED <<fn, answer, in, out, next, preds, turn, printed, trusted, execution>>

-----------------------------------------------------------------------------
(* What a function does that has no loops.                                 *)

pass == <<fn, answer, in, out, next, preds, turn, printed, trusted>>

Here == fn.blocks[place.block][place.i]
Val(i) == ValueOf(Here.args[i], store)

\* The value v for the name that the instruction has, and the next instruction.
Assign(v) ==
  /\ store' = [store EXCEPT ![Here.to] = v]
  /\ place' = [place EXCEPT !.i = @ + 1]
  /\ UNCHANGED <<pass, pc>>

GoTo(b) ==
  /\ place' = [block |-> b, i |-> 1, from |-> place.block]
  /\ UNCHANGED <<pass, store, pc>>

Call ==
  /\ pc = "done" /\ Forward(fn)
  /\ \E arguments \in [ToSet(fn.params) -> -Inf..Inf] :
       store' = [n \in Names(fn) |-> IF n \in ToSet(fn.params) THEN arguments[n] ELSE Undefined]
  /\ pc' = "running"
  /\ UNCHANGED <<pass, place>>

\* A phi node has the value of its operand for the block that was left.
ExecutePhi ==
  /\ pc = "running" /\ Here.op = "phi"
  /\ \E i \in DOMAIN Here.args : Here.at[i] = place.from /\ Assign(Val(i))

Traps == Here.op \in Division /\ Val(2) = 0
ExecuteBinaryOp ==
  /\ pc = "running" /\ Here.op \in BinaryOp
  /\ ~Traps /\ Assign(Meaning(Here.op, Val(1), Val(2)))

Trap ==
  /\ pc = "running" /\ Traps
  /\ pc' = "trapped"
  /\ UNCHANGED <<pass, execution>>

\* Calls, loads and the like may have any result.
ExecuteOther ==
  /\ pc = "running" /\ Here.op \notin BinaryOp \cup {"phi", "goto", "br", "ret"}
  /\ \E v \in Integer : Assign(v)

ExecuteGoto ==
  /\ pc = "running" /\ Here.op = "goto"
  /\ GoTo(Here.at[1])

ExecuteBranch ==
  /\ pc = "running" /\ IsBranch(Here)
  /\ GoTo(Here.at[IF Compares(Here.test, Val(1), Val(2)) THEN 1 ELSE 2])

Return ==
  /\ pc = "running" /\ IsReturn(Here)
  /\ pc' = "returned"
  /\ UNCHANGED <<pass, execution>>

Stopped ==
  /\ pc \in {"crashed", "returned", "trapped"} \/ (pc = "done" /\ ~Forward(fn))
  /\ UNCHANGED vars

Next ==
  \/ FindLoops \/ TakeFirst \/ TakeBlock \/ LearnFrom \/ EndLearn \/ MergeFrom \/ EndMerge
  \/ ComputeInstr \/ EndBlock \/ Crash \/ End
  \/ Call \/ ExecutePhi \/ ExecuteBinaryOp \/ Trap \/ ExecuteOther \/ ExecuteGoto
  \/ ExecuteBranch \/ Return \/ Stopped

Spec == Init /\ [][Next]_vars

-----------------------------------------------------------------------------
(* Properties.                                                             *)

\* The meaning of a printed line.
InLine(v, line) == (line.min \/ line.lo <= v) /\ (line.max \/ v <= line.hi)

\* Liveness.h computes "the interval of each inst": whenever an execution of a
\* function without loops gets to the end of a block, every name of the block that
\* can be relied on lies in the range that the block ends with, and the value it
\* returns in the range that is printed for the return, whatever order the
\* predecessors of a block are listed in.
Sound ==
  LET b == place.block
  IN  pc = "running" /\ Closes(Here) =>
        /\ \A n \in trusted[b] : Within(store[n], tryGetRange([name |-> n], out[b]))
        /\ IsReturn(Here) /\ Usable(Here.args[1], trusted[b], out[b]) =>
             \E j \in DOMAIN printed : printed[j].block = b /\ InLine(Val(1), printed[j])

\* A loop that counts from start until a comparison with bound fails.
While(l) ==
  LET i == [name |-> "i"]
      Instr(op, to, args, test, at) ==
        [op |-> op, to |-> to, args |-> args, test |-> test, at |-> at]
  IN  [params |-> <<"x">>, headers |-> {2},
       blocks |->
         <<<<Instr("goto", "", <<>>, "none", <<2>>)>>,
           <<Instr("phi", "i", <<[const |-> l.start], [name |-> "j"]>>, "none", <<1, 3>>),
             IF l.turned THEN Instr("br", "", <<[const |-> l.bound], i>>, Turned(l.test), <<3, 4>>)
             ELSE Instr("br", "", <<i, [const |-> l.bound]>>, l.test, <<3, 4>>)>>,
           <<Instr(l.op, "j", <<i, [const |-> l.step]>>, "none", <<>>),
             Instr("goto", "", <<>>, "none", <<2>>)>>,
           <<Instr("ret", "", <<i>>, "none", <<>>)>>>>]

\* What processLoop prints for a loop that counts by a constant towards its bound
\* contains the value the loop ends with, if that is an integer and the block with
\* the comparison comes before the block that counts in the order of their addresses.
CountsRight ==
  pc = "done" /\ back_edge # {} => \A l \in Loops :
    LET before(a, b) == \E i, j \in DOMAIN order : i < j /\ order[i] = a /\ order[j] = b
        sign == IF l.op = "add" THEN 1 ELSE -1
        value(k) == l.start + sign * k * l.step
        ends == {k \in 0..2 * Greatest + 2 : ~Compares(l.test, value(k), l.bound)}
    IN  /\ fn = While(l) /\ before(2, 3)
        /\ l.op \in {"add", "sub"} /\ l.step > 0 /\ sign * (l.bound - l.start) >= 0
        /\ l.test \in (IF l.op = "add" THEN {"slt", "sle"} ELSE {"sgt", "sge"})
        /\ value(Min(ends)) \in Integer
        => Within(value(Min(ends)), <<printed[1].lo, printed[1].hi>>)
=============================================================================
