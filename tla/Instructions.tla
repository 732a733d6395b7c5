----------------------------- MODULE Instructions -----------------------------
(***************************************************************************)
(* The LLVM instructions that the CSE231 analyses read, and what they do   *)
(* to the store of a function that runs.  An instruction is a record with  *)
(*   op   : "alloca", "store", "load", an arithmetic operator, "phi", "br" *)
(*          (a conditional branch), or anything else                       *)
(*   to   : the name it writes                                             *)
(*   args : its operands, [const |-> c] or [name |-> x]                    *)
(*   test : what a branch compares its two operands for; "none" if its     *)
(*          condition is no comparison                                     *)
(* Variables in memory are stored to and loaded from by their own name.    *)
(* Integers have Width bits and are signed.                                *)
(***************************************************************************)
EXTENDS Integers, Sequences, FiniteSetsExt

CONSTANT Width    \* the width of all integers

Least == -2^(Width - 1)
Greatest == 2^(Width - 1) - 1
Integer == Least..Greatest

\* A name that was not assigned yet, and what an uninitialised variable of the
\* analysis holds; neither is an integer of the program.
Undefined == 2^Width
Garbage == 2^Width + 1

IsConst(o) == "const" \in DOMAIN o

Division == {"sdiv", "udiv", "srem", "urem"}
Bitwise == {"and", "or", "xor"}
Shift == {"shl"}
Arithmetic == {"add", "sub", "mul"} \cup Division \cup Bitwise
BinaryOp == Arithmetic \cup Shift

\* The signed integer with the Width low bits of n.
Signed(n) ==
  LET low == n % 2^Width IN IF low >= 2^(Width - 1) THEN low - 2^Width ELSE low

Unsigned(n) == n % 2^Width

\* Division that truncates, as that of C++, and what it leaves.
Quotient(a, b) ==
  LET abs(n) == IF n < 0 THEN -n ELSE n
      q == abs(a) \div abs(b)
  IN  IF (a < 0) = (b < 0) THEN q ELSE -q
Remainder(a, b) == a - b * Quotient(a, b)

\* The bits of a number, and a bitwise operator.
Bits(n) == {i \in 0..(Width - 1) : (Unsigned(n) \div 2^i) % 2 = 1}
OnBits(op, a, b) ==
  LET bits == CASE op = "and" -> Bits(a) \cap Bits(b)
                [] op = "or" -> Bits(a) \cup Bits(b)
                [] op = "xor" -> (Bits(a) \cup Bits(b)) \ (Bits(a) \cap Bits(b))
  IN  Signed(MapThenSumSet(LAMBDA i : 2^i, bits))

Meaning(op, a, b) ==
  CASE op = "add" -> Signed(a + b)
    [] op = "sub" -> Signed(a - b)
    [] op = "mul" -> Signed(a * b)
    [] op = "sdiv" -> Signed(Quotient(a, b))
    [] op = "udiv" -> Signed(Unsigned(a) \div Unsigned(b))
    [] op = "srem" -> Signed(Remainder(a, b))
    [] op = "urem" -> Signed(Unsigned(a) % Unsigned(b))
    [] op \in Bitwise -> OnBits(op, a, b)
    [] op = "shl" -> Signed(a * 2^(b % Width))

ValueOf(o, s) == IF IsConst(o) THEN o.const ELSE s[o.name]

\* The stores after an instruction.  Memory that is allocated holds anything; of
\* a phi node any operand; a division by zero has no next state.
StoresAfter(instr, s) ==
  LET val(n) == ValueOf(instr.args[n], s)
      assigned(C) == {[s EXCEPT ![instr.to] = c] : c \in C}
  IN  CASE instr.op = "alloca" -> assigned(Integer)
        [] instr.op \in {"store", "load"} -> assigned({val(1)})
        [] instr.op = "phi" -> assigned({val(n) : n \in DOMAIN instr.args} \ {Undefined})
        [] instr.op \in BinaryOp ->
             IF instr.op \in Division /\ val(2) = 0 THEN {}
             ELSE assigned({Meaning(instr.op, val(1), val(2))})
        [] OTHER -> {s}

\* Arithmetic that no prover has for every width: the powers of two, and that a
\* bitwise operator leaves an integer.
ASSUME WidthAssumption ==
  /\ Width \in Nat \ {0}
  /\ \A n \in 0..(Width - 1) : 2^n \in Nat \ {0}
  /\ 2^Width = 2 * 2^(Width - 1)
  /\ \A op \in Bitwise, a, b \in Integer : OnBits(op, a, b) \in Integer

Signs == {"sgt", "sge", "slt", "sle"}
Unsigns == {"ugt", "uge", "ult", "ule"}
Tests == {"eq", "ne"} \cup Signs \cup Unsigns

Compares(test, a, b) ==
  LET l == IF test \in Unsigns THEN Unsigned(a) ELSE a
      r == IF test \in Unsigns THEN Unsigned(b) ELSE b
  IN  CASE test = "eq" -> a = b
        [] test = "ne" -> a # b
        [] test \in {"sgt", "ugt"} -> l > r
        [] test \in {"sge", "uge"} -> l >= r
        [] test \in {"slt", "ult"} -> l < r
        [] test \in {"sle", "ule"} -> l <= r

\* A branch on a comparison follows it; other terminators may go anywhere.
BranchesOf(instr, s) ==
  IF instr.op = "br" /\ instr.test \in Tests
  THEN {IF Compares(instr.test, ValueOf(instr.args[1], s), ValueOf(instr.args[2], s)) THEN 1 ELSE 2}
  ELSE Nat
=============================================================================
