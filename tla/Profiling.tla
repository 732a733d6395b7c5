------------------------------ MODULE Profiling ------------------------------
(***************************************************************************)
(* The two profiling tools of llvm-profiling/examples/: the passes that    *)
(* instrument a program, CountDynamicInstructions.cpp and                  *)
(* ProfilingBranchBias.cpp, and the runtime that the program is linked     *)
(* with, runtime.cpp.                                                      *)
(*                                                                         *)
(* A program is a sequence of functions, the first being main; a function  *)
(* is a sequence of blocks [code |-> instructions, succ |-> blocks].  An   *)
(* instruction is a record [op, callee, counts]: the callee of a "call" is *)
(* a function, or 0 for the exit of the C library; the last instruction of *)
(* a block is "br", with one successor or two, or "ret".  Calls of the     *)
(* runtime have the ops in RuntimeOps, and "update" has the counts.        *)
(***************************************************************************)
EXTENDS Naturals, Sequences, SequencesExt

CONSTANTS
  Programs,     \* the programs that may be profiled
  Ops,          \* the opcodes they use
  Width,        \* the bits of a counter
  MaxExecuted   \* bound: the instructions a run executes

VARIABLES
  program,       \* the program as it was
  tool,          \* "count" or "bias"
  code,          \* the program as it is instrumented
  pos,           \* the block that the pass is at
  pc,            \* "pass", "run", "returned" or "exited"
  stack,         \* the activations: function, block, instruction, condition
  instr_map,     \* the runtime's counts
  branch_count,  \* the branches the runtime saw: taken, and all
  printed,       \* the sum of all reports, for each opcode
  printedBranch, \* the sum of all reports on branches
  executed,      \* the instructions of the program that were executed
  branched       \* the conditional branches that were executed: taken, and all

runtime == <<instr_map, branch_count, printed, printedBranch>>
vars == <<program, tool, code, pos, pc, stack, runtime, executed, branched>>

RuntimeOps == {"update", "print", "updateBranch", "printBranch"}
Empty == [x \in {} |-> 0]
Zero == [op \in Ops |-> 0]
NoBranches == [taken |-> 0, total |-> 0]
RuntimeCall(op, counts) == [op |-> op, callee |-> 0, counts |-> counts]

\* What a block holds: branches and returns end it, and only they do.
Instructions(p) == [op : Ops, callee : 0..Len(p), counts : {Empty}]
Blocks(p, f) ==
  {b \in [code : Seq(Instructions(p)), succ : Seq(DOMAIN p[f])] :
     /\ b.code # <<>>
     /\ \A i \in DOMAIN b.code : b.code[i].op \in {"br", "ret"} <=> i = Len(b.code)
     /\ Last(b.code).op = "br" => Len(b.succ) \in {1, 2}}

ASSUME ProgramAssumption ==
  /\ 2^Width \in Nat \ {0}
  /\ {"call", "br", "ret"} \subseteq Ops /\ Ops \cap RuntimeOps = {}
  /\ \A p \in Programs :
       /\ p \in Seq(Range(p)) /\ p # <<>>
       /\ \A f \in DOMAIN p :
            p[f] \in Seq(Range(p[f])) /\ p[f] # <<>> /\ Range(p[f]) \subseteq Blocks(p, f)

Activation(f, b, c) == [fn |-> f, block |-> b, i |-> 1, cond |-> c]

Init ==
  /\ program \in Programs
  /\ tool \in {"count", "bias"}
  /\ code = program
  /\ pos = [fn |-> 1, block |-> 1]
  /\ pc = "pass"
  /\ stack = <<>>
  /\ instr_map = Empty
  /\ branch_count = NoBranches
  /\ printed = Zero
  /\ printedBranch = NoBranches
  /\ executed = Zero
  /\ branched = NoBranches

-----------------------------------------------------------------------------
(* The passes, block by block.                                             *)

OpsOf(instrs) == {instrs[i].op : i \in DOMAIN instrs}
Times(op, instrs) == Cardinality({i \in DOMAIN instrs : instrs[i].op = op})
Counts(instrs) == [op \in OpsOf(instrs) |-> Times(op, instrs)]

\* The report goes before the last instruction of a block that returns.
Report(instrs, op) == IF "ret" \in OpsOf(instrs) THEN <<RuntimeCall(op, Empty)>> ELSE <<>>

\* Faulty variant: the report comes before the counts.
CountingReportFirst(b) ==
  Front(b.code) \o Report(b.code, "print") \o <<RuntimeCall("update", Counts(b.code))>>
    \o <<Last(b.code)>>

\* Faulty variant: the calls take the place of the last instruction.
CountingReplaces(b) ==
  Front(b.code) \o <<RuntimeCall("update", Counts(b.code))>> \o Report(b.code, "print")

\* CountDynamicInstructions: the counts of a block before its last instruction.
Counting(b) ==
  Front(b.code) \o <<RuntimeCall("update", Counts(b.code))>> \o Report(b.code, "print")
    \o <<Last(b.code)>>

\* ProfilingBranchBias: the condition before each conditional branch.
Biasing(b) ==
  LET Seen(i) == IF b.code[i].op = "br" /\ Len(b.succ) > 1
                 THEN <<RuntimeCall("updateBranch", Empty), b.code[i]>> ELSE <<b.code[i]>>
      seen == FlattenSeq([i \in DOMAIN b.code |-> Seen(i)])
  IN  Front(seen) \o Report(b.code, "printBranch") \o <<Last(seen)>>

InstrumentBlock ==
  /\ pc = "pass"
  /\ LET b == code[pos.fn][pos.block]
     IN  code' = [code EXCEPT ![pos.fn][pos.block].code =
                    IF tool = "count" THEN Counting(b) ELSE Biasing(b)]
  /\ IF pos.block < Len(program[pos.fn])
     THEN pos' = [pos EXCEPT !.block = @ + 1] /\ UNCHANGED <<pc, stack>>
     ELSE IF pos.fn < Len(program)
          THEN pos' = [fn |-> pos.fn + 1, block |-> 1] /\ UNCHANGED <<pc, stack>>
          ELSE /\ pc' = "run"
               /\ \E c \in BOOLEAN : stack' = <<Activation(1, 1, c)>>
               /\ UNCHANGED pos
  /\ UNCHANGED <<program, tool, runtime, executed, branched>>

-----------------------------------------------------------------------------
(* The run of the instrumented program.                                    *)

Active == stack[Len(stack)]
Instr == code[Active.fn][Active.block].code[Active.i]
Advance == stack' = [stack EXCEPT ![Len(stack)].i = @ + 1]

Total == Cardinality({x \in Ops \X (1..MaxExecuted) : x[2] <= executed[x[1]]})

\* The next instruction is of the program, and has one of these opcodes.
Executing(ops) ==
  /\ pc = "run" /\ Instr.op \in ops
  /\ Total < MaxExecuted
  /\ executed' = [executed EXCEPT ![Instr.op] = @ + 1]

Compute ==
  /\ Executing(Ops \ {"call", "br", "ret"})
  /\ Advance
  /\ UNCHANGED <<program, tool, code, pos, pc, runtime, branched>>

Call ==
  /\ Executing({"call"}) /\ Instr.callee # 0
  /\ \E c \in BOOLEAN :
       stack' = Append([stack EXCEPT ![Len(stack)].i = @ + 1], Activation(Instr.callee, 1, c))
  /\ UNCHANGED <<program, tool, code, pos, pc, runtime, branched>>

Exit ==
  /\ Executing({"call"}) /\ Instr.callee = 0
  /\ Advance
  /\ pc' = "exited"
  /\ UNCHANGED <<program, tool, code, pos, runtime, branched>>

Branch ==
  /\ Executing({"br"})
  /\ LET succ == code[Active.fn][Active.block].succ
         to == IF Len(succ) = 1 \/ Active.cond THEN succ[1] ELSE succ[2]
     IN  /\ \E c \in BOOLEAN : stack' = [stack EXCEPT ![Len(stack)] = Activation(Active.fn, to, c)]
         /\ branched' = IF Len(succ) = 1 THEN branched
                        ELSE [taken |-> branched.taken + (IF Active.cond THEN 1 ELSE 0),
                              total |-> branched.total + 1]
  /\ UNCHANGED <<program, tool, code, pos, pc, runtime>>

Return ==
  /\ Executing({"ret"})
  /\ stack' = Front(stack)
  /\ pc' = IF Len(stack) = 1 THEN "returned" ELSE pc
  /\ UNCHANGED <<program, tool, code, pos, runtime, branched>>

-----------------------------------------------------------------------------
(* The runtime.                                                            *)

CallingRuntime(op) ==
  /\ pc = "run" /\ Instr.op = op
  /\ Advance
  /\ UNCHANGED <<program, tool, code, pos, pc, executed, branched>>

Wrap(n) == n % 2^Width

\* Faulty variant: the counts of a block replace older ones.
Replaced(old, new) ==
  [op \in DOMAIN old \cup DOMAIN new |-> IF op \in DOMAIN new THEN new[op] ELSE old[op]]

Added(old, new) ==
  [op \in DOMAIN old \cup DOMAIN new |->
     CASE op \notin DOMAIN new -> old[op]
       [] op \in DOMAIN new \ DOMAIN old -> Wrap(new[op])
       [] OTHER -> Wrap(old[op] + new[op])]

UpdateInstrInfo ==
  /\ CallingRuntime("update")
  /\ instr_map' = Added(instr_map, Instr.counts)
  /\ UNCHANGED <<branch_count, printed, printedBranch>>

PrintOutInstrInfo ==
  /\ CallingRuntime("print")
  /\ printed' = [op \in Ops |-> printed[op] + IF op \in DOMAIN instr_map THEN instr_map[op] ELSE 0]
  /\ instr_map' = Empty
  /\ UNCHANGED <<branch_count, printedBranch>>

\* Faulty variant: only branches that are taken are counted.
UpdateBranchInfoTaken ==
  /\ CallingRuntime("updateBranch")
  /\ branch_count' = [taken |-> branch_count.taken + (IF Active.cond THEN 1 ELSE 0),
                      total |-> branch_count.total + (IF Active.cond THEN 1 ELSE 0)]
  /\ UNCHANGED <<instr_map, printed, printedBranch>>

UpdateBranchInfo ==
  /\ CallingRuntime("updateBranch")
  /\ branch_count' = [taken |-> branch_count.taken + (IF Active.cond THEN 1 ELSE 0),
                      total |-> branch_count.total + 1]
  /\ UNCHANGED <<instr_map, printed, printedBranch>>

PrintOutBranchInfo ==
  /\ CallingRuntime("printBranch")
  /\ printedBranch' = [taken |-> printedBranch.taken + branch_count.taken,
                       total |-> printedBranch.total + branch_count.total]
  /\ branch_count' = NoBranches
  /\ UNCHANGED <<instr_map, printed>>

\* The run has ended, or is at the bound.
Stopped == (pc \in {"returned", "exited"} \/ Total = MaxExecuted) /\ UNCHANGED vars

Next ==
  \/ InstrumentBlock
  \/ Compute \/ Call \/ Exit \/ Branch \/ Return
  \/ UpdateInstrInfo \/ PrintOutInstrInfo \/ UpdateBranchInfo \/ PrintOutBranchInfo
  \/ Stopped

Spec == Init /\ [][Next]_vars

-----------------------------------------------------------------------------
(* Properties.                                                             *)

\* The instructions of the program among some instructions.
Own(instrs) ==
  FlattenSeq([i \in DOMAIN instrs |-> IF instrs[i].op \in RuntimeOps THEN <<>> ELSE <<instrs[i]>>])

\* The state has its types, and without the calls of the runtime the program is what
\* it was.
TypeOK ==
  /\ pos.fn \in DOMAIN program /\ pos.block \in DOMAIN program[pos.fn]
  /\ pc \in {"pass", "run", "returned", "exited"}
  /\ stack = <<>> <=> pc \in {"pass", "returned"}
  /\ \A k \in DOMAIN stack : stack[k].i \in DOMAIN code[stack[k].fn][stack[k].block].code
  /\ DOMAIN instr_map \subseteq Ops
  /\ \A f \in DOMAIN program : \A b \in DOMAIN program[f] :
       code[f][b].succ = program[f][b].succ /\ Own(code[f][b].code) = program[f][b].code

\* The instructions of an activation's block, and those of an opcode among some of them.
CodeOf(a) == code[a.fn][a.block].code
Among(a, from, to, op) == Cardinality({i \in from..to : CodeOf(a)[i].op = op})
Updated(a) == \E i \in 1..(a.i - 1) : CodeOf(a)[i].op = "update"

\* What an activation executed of its block and did not count yet, and what it
\* counted and did not execute yet.
Uncounted(a, op) == IF Updated(a) THEN 0 ELSE Among(a, 1, a.i - 1, op)
Counted(a, op) == IF Updated(a) THEN Among(a, a.i, Len(CodeOf(a)), op) ELSE 0

\* The sum of some numbers, and of what each activation has.
SumOf(s) ==
  LET sum[n \in 0..Len(s)] == IF n = 0 THEN 0 ELSE sum[n - 1] + s[n]
  IN  sum[Len(s)]
InAll(Of(_)) == SumOf([k \in DOMAIN stack |-> Of(stack[k])])

\* Every instruction that was executed is in a report, in the runtime's map, or in a
\* block at hand, once, whichever functions call and report while others are in the
\* middle of a block; up to the width of the counters.
NothingLost ==
  tool = "count" =>
    \A op \in Ops :
      LET counted == IF op \in DOMAIN instr_map THEN instr_map[op] ELSE 0
      IN  Wrap(printed[op] + counted + InAll(LAMBDA a : Uncounted(a, op)))
          = Wrap(executed[op] + InAll(LAMBDA a : Counted(a, op)))

\* A branch that was counted is executed next, in the same direction.
BranchesCounted ==
  tool = "bias" =>
    LET next(a) == a.i > 1 /\ CodeOf(a)[a.i - 1].op = "updateBranch"
    IN  /\ printedBranch.total + branch_count.total
           = branched.total + InAll(LAMBDA a : IF next(a) THEN 1 ELSE 0)
        /\ printedBranch.taken + branch_count.taken
           = branched.taken + InAll(LAMBDA a : IF next(a) /\ a.cond THEN 1 ELSE 0)

\* When main returns, the reports together have everything that was executed.
AllReported ==
  pc = "returned" =>
    /\ tool = "count" => \A op \in Ops : Wrap(printed[op]) = Wrap(executed[op])
    /\ tool = "bias" => printedBranch = branched
=============================================================================
