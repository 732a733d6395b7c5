------------------------ MODULE AnalysisPass_proofs ------------------------
(***************************************************************************)
(* The dataflow pass, for every module and every analysis.  Types need no  *)
(* more than that the module is as LLVM keeps it; facts need an analysis   *)
(* whose edges are closed under it, and soundness one that is Lawful.      *)
(*                                                                         *)
(* Then constant propagation, which is lawful for every width and all      *)
(* names, so that what it prints is true in every module made of its       *)
(* instructions.                                                           *)
(***************************************************************************)
EXTENDS AnalysisPass, ConstantProp, TLAPS

Analysing == {"block", "instructions", "successors"}

\* A position of the module.
Valid(p) ==
  /\ p \in [fn : Nat, block : Nat, i : Nat]
  /\ p.fn \in DOMAIN module
  /\ p.block \in DOMAIN module[p.fn].name
  /\ p.i \in DOMAIN module[p.fn].code[p.block]

\* The last position of a block.
LastOf(k, b) == Position(k, b, Len(module[k].code[b]))

\* The position before another in its block.
Before(p) == Position(p.fn, p.block, p.i - 1)

\* The analyses s kept under a name.
Entries(s, name) ==
  /\ s \in Seq(Range(s))
  /\ \A j \in 1..Len(s) :
       /\ s[j] = [at |-> s[j].at, in |-> s[j].in]
       /\ Valid(s[j].at)
       /\ NameOf(s[j].at.fn, s[j].at.block) = name
       /\ j > 1 => s[j].at.i = 1 \/ s[j - 1].at = Before(s[j].at)

\* What TypeOK says of the variables, with the state that it leaves out.
Types ==
  /\ module \in Module
  /\ pos \in [fn : Nat, block : Nat, i : Nat]
  /\ pos.fn \in DOMAIN module
  /\ pos.block \in DOMAIN module[pos.fn].name
  /\ pc \in {"block", "instructions", "successors", "done", "crashed", "run", "returned"}
  /\ pc \in {"block", "instructions", "run"} => pos.i \in DOMAIN module[pos.fn].code[pos.block]
  /\ pc = "block" => pos.i = 1
  /\ pc = "block" => visitedBlocks = 1..(pos.block - 1)
  /\ pc = "crashed" => visitedBlocks \in {1..(pos.block - 1), 1..pos.block}
  /\ pc \in {"instructions", "successors"} => visitedBlocks = 1..pos.block
  /\ DOMAIN blockInstAnalysis = BlockName
  /\ \A n \in BlockName : Entries(blockInstAnalysis[n], n)

LastIs(s, p) == Len(s) > 0 /\ s[Len(s)].at = p

\* The last analysis of a block that was visited is that of its last instruction,
\* that of the block at hand of the instruction before.
Ends ==
  /\ pc \in Analysing =>
       \A b \in visitedBlocks : ~(b = pos.block /\ pc = "instructions") =>
         LastIs(blockInstAnalysis[NameOf(pos.fn, b)], LastOf(pos.fn, b))
  /\ pc = "instructions" /\ pos.i > 1 =>
       LastIs(blockInstAnalysis[NameOf(pos.fn, pos.block)], Before(pos))

-----------------------------------------------------------------------------

\* The functions of a module are as ModuleAssumption says.
LEMMA ModuleShape ==
  ASSUME NEW m \in Module
  PROVE  /\ m \in Seq(Range(m)) /\ Len(m) > 0 /\ DOMAIN m = 1..Len(m)
         /\ \A k \in DOMAIN m :
              /\ m[k].name \in Seq(Range(m[k].name)) /\ Len(m[k].name) > 0
              /\ DOMAIN m[k].name = 1..Len(m[k].name)
              /\ IsInjective(m[k].name)
              /\ DOMAIN m[k].succ = DOMAIN m[k].name
              /\ DOMAIN m[k].preds = DOMAIN m[k].name
              /\ DOMAIN m[k].code = DOMAIN m[k].name
              /\ \A b \in DOMAIN m[k].name :
                   /\ m[k].code[b] \in Seq(Range(m[k].code[b])) /\ Len(m[k].code[b]) \in Nat \ {0}
                   /\ DOMAIN m[k].code[b] = 1..Len(m[k].code[b])
                   /\ m[k].succ[b] \in Seq(DOMAIN m[k].name)
                   /\ m[k].preds[b] \in Seq(Range(m[k].preds[b]))
                   /\ Range(m[k].preds[b]) = {p \in DOMAIN m[k].name : b \in Range(m[k].succ[p])}
                   /\ m[k].name[b] \in BlockName
<1>1. m \in Seq(Range(m)) /\ m # <<>>
  BY ModuleAssumption DEF IsSequence
<1>2. Len(m) > 0 /\ DOMAIN m = 1..Len(m)
  BY <1>1
<1>3. SUFFICES ASSUME NEW k \in DOMAIN m
               PROVE  /\ m[k].name \in Seq(Range(m[k].name)) /\ Len(m[k].name) > 0
                      /\ DOMAIN m[k].name = 1..Len(m[k].name)
                      /\ IsInjective(m[k].name)
                      /\ DOMAIN m[k].succ = DOMAIN m[k].name
                      /\ DOMAIN m[k].preds = DOMAIN m[k].name
                      /\ DOMAIN m[k].code = DOMAIN m[k].name
                      /\ \A b \in DOMAIN m[k].name :
                           /\ m[k].code[b] \in Seq(Range(m[k].code[b])) /\ Len(m[k].code[b]) \in Nat \ {0}
                           /\ DOMAIN m[k].code[b] = 1..Len(m[k].code[b])
                           /\ m[k].succ[b] \in Seq(DOMAIN m[k].name)
                           /\ m[k].preds[b] \in Seq(Range(m[k].preds[b]))
                           /\ Range(m[k].preds[b]) = {p \in DOMAIN m[k].name : b \in Range(m[k].succ[p])}
                           /\ m[k].name[b] \in BlockName
  BY <1>1, <1>2
<1> DEFINE f == m[k]
<1>4. /\ IsSequence(f.name) /\ f.name # <<>> /\ IsInjective(f.name)
      /\ {DOMAIN f.succ, DOMAIN f.preds, DOMAIN f.code} = {DOMAIN f.name}
      /\ \A b \in DOMAIN f.name :
           /\ IsSequence(f.code[b]) /\ f.code[b] # <<>>
           /\ f.succ[b] \in Seq(DOMAIN f.name)
           /\ IsSequence(f.preds[b])
           /\ Range(f.preds[b]) = {p \in DOMAIN f.name : b \in Range(f.succ[p])}
  BY ModuleAssumption
<1>5. \A b \in DOMAIN f.name : f.name[b] \in BlockName
  BY DEF BlockName, Range
<1>6. DOMAIN f.succ = DOMAIN f.name /\ DOMAIN f.preds = DOMAIN f.name /\ DOMAIN f.code = DOMAIN f.name
  BY <1>4
<1>7. f.name \in Seq(Range(f.name)) /\ Len(f.name) > 0 /\ DOMAIN f.name = 1..Len(f.name)
  BY <1>4 DEF IsSequence
<1>8. \A b \in DOMAIN f.name :
        f.code[b] \in Seq(Range(f.code[b])) /\ Len(f.code[b]) \in Nat \ {0} /\ DOMAIN f.code[b] = 1..Len(f.code[b])
  <2> TAKE b \in DOMAIN f.name
  <2>1. f.code[b] \in Seq(Range(f.code[b])) /\ f.code[b] # <<>>
    BY <1>4 DEF IsSequence
  <2> HIDE DEF f
  <2> QED BY <2>1
<1>9. \A b \in DOMAIN f.name :
        /\ f.succ[b] \in Seq(DOMAIN f.name)
        /\ f.preds[b] \in Seq(Range(f.preds[b]))
        /\ Range(f.preds[b]) = {p \in DOMAIN f.name : b \in Range(f.succ[p])}
  BY <1>4 DEF IsSequence
<1> QED BY <1>4, <1>5, <1>6, <1>7, <1>8, <1>9

\* A function has a first block, and its blocks have their successors.
LEMMA FunctionShape ==
  ASSUME NEW m \in Module, NEW k \in DOMAIN m
  PROVE  /\ k \in Nat /\ k \in 1..Len(m)
         /\ 1 \in DOMAIN m[k].name
         /\ DOMAIN m[k].name = 1..Len(m[k].name)
         /\ DOMAIN m[k].succ = DOMAIN m[k].name
         /\ \A b \in DOMAIN m[k].name : DOMAIN m[k].succ[b] \subseteq Nat
<1>1. Len(m) \in Nat /\ DOMAIN m = 1..Len(m)
  BY ModuleShape
<1>2. Len(m[k].name) \in Nat /\ Len(m[k].name) > 0 /\ DOMAIN m[k].name = 1..Len(m[k].name)
  BY ModuleShape
<1>3. DOMAIN m[k].succ = DOMAIN m[k].name
  BY ModuleShape
<1>4. ASSUME NEW b \in DOMAIN m[k].name PROVE DOMAIN m[k].succ[b] \subseteq Nat
  <2>1. m[k].succ[b] \in Seq(DOMAIN m[k].name)
    BY ModuleShape
  <2> QED BY <2>1
<1> QED BY <1>1, <1>2, <1>3, <1>4

\* A block has a first instruction, and a last one.
LEMMA BlockShape ==
  ASSUME NEW m \in Module, NEW k \in DOMAIN m, NEW b \in DOMAIN m[k].name
  PROVE  /\ b \in Nat
         /\ 1 \in DOMAIN m[k].code[b]
         /\ Len(m[k].code[b]) \in Nat \ {0}
         /\ DOMAIN m[k].code[b] = 1..Len(m[k].code[b])
<1>1. b \in Nat
  BY FunctionShape
<1>2. Len(m[k].code[b]) \in Nat \ {0} /\ DOMAIN m[k].code[b] = 1..Len(m[k].code[b])
  BY ModuleShape
<1> QED BY <1>1, <1>2

\* The types of the proofs are those that the runs check, and more.
LEMMA TypesGiveTypeOK == Types => TypeOK
<1> SUFFICES ASSUME Types PROVE TypeOK
  OBVIOUS
<1>1. ASSUME NEW n \in BlockName, NEW j \in DOMAIN blockInstAnalysis[n]
      PROVE  LET p == blockInstAnalysis[n][j].at
             IN  /\ NameOf(p.fn, p.block) = n
                 /\ j > 1 => \/ p.i = 1
                             \/ blockInstAnalysis[n][j - 1].at = Position(p.fn, p.block, p.i - 1)
  <2>1. Entries(blockInstAnalysis[n], n)
    BY DEF Types
  <2>2. j \in 1..Len(blockInstAnalysis[n])
    BY <2>1 DEF Entries
  <2> QED BY <2>1, <2>2 DEF Entries, Before
<1>2. \A n \in BlockName : \A i \in DOMAIN blockInstAnalysis[n] :
        LET p == blockInstAnalysis[n][i].at
        IN  /\ NameOf(p.fn, p.block) = n
            /\ i > 1 => \/ p.i = 1
                        \/ blockInstAnalysis[n][i - 1].at = Position(p.fn, p.block, p.i - 1)
  BY <1>1
<1> QED BY <1>2, Zenon DEF Types, TypeOK

-----------------------------------------------------------------------------
(* One more analysis, and one that is made anew.                           *)

\* An analysis may be appended to those of its name when the one before it in its
\* block, or nothing of the block, is the last of them.
LEMMA EntriesAppended ==
  ASSUME NEW s, NEW name, Entries(s, name),
         NEW p, Valid(p), NameOf(p.fn, p.block) = name, NEW e,
         p.i = 1 \/ (Len(s) > 0 /\ s[Len(s)].at = Before(p))
  PROVE  LET t == Append(s, [at |-> p, in |-> e])
         IN  /\ Entries(t, name)
             /\ Len(t) = Len(s) + 1
             /\ \A j \in 1..Len(s) : t[j] = s[j]
             /\ t[Len(t)] = [at |-> p, in |-> e]
             /\ Range(t) = Range(s) \cup {[at |-> p, in |-> e]}
<1> DEFINE new == [at |-> p, in |-> e]
           R == Range(s) \cup {new}
           t == Append(s, new)
<1>1. s \in Seq(R) /\ new \in R
  <2>1. s \in Seq(Range(s))
    BY DEF Entries
  <2> QED BY <2>1
<1>2. Len(s) \in Nat
  BY <1>1
<1>3. /\ t \in Seq(R) /\ Len(t) = Len(s) + 1
      /\ \A j \in 1..Len(s) : t[j] = s[j]
      /\ t[Len(s) + 1] = new
  <2> HIDE DEF R, new
  <2> QED BY <1>1
<1>4. DOMAIN t = 1..Len(t) /\ DOMAIN s = 1..Len(s)
  <2> HIDE DEF R, new
  <2> QED BY <1>1, <1>3
<1>5. Range(t) = R
  <2>1. Range(t) \subseteq R
    <3> HIDE DEF R, new
    <3> QED BY <1>3, <1>4 DEF Range
  <2>2. Range(s) \subseteq Range(t)
    BY <1>2, <1>3, <1>4 DEF Range
  <2>3. new \in Range(t)
    <3>1. Len(t) \in DOMAIN t /\ t[Len(t)] = new
      BY <1>2, <1>3, <1>4
    <3> HIDE DEF new, t
    <3> QED BY <3>1 DEF Range
  <2> QED BY <2>1, <2>2, <2>3
<1>6. ASSUME NEW j \in 1..Len(t)
      PROVE  /\ t[j] = [at |-> t[j].at, in |-> t[j].in]
             /\ Valid(t[j].at)
             /\ NameOf(t[j].at.fn, t[j].at.block) = name
             /\ j > 1 => t[j].at.i = 1 \/ t[j - 1].at = Before(t[j].at)
  <2>1. CASE j \in 1..Len(s)
    <3>1. t[j] = s[j] /\ (j > 1 => t[j - 1] = s[j - 1])
      BY <1>2, <1>3, <2>1
    <3> HIDE DEF t
    <3> QED BY <2>1, <3>1 DEF Entries
  <2>2. CASE j = Len(s) + 1
    <3>1. t[j] = new /\ t[j].at = p /\ t[j].in = e
      BY <1>3, <2>2
    <3>2. j > 1 => t[j - 1] = s[Len(s)] /\ Len(s) > 0
      BY <1>2, <1>3, <2>2
    <3> HIDE DEF t
    <3> QED BY <3>1, <3>2
  <2> QED BY <1>2, <1>3, <2>1, <2>2
<1>7. t[Len(t)] = new
  BY <1>3
<1> HIDE DEF t, R
<1>8. Entries(t, name)
  BY <1>3, <1>5, <1>6 DEF Entries
<1> QED BY <1>3, <1>5, <1>7, <1>8 DEF R, t

\* A new incoming edge of the first analysis of a name moves none of them.
LEMMA EntriesLooped ==
  ASSUME NEW s, NEW name, Entries(s, name), NEW e
  PROVE  LET t == [s EXCEPT ![1].in = e]
         IN  /\ Entries(t, name)
             /\ Len(t) = Len(s)
             /\ \A j \in 1..Len(s) : t[j].at = s[j].at /\ (j > 1 => t[j] = s[j])
<1> DEFINE t == [s EXCEPT ![1].in = e]
<1>1. s \in Seq(Range(s))
  BY DEF Entries
<1>2. DOMAIN s = 1..Len(s) /\ Len(s) \in Nat
  BY <1>1
<1>3. DOMAIN t = 1..Len(s) /\ t = [j \in 1..Len(s) |-> t[j]]
  BY <1>2
<1>4. \A j \in 1..Len(s) : t[j] \in Range(t)
  BY <1>3 DEF Range
<1>5. t \in Seq(Range(t)) /\ Len(t) = Len(s)
  <2> HIDE DEF t
  <2>1. t \in [1..Len(s) -> Range(t)]
    BY <1>3, <1>4
  <2> QED BY <1>2, <1>3, <2>1
<1>6. \A j \in 1..Len(s) : j # 1 => t[j] = s[j]
  BY <1>2
<1>7. 1 \in 1..Len(s) => t[1] = [at |-> s[1].at, in |-> e]
  <2>1. 1 \in 1..Len(s) => s[1] = [at |-> s[1].at, in |-> s[1].in]
    BY DEF Entries
  <2>2. 1 \in 1..Len(s) => t[1] = [s[1] EXCEPT !.in = e]
    BY <1>2
  <2> HIDE DEF t
  <2> QED BY <2>1, <2>2
<1>8. ASSUME NEW j \in 1..Len(s)
      PROVE  t[j].at = s[j].at /\ t[j] = [at |-> t[j].at, in |-> t[j].in]
  <2> HIDE DEF t
  <2> QED BY <1>6, <1>7 DEF Entries
<1>9. ASSUME NEW j \in 1..Len(s)
      PROVE  /\ Valid(t[j].at)
             /\ NameOf(t[j].at.fn, t[j].at.block) = name
             /\ j > 1 => t[j].at.i = 1 \/ t[j - 1].at = Before(t[j].at)
  <2>1. t[j].at = s[j].at /\ (j > 1 => t[j - 1].at = s[j - 1].at)
    BY <1>2, <1>8
  <2> HIDE DEF t
  <2> QED BY <2>1 DEF Entries
<1> HIDE DEF t
<1>10. Entries(t, name)
  BY <1>5, <1>8, <1>9 DEF Entries
<1> QED BY <1>5, <1>6, <1>8, <1>10 DEF t

-----------------------------------------------------------------------------
(* The types and the last analyses are kept.                               *)

\* Nothing is analysed in the first state.
LEMMA StartsTyped == Init => Types /\ Ends
<1> SUFFICES ASSUME Init PROVE Types /\ Ends
  OBVIOUS
<1>1. module \in Module /\ pos = [fn |-> 1, block |-> 1, i |-> 1] /\ pc = "block" /\ visitedBlocks = {}
  BY DEF Init, Position
<1>2. pos.fn = 1 /\ pos.block = 1 /\ pos.i = 1
  BY <1>1
<1>3. /\ 1 \in DOMAIN module
      /\ 1 \in DOMAIN module[1].name
      /\ 1 \in DOMAIN module[1].code[1]
  <2>1. 1 \in DOMAIN module
    BY <1>1, ModuleShape
  <2>2. 1 \in DOMAIN module[1].name
    BY <1>1, <2>1, ModuleShape
  <2> QED BY <1>1, <2>1, <2>2, ModuleShape
<1>4. DOMAIN blockInstAnalysis = BlockName /\ \A n \in BlockName : blockInstAnalysis[n] = <<>>
  BY DEF Init
<1>5. \A n \in BlockName : Entries(blockInstAnalysis[n], n)
  <2>1. <<>> \in Seq(Range(<<>>)) /\ Len(<<>>) = 0 /\ 1..0 = {}
    OBVIOUS
  <2>2. \A n : Entries(<<>>, n)
    BY <2>1, Zenon DEF Entries
  <2> QED BY <1>4, <2>2
<1>6. Types
  BY <1>1, <1>2, <1>3, <1>4, <1>5 DEF Types
<1>7. Ends
  BY <1>1, <1>2 DEF Ends
<1> QED BY <1>6, <1>7

\* What does not touch the module means the same after a step.
LEMMA SameModule ==
  ASSUME module' = module
  PROVE  /\ \A p : Valid(p)' <=> Valid(p)
         /\ \A k, b : NameOf(k, b)' = NameOf(k, b) /\ LastOf(k, b)' = LastOf(k, b)
         /\ \A s, n : Entries(s, n)' <=> Entries(s, n)
<1>1. \A p : Valid(p)' <=> Valid(p)
  BY DEF Valid
<1>2. \A k, b : NameOf(k, b)' = NameOf(k, b) /\ LastOf(k, b)' = LastOf(k, b)
  BY DEF NameOf, LastOf
<1> QED BY <1>1, <1>2 DEF Entries

\* The blocks of one function have different names.
LEMMA NamesDiffer ==
  ASSUME Types, NEW k \in DOMAIN module, NEW b \in DOMAIN module[k].name
  PROVE  /\ NameOf(k, b) \in BlockName
         /\ \A c \in DOMAIN module[k].name : NameOf(k, b) = NameOf(k, c) => b = c
<1>1. module \in Module
  BY DEF Types
<1>2. IsInjective(module[k].name) /\ module[k].name[b] \in BlockName
  BY <1>1, ModuleShape
<1> QED BY <1>2 DEF NameOf, IsInjective

\* The next block becomes the block at hand, or the pass crashes.
LEMMA EnterBlockTyped ==
  ASSUME Types, Ends, EnterBlock
  PROVE  Types' /\ Ends'
<1>1. /\ module' = module /\ blockInstAnalysis' = blockInstAnalysis /\ pos' = pos
      /\ pc = "block"
      /\ \/ pc' = "crashed" /\ visitedBlocks' = visitedBlocks
         \/ pc' = "instructions" /\ visitedBlocks' = visitedBlocks \cup {pos.block}
  BY DEF EnterBlock
<1>2. pos.block \in Nat /\ pos.i = 1 /\ visitedBlocks = 1..(pos.block - 1)
  BY <1>1 DEF Types
<1>3. pos.block \in 1..pos.block
  <2>1. module \in Module /\ pos.fn \in DOMAIN module /\ pos.block \in DOMAIN module[pos.fn].name
    BY DEF Types
  <2> QED BY <2>1, <1>2, ModuleShape
<1>4. visitedBlocks \cup {pos.block} = 1..pos.block
  BY <1>2, <1>3
<1>5. \A n \in BlockName : Entries(blockInstAnalysis[n], n)'
  BY <1>1, SameModule DEF Types
<1>6. Types'
  BY <1>1, <1>2, <1>4, <1>5 DEF Types
<1>7. Ends'
  BY <1>1, <1>2, <1>4, SameModule DEF Ends, LastIs, Analysing
<1> QED BY <1>6, <1>7

\* The analysis of an instruction follows that of the instruction before it, and the
\* last of a block completes the block.
LEMMA AnalyseInstructionTyped ==
  ASSUME Types, Ends, AnalyseInstruction
  PROVE  Types' /\ Ends'
<1> DEFINE name == NameOf(pos.fn, pos.block)
           s == blockInstAnalysis[name]
           new == [at |-> pos, in |-> incomingEdge]
<1>1. /\ module' = module /\ visitedBlocks' = visitedBlocks /\ pc = "instructions"
      /\ blockInstAnalysis' = [blockInstAnalysis EXCEPT ![name] = Append(s, new)]
  BY DEF AnalyseInstruction
<1>2. /\ module \in Module /\ pos.fn \in DOMAIN module /\ pos.block \in DOMAIN module[pos.fn].name
      /\ pos \in [fn : Nat, block : Nat, i : Nat] /\ Valid(pos)
      /\ visitedBlocks = 1..pos.block /\ DOMAIN blockInstAnalysis = BlockName
      /\ Entries(s, name)
  BY <1>1, NamesDiffer DEF Types, Valid
<1>3. name \in BlockName /\ pos.block \in Nat /\ pos.i \in 1..Len(module[pos.fn].code[pos.block])
  BY <1>2, NamesDiffer, ModuleShape DEF Valid
<1>4. pos.i = 1 \/ (Len(s) > 0 /\ s[Len(s)].at = Before(pos))
  BY <1>1, <1>3 DEF Ends, LastIs
<1>5. /\ Entries(Append(s, new), name)
      /\ Len(Append(s, new)) = Len(s) + 1
      /\ Append(s, new)[Len(s) + 1] = new
  BY <1>2, <1>4, EntriesAppended
<1>6. Len(s) \in Nat
  BY <1>2 DEF Entries
<1>7. /\ DOMAIN blockInstAnalysis' = BlockName
      /\ blockInstAnalysis'[name] = Append(s, new)
      /\ \A n \in BlockName : n # name => blockInstAnalysis'[n] = blockInstAnalysis[n]
  BY <1>1, <1>2, <1>3
<1> HIDE DEF s, new, name
<1>8. \A n \in BlockName : Entries(blockInstAnalysis[n], n)'
  BY <1>1, <1>5, <1>7, SameModule DEF Types
<1>9. LastIs(blockInstAnalysis'[name], pos)
  BY <1>5, <1>6, <1>7 DEF LastIs, new
<1>10. \A b \in visitedBlocks : b # pos.block =>
         /\ LastIs(blockInstAnalysis[NameOf(pos.fn, b)], LastOf(pos.fn, b))
         /\ NameOf(pos.fn, b) \in BlockName \ {name}
  <2> TAKE b \in visitedBlocks
  <2>1. b \in DOMAIN module[pos.fn].name
    BY <1>2, <1>3, ModuleShape
  <2>2. NameOf(pos.fn, b) \in BlockName /\ (b # pos.block => NameOf(pos.fn, b) # name)
    BY <1>2, <2>1, NamesDiffer DEF name
  <2> QED BY <1>1, <2>2 DEF Ends, Analysing
<1>11. \A b \in visitedBlocks : b # pos.block =>
         LastIs(blockInstAnalysis'[NameOf(pos.fn, b)], LastOf(pos.fn, b))
  BY <1>7, <1>10
<1>12. CASE pos.i < Len(module[pos.fn].code[pos.block])
  <2>1. pos' = [pos EXCEPT !.i = @ + 1] /\ pc' = "instructions"
    BY <1>1, <1>12 DEF AnalyseInstruction
  <2>2. pos' \in [fn : Nat, block : Nat, i : Nat] /\ pos'.fn = pos.fn /\ pos'.block = pos.block
        /\ pos'.i = pos.i + 1 /\ Before(pos') = pos
    BY <1>2, <2>1 DEF Before, Position
  <2>3. pos'.i \in DOMAIN module[pos.fn].code[pos.block]
    BY <1>2, <1>3, <1>12, <2>2, ModuleShape
  <2>4. Types'
    BY <1>1, <1>2, <1>7, <1>8, <2>1, <2>2, <2>3 DEF Types
  <2>5. LastIs(blockInstAnalysis'[NameOf(pos.fn, pos.block)], Before(pos'))
    BY <1>9, <2>2 DEF name
  <2>6. Ends'
    BY <1>1, <1>11, <2>1, <2>2, <2>5, SameModule DEF Ends, Before
  <2> QED BY <2>4, <2>6
<1>13. CASE ~(pos.i < Len(module[pos.fn].code[pos.block]))
  <2>1. pos' = [pos EXCEPT !.i = 1] /\ pc' = "successors"
    BY <1>1, <1>13 DEF AnalyseInstruction
  <2>2. pos' \in [fn : Nat, block : Nat, i : Nat] /\ pos'.fn = pos.fn /\ pos'.block = pos.block
    BY <1>2, <2>1
  <2>3. pos = LastOf(pos.fn, pos.block)
    BY <1>2, <1>3, <1>13, ModuleShape DEF LastOf, Position
  <2>4. Types'
    BY <1>1, <1>2, <1>7, <1>8, <2>1, <2>2 DEF Types
  <2>5. LastIs(blockInstAnalysis'[NameOf(pos.fn, pos.block)], LastOf(pos.fn, pos.block))
    BY <1>9, <2>3 DEF name
  <2>6. Ends'
    BY <1>1, <1>11, <2>1, <2>2, <2>5, SameModule DEF Ends
  <2> QED BY <2>4, <2>6
<1> QED BY <1>12, <1>13

\* blockLoop changes the incoming edge of one analysis, of no instruction that the
\* block at hand still has to find.
LEMMA LoopKeepsPlaces ==
  ASSUME Types, pc = "successors", CheckSuccessor
  PROVE  /\ DOMAIN blockInstAnalysis' = BlockName
         /\ \A n \in BlockName :
              LET s == blockInstAnalysis[n]
                  t == blockInstAnalysis'[n]
              IN  /\ Entries(t, n)
                  /\ Len(t) = Len(s)
                  /\ \A j \in 1..Len(s) : t[j].at = s[j].at /\ (j > 1 => t[j] = s[j])
<1> DEFINE start == module[pos.fn].succ[pos.block][pos.i]
<1>1. CASE UNCHANGED blockInstAnalysis
  BY <1>1 DEF Types
<1>2. CASE start \in visitedBlocks /\ BlockLoop(start)
  <2> DEFINE name == NameOf(pos.fn, start)
             merged == Merged(Edges(pos.fn, start))
  <2>1. blockInstAnalysis' = [blockInstAnalysis EXCEPT ![name] = [blockInstAnalysis[name] EXCEPT ![1].in = merged]]
    BY <1>2 DEF BlockLoop
  <2> HIDE DEF name, merged
  <2>2. DOMAIN blockInstAnalysis' = BlockName
    BY <2>1 DEF Types
  <2> SUFFICES ASSUME NEW n \in BlockName
               PROVE  LET s == blockInstAnalysis[n]
                          t == blockInstAnalysis'[n]
                      IN  /\ Entries(t, n)
                          /\ Len(t) = Len(s)
                          /\ \A j \in 1..Len(s) : t[j].at = s[j].at /\ (j > 1 => t[j] = s[j])
    BY <2>2
  <2>3. Entries(blockInstAnalysis[n], n)
    BY DEF Types
  <2>4. CASE n = name
    <3>1. blockInstAnalysis'[n] = [blockInstAnalysis[n] EXCEPT ![1].in = merged]
      BY <2>1, <2>4 DEF Types
    <3>2. LET t == [blockInstAnalysis[n] EXCEPT ![1].in = merged]
          IN  /\ Entries(t, n)
              /\ Len(t) = Len(blockInstAnalysis[n])
              /\ \A j \in 1..Len(blockInstAnalysis[n]) :
                   t[j].at = blockInstAnalysis[n][j].at /\ (j > 1 => t[j] = blockInstAnalysis[n][j])
      BY <2>3, EntriesLooped
    <3> DEFINE t == [blockInstAnalysis[n] EXCEPT ![1].in = merged]
    <3>3. blockInstAnalysis'[n] = t
      BY <3>1
    <3> HIDE DEF t
    <3>4. /\ Entries(t, n)
          /\ Len(t) = Len(blockInstAnalysis[n])
          /\ \A j \in 1..Len(blockInstAnalysis[n]) :
               t[j].at = blockInstAnalysis[n][j].at /\ (j > 1 => t[j] = blockInstAnalysis[n][j])
      BY <3>2 DEF t
    <3> QED BY <3>3, <3>4
  <2>5. CASE n # name
    <3>1. blockInstAnalysis'[n] = blockInstAnalysis[n]
      BY <2>1, <2>5 DEF Types
    <3> QED BY <2>3, <3>1
  <2> QED BY <2>4, <2>5
<1> QED BY <1>1, <1>2 DEF CheckSuccessor

\* A loop moves no analysis.
LEMMA CheckSuccessorTyped ==
  ASSUME Types, Ends, CheckSuccessor
  PROVE  Types' /\ Ends'
<1>1. /\ module' = module /\ visitedBlocks' = visitedBlocks /\ pc = "successors" /\ pc' = pc
      /\ pos' = [pos EXCEPT !.i = @ + 1]
  BY DEF CheckSuccessor
<1>2. /\ module \in Module /\ pos.fn \in DOMAIN module /\ pos.block \in DOMAIN module[pos.fn].name
      /\ pos' \in [fn : Nat, block : Nat, i : Nat] /\ pos'.fn = pos.fn /\ pos'.block = pos.block
      /\ visitedBlocks = 1..pos.block
  BY <1>1 DEF Types
<1>3. /\ DOMAIN blockInstAnalysis' = BlockName
      /\ \A n \in BlockName : Entries(blockInstAnalysis'[n], n)
      /\ \A n \in BlockName : Len(blockInstAnalysis'[n]) = Len(blockInstAnalysis[n])
      /\ \A n \in BlockName : \A j \in 1..Len(blockInstAnalysis[n]) :
           blockInstAnalysis'[n][j].at = blockInstAnalysis[n][j].at
  BY <1>1, LoopKeepsPlaces
<1>4. \A n \in BlockName : Entries(blockInstAnalysis[n], n)'
  BY <1>1, <1>3, SameModule
<1>5. Types'
  BY <1>1, <1>2, <1>3, <1>4 DEF Types
<1>6. ASSUME NEW b \in visitedBlocks
      PROVE  LastIs(blockInstAnalysis'[NameOf(pos.fn, b)], LastOf(pos.fn, b))
  <2>1. b \in DOMAIN module[pos.fn].name
    BY <1>2, ModuleShape
  <2>2. NameOf(pos.fn, b) \in BlockName
    BY <1>2, <2>1, NamesDiffer
  <2>3. LastIs(blockInstAnalysis[NameOf(pos.fn, b)], LastOf(pos.fn, b))
    BY <1>1 DEF Ends, Analysing
  <2>4. Len(blockInstAnalysis[NameOf(pos.fn, b)]) \in Nat
    BY <2>2 DEF Types, Entries
  <2> QED BY <1>3, <2>2, <2>3, <2>4 DEF LastIs
<1>7. Ends'
  BY <1>1, <1>2, <1>6, SameModule DEF Ends
<1> QED BY <1>5, <1>7

\* A block is left when it is complete.
LEMMA NextBlockTyped ==
  ASSUME Types, Ends, NextBlock
  PROVE  Types' /\ Ends'
<1>1. /\ module' = module /\ blockInstAnalysis' = blockInstAnalysis /\ pc = "successors"
      /\ \/ /\ pos.block < Len(module[pos.fn].name)
            /\ pos' = Position(pos.fn, pos.block + 1, 1) /\ pc' = "block"
            /\ visitedBlocks' = visitedBlocks
         \/ /\ pos.fn < Len(module)
            /\ pos' = Position(pos.fn + 1, 1, 1) /\ pc' = "block"
            /\ visitedBlocks' = {}
         \/ pc' = "done" /\ pos' = pos
  BY DEF NextBlock
<1>2. /\ module \in Module /\ pos.fn \in DOMAIN module /\ pos.block \in DOMAIN module[pos.fn].name
      /\ pos \in [fn : Nat, block : Nat, i : Nat] /\ visitedBlocks = 1..pos.block
      /\ DOMAIN blockInstAnalysis = BlockName
  BY <1>1 DEF Types
<1>3. pos.fn \in 1..Len(module) /\ pos.block \in 1..Len(module[pos.fn].name)
      /\ Len(module) \in Nat /\ Len(module[pos.fn].name) \in Nat
  BY <1>2, ModuleShape
<1>4. \A n \in BlockName : Entries(blockInstAnalysis[n], n)'
  BY <1>1, SameModule DEF Types
<1>5. CASE /\ pos.block < Len(module[pos.fn].name)
           /\ pos' = Position(pos.fn, pos.block + 1, 1) /\ pc' = "block"
           /\ visitedBlocks' = visitedBlocks
  <2>1. pos' \in [fn : Nat, block : Nat, i : Nat] /\ pos'.fn = pos.fn /\ pos'.block = pos.block + 1 /\ pos'.i = 1
    BY <1>2, <1>5 DEF Position
  <2>2. pos'.block \in DOMAIN module[pos.fn].name
    BY <1>2, <1>3, <1>5, <2>1, ModuleShape
  <2>3. 1 \in DOMAIN module[pos.fn].code[pos'.block]
    BY <1>2, <2>2, ModuleShape
  <2>4. Types'
    BY <1>1, <1>2, <1>3, <1>4, <1>5, <2>1, <2>2, <2>3 DEF Types
  <2>5. Ends'
    BY <1>1, <1>5, <2>1, SameModule DEF Ends, Analysing
  <2> QED BY <2>4, <2>5
<1>6. CASE /\ pos.fn < Len(module)
           /\ pos' = Position(pos.fn + 1, 1, 1) /\ pc' = "block"
           /\ visitedBlocks' = {}
  <2>1. pos' \in [fn : Nat, block : Nat, i : Nat] /\ pos'.fn = pos.fn + 1 /\ pos'.block = 1 /\ pos'.i = 1
    BY <1>2, <1>6 DEF Position
  <2>2. pos'.fn \in DOMAIN module
    BY <1>2, <1>3, <1>6, <2>1, ModuleShape
  <2>3. 1 \in DOMAIN module[pos'.fn].name
    BY <1>2, <2>2, ModuleShape
  <2>4. 1 \in DOMAIN module[pos'.fn].code[1]
    BY <1>2, <2>2, <2>3, ModuleShape
  <2>5. Types'
    BY <1>1, <1>2, <1>4, <1>6, <2>1, <2>2, <2>3, <2>4 DEF Types
  <2>6. Ends'
    BY <1>6 DEF Ends
  <2> QED BY <2>5, <2>6
<1>7. CASE pc' = "done" /\ pos' = pos
  <2>1. Types'
    BY <1>1, <1>2, <1>4, <1>7 DEF Types
  <2>2. Ends'
    BY <1>7 DEF Ends, Analysing
  <2> QED BY <2>1, <2>2
<1> QED BY <1>1, <1>5, <1>6, <1>7

\* The steps that keep the analyses and do not go on with the pass.
LEMMA OthersTyped ==
  ASSUME Types, Ends, DivideByZero \/ LoopDividesByZero \/ Call \/ Execute \/ Trap \/ Jump \/ Return \/ UNCHANGED vars
  PROVE  Types' /\ Ends'
<1>1. module' = module /\ blockInstAnalysis' = blockInstAnalysis /\ visitedBlocks' = visitedBlocks
  BY DEF DivideByZero, LoopDividesByZero, Call, Execute, Trap, Jump, Return, vars
<1>2. \A n \in BlockName : Entries(blockInstAnalysis[n], n)'
  BY <1>1, SameModule DEF Types
<1>3. module \in Module /\ pos.fn \in DOMAIN module /\ pos.block \in DOMAIN module[pos.fn].name
  BY DEF Types
<1>4. CASE pos' = pos /\ (pc' = pc \/ (pc' = "crashed" /\ pc \in {"instructions", "successors"}) \/ pc' = "returned")
  <2>1. Types'
    BY <1>1, <1>2, <1>4 DEF Types
  <2>2. Ends'
    BY <1>1, <1>4, SameModule DEF Ends, Analysing
  <2> QED BY <2>1, <2>2
<1>5. CASE pc' = "run" /\ Valid(pos')
  <2>1. Types'
    BY <1>1, <1>2, <1>5 DEF Types, Valid
  <2>2. Ends'
    BY <1>5 DEF Ends, Analysing
  <2> QED BY <2>1, <2>2
<1>6. ASSUME Call PROVE Valid(pos')
  <2>1. PICK k \in DOMAIN module : pos' = Position(k, 1, 1)
    BY <1>6 DEF Call
  <2>2. k \in Nat /\ 1 \in DOMAIN module[k].name /\ 1 \in DOMAIN module[k].code[1]
    <3>1. k \in Nat /\ 1 \in DOMAIN module[k].name
      BY <1>3, <2>1, FunctionShape
    <3>2. 1 \in DOMAIN module[k].code[1]
      BY <1>3, <3>1, BlockShape
    <3> QED BY <3>1, <3>2
  <2> QED BY <2>1, <2>2 DEF Valid, Position
<1>7. ASSUME Execute PROVE Valid(pos')
  <2>1. pos' = [pos EXCEPT !.i = @ + 1] /\ pos.i < Len(module[pos.fn].code[pos.block]) /\ pc = "run"
    BY <1>7 DEF Execute
  <2>2. pos \in [fn : Nat, block : Nat, i : Nat] /\ pos.i \in DOMAIN module[pos.fn].code[pos.block]
    BY <2>1 DEF Types
  <2>3. pos.i + 1 \in DOMAIN module[pos.fn].code[pos.block]
    BY <1>3, <2>1, <2>2, ModuleShape
  <2> QED BY <1>3, <2>1, <2>2, <2>3 DEF Valid
<1>8. ASSUME Jump PROVE Valid(pos')
  <2>1. PICK n \in DOMAIN module[pos.fn].succ[pos.block] :
          pos' = Position(pos.fn, module[pos.fn].succ[pos.block][n], 1)
    BY <1>8 DEF Jump
  <2>2. module[pos.fn].succ[pos.block][n] \in DOMAIN module[pos.fn].name
    BY <1>3, <2>1, ModuleShape
  <2>3. pos.fn \in Nat /\ module[pos.fn].succ[pos.block][n] \in Nat
        /\ 1 \in DOMAIN module[pos.fn].code[module[pos.fn].succ[pos.block][n]]
    <3> DEFINE b == module[pos.fn].succ[pos.block][n]
    <3>1. /\ pos.fn \in 1..Len(module)
          /\ DOMAIN module[pos.fn].name = 1..Len(module[pos.fn].name)
          /\ \A c \in DOMAIN module[pos.fn].name :
               Len(module[pos.fn].code[c]) \in Nat \ {0}
               /\ DOMAIN module[pos.fn].code[c] = 1..Len(module[pos.fn].code[c])
      BY <1>3, FunctionShape, BlockShape
    <3>2. b \in DOMAIN module[pos.fn].name
      BY <2>2
    <3> HIDE DEF b
    <3>3. pos.fn \in Nat /\ b \in Nat /\ 1 \in DOMAIN module[pos.fn].code[b]
      BY <3>1, <3>2
    <3> QED BY <3>3 DEF b
  <2> QED BY <1>3, <2>1, <2>2, <2>3 DEF Valid, Position
<1>9. CASE Call \/ Execute \/ Jump
  <2>1. pc' = "run"
    BY <1>9 DEF Call, Execute, Jump
  <2> QED BY <1>5, <1>6, <1>7, <1>8, <1>9, <2>1
<1>10. CASE DivideByZero \/ LoopDividesByZero \/ Trap \/ Return \/ UNCHANGED vars
  BY <1>4, <1>10 DEF DivideByZero, LoopDividesByZero, Trap, Return, vars
<1> QED BY <1>9, <1>10

\* The types, and the last analysis of each block that was visited, as one invariant.
LEMMA Typed == Spec => [](Types /\ Ends)
<1>1. Init => Types /\ Ends
  BY StartsTyped
<1>2. (Types /\ Ends) /\ [Next]_vars => (Types /\ Ends)'
  BY EnterBlockTyped, AnalyseInstructionTyped, CheckSuccessorTyped, NextBlockTyped, OthersTyped
  DEF Next, Stopped
<1> QED BY <1>1, <1>2, PTL DEF Spec

\* For every analysis, and every module that LLVM may hand to it: the pass keeps to
\* the module, visits the blocks in layout order, and keeps whole blocks of analyses
\* under each name, one function after the other.
THEOREM TypeCorrect == Spec => []TypeOK
BY Typed, TypesGiveTypeOK, PTL

-----------------------------------------------------------------------------
(* The facts.  For an analysis that is Lawful, those of a function without *)
(* loops are fixed as soon as its instructions are analysed.               *)

\* The functions whose facts stand: in the one at hand nothing is analysed anew, and
\* in the others no later function does it.
Good(k) ==
  /\ Analysable(module, k)
  /\ Undisturbed(module, k) \/ (k = pos.fn /\ pc \in Analysing)

\* The instruction at a position was analysed.
Analysed(p) ==
  \/ pc \notin Analysing
  \/ p.fn < pos.fn
  \/ p.fn = pos.fn /\ p.block < pos.block
  \/ /\ p.fn = pos.fn /\ p.block = pos.block
     /\ pc = "successors" \/ (pc = "instructions" /\ p.i < pos.i)

Fact(p) == (CHOOSE a \in Analyses(p) : TRUE).in

\* The edges that the facts of the predecessors give, and what a fact has to be.
KnownEdges(k, b) ==
  LET preds == module[k].preds[b]
  IN  [n \in DOMAIN preds |->
         EdgeTo(Instr(LastOf(k, preds[n])), Fact(LastOf(k, preds[n])), Side(LastOf(k, preds[n]), k, b))]

Expected(p) ==
  IF p.i > 1 THEN Flow(Instr(Before(p)), Fact(Before(p))) ELSE Merged(KnownEdges(p.fn, p.block))

Fixed(E, p) ==
  \E e \in E : /\ Analyses(p) = {[at |-> p, in |-> e]}
               /\ e = Expected(p)
               /\ Flow(Instr(p), e) \in E

Fresh == \A p : Valid(p) /\ ~Analysed(p) => Analyses(p) = {}

Facts(E) ==
  /\ pc # "crashed" => \A p : Valid(p) /\ Good(p.fn) /\ Analysed(p) => Fixed(E, p)
  /\ pc = "instructions" /\ Good(pos.fn) => incomingEdge \in E /\ incomingEdge = Expected(pos)

Inv(E) == Types /\ Ends /\ Fresh /\ Facts(E) /\ WeirdOnlyInLoops

-----------------------------------------------------------------------------
(* Merges, and edges.                                                      *)

\* The merge of up to three edges, one by one.
LEMMA MergedIs ==
  ASSUME NEW edges, DOMAIN edges = 1..Len(edges)
  PROVE  /\ Len(edges) = 0 => Merged(edges) = Bottom
         /\ Len(edges) = 1 => Merged(edges) = edges[1]
         /\ Len(edges) = 2 => Merged(edges) = Merge(edges[1], edges[2])
         /\ Len(edges) = 3 => Merged(edges) = Merge(Merge(edges[1], edges[2]), edges[3])
<1> DEFINE F == CHOOSE merged : merged =
               [n \in 2..Len(edges) |->
                  IF n = 2 THEN Merge(edges[1], edges[2]) ELSE Merge(merged[n - 1], edges[3])]
<1>1. Len(edges) = 0 => Merged(edges) = Bottom
  BY DEF Merged
<1>2. Len(edges) = 1 => Merged(edges) = edges[1]
  BY DEF Merged
<1>3. Len(edges) \in {2, 3} => Merged(edges) = F[Len(edges)]
  BY DEF Merged
<1>4. ASSUME Len(edges) = 2 PROVE F[2] = Merge(edges[1], edges[2])
  <2> DEFINE g == [n \in 2..2 |-> Merge(edges[1], edges[2])]
  <2>1. g = [n \in 2..Len(edges) |->
               IF n = 2 THEN Merge(edges[1], edges[2]) ELSE Merge(g[n - 1], edges[3])]
    BY <1>4
  <2>2. F = [n \in 2..Len(edges) |->
               IF n = 2 THEN Merge(edges[1], edges[2]) ELSE Merge(F[n - 1], edges[3])]
    <3> HIDE DEF g
    <3> QED BY <2>1
  <2> HIDE DEF F
  <2> QED BY <1>4, <2>2
<1>5. ASSUME Len(edges) = 3 PROVE F[3] = Merge(Merge(edges[1], edges[2]), edges[3])
  <2> DEFINE g == [n \in 2..3 |-> IF n = 2 THEN Merge(edges[1], edges[2])
                                  ELSE Merge(Merge(edges[1], edges[2]), edges[3])]
  <2>1. g = [n \in 2..Len(edges) |->
               IF n = 2 THEN Merge(edges[1], edges[2]) ELSE Merge(g[n - 1], edges[3])]
    <3>1. \A n \in 2..3 : n # 2 => g[n - 1] = Merge(edges[1], edges[2])
      OBVIOUS
    <3> QED BY <1>5, <3>1
  <2>2. F = [n \in 2..Len(edges) |->
               IF n = 2 THEN Merge(edges[1], edges[2]) ELSE Merge(F[n - 1], edges[3])]
    <3> HIDE DEF g
    <3> QED BY <2>1
  <2> HIDE DEF F
  <2>3. F[2] = Merge(edges[1], edges[2]) /\ F[3] = Merge(F[2], edges[3])
    BY <1>5, <2>2
  <2> QED BY <2>3
<1> HIDE DEF F
<1> QED BY <1>1, <1>2, <1>3, <1>4, <1>5

\* A block of an analysable function has its predecessors before it, each of which
\* has it as one successor.
LEMMA Predecessors ==
  ASSUME NEW m \in Module, NEW k \in DOMAIN m, Analysable(m, k),
         NEW b \in DOMAIN m[k].name, NEW n \in DOMAIN m[k].preds[b]
  PROVE  LET p == m[k].preds[b][n]
         IN  /\ p \in DOMAIN m[k].name
             /\ p < b
             /\ \E o \in DOMAIN m[k].succ[p] : m[k].succ[p][o] = b
<1> DEFINE p == m[k].preds[b][n]
<1>1. p \in Range(m[k].preds[b])
  BY DEF Range
<1>2. p \in DOMAIN m[k].name /\ b \in Range(m[k].succ[p])
  BY <1>1, ModuleShape
<1>3. p \in DOMAIN m[k].succ
  BY <1>2, ModuleShape
<1>4. p < b
  BY <1>2, <1>3 DEF Analysable
<1>5. \E o \in DOMAIN m[k].succ[p] : m[k].succ[p][o] = b
  BY <1>2 DEF Range
<1> QED BY <1>2, <1>4, <1>5

\* The terminator of a block.
LEMMA LastValid ==
  ASSUME Types, NEW k \in DOMAIN module, NEW b \in DOMAIN module[k].name
  PROVE  /\ Valid(LastOf(k, b))
         /\ LastOf(k, b).fn = k /\ LastOf(k, b).block = b
         /\ LastOf(k, b).i = Len(module[k].code[b])
<1>1. module \in Module
  BY DEF Types
<1>2. /\ DOMAIN module = 1..Len(module)
      /\ DOMAIN module[k].name = 1..Len(module[k].name)
      /\ Len(module[k].code[b]) \in Nat \ {0}
      /\ DOMAIN module[k].code[b] = 1..Len(module[k].code[b])
  <2>1. DOMAIN module = 1..Len(module)
    BY <1>1, ModuleShape
  <2> QED BY <1>1, <2>1, FunctionShape, BlockShape
<1> QED BY <1>2 DEF Valid, LastOf, Position

\* Each successor has its own side of the terminator.
LEMMA OneSide ==
  ASSUME Types, NEW k \in DOMAIN module, Analysable(module, k),
         NEW b \in DOMAIN module[k].name, NEW o \in DOMAIN module[k].succ[b]
  PROVE  Side(LastOf(k, b), k, module[k].succ[b][o]) = o
<1>1. module \in Module
  BY DEF Types
<1>2. LastOf(k, b).fn = k /\ LastOf(k, b).block = b
  BY LastValid
<1>3. b \in DOMAIN module[k].succ
  BY <1>1, ModuleShape
<1>4. o \in Nat
  BY <1>1, FunctionShape
<1> DEFINE sides == {n \in DOMAIN module[k].succ[b] : module[k].succ[b][n] = module[k].succ[b][o]}
<1>5. sides = {o}
  BY <1>3 DEF Analysable
<1>6. (CHOOSE n \in sides : \A q \in sides : n <= q) = o
  <2> HIDE DEF sides
  <2> QED BY <1>4, <1>5
<1>7. Side(LastOf(k, b), k, module[k].succ[b][o]) =
        IF sides = {} THEN 0 ELSE CHOOSE n \in sides : \A q \in sides : n <= q
  BY <1>2 DEF Side
<1> QED BY <1>5, <1>6, <1>7

\* A fact depends on others of its function, which are analysed before it.
LEMMA Dependencies ==
  ASSUME Types, NEW p, Valid(p), Analysable(module, p.fn),
         Analysed(p) \/ (p = pos /\ pc \in {"block", "instructions"})
  PROVE  /\ p.i > 1 => /\ Valid(Before(p)) /\ Analysed(Before(p))
                       /\ Before(p).fn = p.fn /\ Before(p).block = p.block /\ Before(p).i = p.i - 1
         /\ \A n \in DOMAIN module[p.fn].preds[p.block] :
              LET b == module[p.fn].preds[p.block][n]
              IN  /\ b \in DOMAIN module[p.fn].name /\ b < p.block
                  /\ Valid(LastOf(p.fn, b)) /\ Analysed(LastOf(p.fn, b))
                  /\ LastOf(p.fn, b).fn = p.fn /\ LastOf(p.fn, b).block = b
<1>1. module \in Module /\ p.fn \in DOMAIN module /\ p.block \in DOMAIN module[p.fn].name
      /\ p \in [fn : Nat, block : Nat, i : Nat] /\ pos \in [fn : Nat, block : Nat, i : Nat]
      /\ p.i \in 1..Len(module[p.fn].code[p.block])
      /\ DOMAIN module[p.fn].code[p.block] = 1..Len(module[p.fn].code[p.block])
      /\ Len(module[p.fn].code[p.block]) \in Nat
  <2>1. module \in Module /\ p.fn \in DOMAIN module /\ p.block \in DOMAIN module[p.fn].name
        /\ p \in [fn : Nat, block : Nat, i : Nat] /\ pos \in [fn : Nat, block : Nat, i : Nat]
        /\ p.i \in DOMAIN module[p.fn].code[p.block]
    BY DEF Types, Valid
  <2>2. DOMAIN module[p.fn].code[p.block] = 1..Len(module[p.fn].code[p.block])
        /\ Len(module[p.fn].code[p.block]) \in Nat
    BY <2>1, ModuleShape
  <2> QED BY <2>1, <2>2
<1>2. pc = "block" => pos.i = 1
  BY DEF Types
<1>3. ASSUME p.i > 1
      PROVE  /\ Valid(Before(p)) /\ Analysed(Before(p))
             /\ Before(p).fn = p.fn /\ Before(p).block = p.block /\ Before(p).i = p.i - 1
  <2>1. Before(p).fn = p.fn /\ Before(p).block = p.block /\ Before(p).i = p.i - 1
        /\ Before(p) \in [fn : Nat, block : Nat, i : Nat]
    BY <1>1, <1>3 DEF Before, Position
  <2>2. Valid(Before(p))
    BY <1>1, <1>3, <2>1 DEF Valid
  <2>3. Analysed(Before(p))
    BY <1>1, <1>2, <1>3, <2>1 DEF Analysed
  <2> QED BY <2>1, <2>2, <2>3
<1>4. ASSUME NEW n \in DOMAIN module[p.fn].preds[p.block]
      PROVE  LET b == module[p.fn].preds[p.block][n]
             IN  /\ b \in DOMAIN module[p.fn].name /\ b < p.block
                 /\ Valid(LastOf(p.fn, b)) /\ Analysed(LastOf(p.fn, b))
                 /\ LastOf(p.fn, b).fn = p.fn /\ LastOf(p.fn, b).block = b
  <2> DEFINE b == module[p.fn].preds[p.block][n]
  <2>1. b \in DOMAIN module[p.fn].name /\ b < p.block
    BY <1>1, Predecessors
  <2>2. b \in Nat
    BY <1>1, <2>1, BlockShape
  <2> HIDE DEF b
  <2>3. Valid(LastOf(p.fn, b)) /\ LastOf(p.fn, b).fn = p.fn /\ LastOf(p.fn, b).block = b
    BY <1>1, <2>1, LastValid
  <2>4. Analysed(LastOf(p.fn, b))
    BY <1>1, <2>1, <2>2, <2>3 DEF Analysed
  <2> QED BY <2>1, <2>3, <2>4 DEF b
<1> QED BY <1>3, <1>4

\* The fact of an instruction with one analysis.
LEMMA FactOfOne ==
  ASSUME NEW p, NEW e, Analyses(p) = {[at |-> p, in |-> e]}
  PROVE  Fact(p) = e
<1>1. (CHOOSE a \in Analyses(p) : TRUE) = [at |-> p, in |-> e]
  OBVIOUS
<1> QED BY <1>1 DEF Fact

\* What a fact has to be changes only with the analyses it depends on.
LEMMA SameExpected ==
  ASSUME Types, module' = module, NEW p, Valid(p), Analysable(module, p.fn),
         Analysed(p) \/ (p = pos /\ pc \in {"block", "instructions"}),
         \A q : Valid(q) /\ q.fn = p.fn /\ Analysed(q) /\ q # p => Analyses(q)' = Analyses(q)
  PROVE  Expected(p)' = Expected(p)
<1>1. p \in [fn : Nat, block : Nat, i : Nat]
  BY DEF Valid
<1>2. \A q : Instr(q)' = Instr(q)
  BY DEF Instr
<1>3. ASSUME p.i > 1 PROVE Fact(Before(p))' = Fact(Before(p))
  <2>1. Valid(Before(p)) /\ Before(p).fn = p.fn /\ Analysed(Before(p)) /\ Before(p) # p
    BY <1>1, <1>3, Dependencies
  <2>2. \A q : q = Before(p) => Analyses(q)' = Analyses(q)
    BY <2>1
  <2> QED BY <2>2 DEF Fact, Before, Position
<1>4. KnownEdges(p.fn, p.block)' = KnownEdges(p.fn, p.block)
  <2>1. ASSUME NEW n \in DOMAIN module[p.fn].preds[p.block]
        PROVE  LET l == LastOf(p.fn, module[p.fn].preds[p.block][n])
               IN  Fact(l)' = Fact(l)
    <3> DEFINE l == LastOf(p.fn, module[p.fn].preds[p.block][n])
    <3>1. Valid(l) /\ l.fn = p.fn /\ Analysed(l) /\ l.block < p.block
      BY Dependencies
    <3>2. l # p
      BY <1>1, <3>1
    <3>3. \A q : q = l => Analyses(q)' = Analyses(q)
      BY <3>1, <3>2
    <3>4. l' = l
      BY DEF LastOf
    <3> QED BY <3>3, <3>4 DEF Fact
  <2>2. \A l : Side(l, p.fn, p.block)' = Side(l, p.fn, p.block)
    BY DEF Side
  <2>3. \A n \in DOMAIN module[p.fn].preds[p.block] :
          LastOf(p.fn, module[p.fn].preds[p.block][n])' = LastOf(p.fn, module[p.fn].preds[p.block][n])
    BY DEF LastOf
  <2> QED BY <1>2, <2>1, <2>2, <2>3 DEF KnownEdges
<1> QED BY <1>2, <1>3, <1>4 DEF Expected

-----------------------------------------------------------------------------
(* What the laws give.                                                     *)

\* The instructions of the module are those that the laws are about.
LEMMA InstructionsLawful ==
  ASSUME NEW I, NEW T, NEW N, MadeOf(I, T, N), Types, NEW p, Valid(p)
  PROVE  /\ Instr(p) \in I
         /\ p.i = Len(module[p.fn].code[p.block]) => Instr(p) \in T
         /\ DOMAIN module[p.fn].succ[p.block] \subseteq N
<1>1. module \in Module /\ p.fn \in DOMAIN module /\ p.block \in DOMAIN module[p.fn].name
      /\ p.i \in DOMAIN module[p.fn].code[p.block]
  BY DEF Types, Valid
<1>2. p.block \in DOMAIN module[p.fn].code
  BY <1>1, ModuleShape
<1> DEFINE c == module[p.fn].code[p.block]
<1>3. c \in Seq(I) /\ c[Len(c)] \in T /\ DOMAIN module[p.fn].succ[p.block] \subseteq N
  BY <1>1, <1>2 DEF MadeOf
<1>4. c[p.i] \in I
  <2>1. p.i \in DOMAIN c
    BY <1>1
  <2> HIDE DEF c
  <2> QED BY <1>3, <2>1
<1> QED BY <1>3, <1>4 DEF Instr

\* Up to three edges that exist are merged to one that exists, to a known one if one
\* of them is known, and to one that says no more than that.
LEMMA MergedLawful ==
  ASSUME NEW I, NEW T, NEW N, NEW E, NEW S, Closed(I, T, N, E, S),
         NEW m \in Nat, m <= 3, NEW edges, DOMAIN edges = 1..m,
         \A n \in 1..m : edges[n] \in E
  PROVE  /\ Merged(edges) \in E
         /\ m = 0 => Merged(edges) = Bottom
         /\ StaysKnown(I, T, N, E) =>
              \A n \in 1..m : edges[n] # Bottom => Merged(edges) # Bottom
         /\ FollowsRuns(I, T, N, E, S) =>
              \A n \in 1..m : \A s \in S :
                edges[n] # Bottom /\ Holds(edges[n], s) /\ StaysKnown(I, T, N, E) => Holds(Merged(edges), s)
<1>1. Len(edges) = m /\ DOMAIN edges = 1..Len(edges)
  OBVIOUS
<1>2. Bottom \in E /\ \A d, e \in E : Merge(d, e) \in E
  BY DEF Closed
<1>3. StaysKnown(I, T, N, E) =>
        \A d, e \in E : d # Bottom => Merge(d, e) # Bottom /\ Merge(e, d) # Bottom
  BY DEF StaysKnown
<1>4. FollowsRuns(I, T, N, E, S) =>
        \A d, e \in E, s \in S :
          d # Bottom /\ Holds(d, s) => Holds(Merge(d, e), s) /\ Holds(Merge(e, d), s)
  BY DEF FollowsRuns
<1>5. CASE m = 0
  BY <1>1, <1>2, <1>5, MergedIs
<1>6. CASE m = 1
  <2>1. Merged(edges) = edges[1]
    BY <1>1, <1>6, MergedIs
  <2> QED BY <1>6, <2>1
<1>7. CASE m = 2
  <2>1. Merged(edges) = Merge(edges[1], edges[2]) /\ edges[1] \in E /\ edges[2] \in E
    BY <1>1, <1>7, MergedIs
  <2>2. \A n \in 1..m : n = 1 \/ n = 2
    BY <1>7
  <2>3. ASSUME StaysKnown(I, T, N, E), NEW n \in 1..m, edges[n] # Bottom
        PROVE  Merged(edges) # Bottom
    BY <1>3, <2>1, <2>2, <2>3
  <2>4. ASSUME FollowsRuns(I, T, N, E, S), NEW n \in 1..m, NEW s \in S,
               edges[n] # Bottom, Holds(edges[n], s)
        PROVE  Holds(Merged(edges), s)
    <3>1. CASE n = 1
      BY <1>4, <2>1, <2>4, <3>1
    <3>2. CASE n = 2
      BY <1>4, <2>1, <2>4, <3>2
    <3> QED BY <2>2, <3>1, <3>2
  <2> QED BY <1>2, <1>7, <2>1, <2>3, <2>4
<1>8. CASE m = 3
  <2>1. /\ Merged(edges) = Merge(Merge(edges[1], edges[2]), edges[3])
        /\ edges[1] \in E /\ edges[2] \in E /\ edges[3] \in E
    BY <1>1, <1>8, MergedIs
  <2>2. \A n \in 1..m : n = 1 \/ n = 2 \/ n = 3
    BY <1>8
  <2>3. Merge(edges[1], edges[2]) \in E
    BY <1>2, <2>1
  <2>4. ASSUME StaysKnown(I, T, N, E), NEW n \in 1..m, edges[n] # Bottom
        PROVE  Merged(edges) # Bottom /\ (n < 3 => Merge(edges[1], edges[2]) # Bottom)
    BY <1>3, <2>1, <2>2, <2>3, <2>4
  <2>5. ASSUME FollowsRuns(I, T, N, E, S), StaysKnown(I, T, N, E), NEW n \in 1..m, NEW s \in S,
               edges[n] # Bottom, Holds(edges[n], s)
        PROVE  Holds(Merged(edges), s)
    <3>1. CASE n = 3
      BY <1>4, <2>1, <2>3, <2>5, <3>1
    <3>2. CASE n # 3
      <4>1. Merge(edges[1], edges[2]) # Bottom
        BY <2>2, <2>4, <2>5, <3>2
      <4>2. Holds(Merge(edges[1], edges[2]), s)
        <5>1. CASE n = 1
          BY <1>4, <2>1, <2>5, <5>1
        <5>2. CASE n = 2
          BY <1>4, <2>1, <2>5, <5>2
        <5> QED BY <2>2, <3>2, <5>1, <5>2
      <4> QED BY <1>4, <2>1, <2>3, <2>5, <4>1, <4>2
    <3> QED BY <3>1, <3>2
  <2> QED BY <1>2, <1>8, <2>1, <2>3, <2>4, <2>5
<1> QED BY <1>5, <1>6, <1>7, <1>8

\* In a function that is analysed block by block, the edge into a block is made of the
\* facts of its predecessors, and exists.
LEMMA KnownEdgesLawful ==
  ASSUME NEW I, NEW T, NEW N, NEW E, NEW S, MadeOf(I, T, N), Closed(I, T, N, E, S),
         Types, NEW k \in DOMAIN module, Analysable(module, k), NEW b \in DOMAIN module[k].name,
         \A c \in DOMAIN module[k].name : c < b => Fixed(E, LastOf(k, c))
  PROVE  /\ DOMAIN KnownEdges(k, b) = 1..Len(module[k].preds[b])
         /\ Len(module[k].preds[b]) \in Nat /\ Len(module[k].preds[b]) <= 3
         /\ \A n \in 1..Len(module[k].preds[b]) : KnownEdges(k, b)[n] \in E
<1>1. module \in Module
  BY DEF Types
<1>2. /\ DOMAIN module[k].preds[b] = 1..Len(module[k].preds[b])
      /\ Len(module[k].preds[b]) \in Nat
      /\ b \in DOMAIN module[k].preds
  BY <1>1, ModuleShape
<1>3. Len(module[k].preds[b]) <= 3
  BY <1>2 DEF Analysable
<1>4. DOMAIN KnownEdges(k, b) = 1..Len(module[k].preds[b])
  BY <1>2 DEF KnownEdges
<1>5. ASSUME NEW n \in DOMAIN module[k].preds[b]
      PROVE  KnownEdges(k, b)[n] \in E
  <2> DEFINE c == module[k].preds[b][n]
             l == LastOf(k, c)
  <2>1. c \in DOMAIN module[k].name /\ c < b
    BY <1>1, Predecessors
  <2>2. PICK o \in DOMAIN module[k].succ[c] : module[k].succ[c][o] = b
    BY <1>1, Predecessors
  <2>3. Valid(l) /\ l.i = Len(module[k].code[c]) /\ l.fn = k /\ l.block = c
    BY <2>1, LastValid
  <2>4. PICK e \in E : Analyses(l) = {[at |-> l, in |-> e]}
    BY <2>1 DEF Fixed
  <2>5. Fact(l) = e
    BY <2>4, FactOfOne
  <2>6. Instr(l) \in T /\ o \in N
    BY <2>3, <2>2, InstructionsLawful
  <2>7. Side(l, k, b) = o
    BY <2>1, <2>2, OneSide
  <2>8. KnownEdges(k, b)[n] = EdgeTo(Instr(l), Fact(l), Side(l, k, b))
    BY DEF KnownEdges
  <2> QED BY <2>5, <2>6, <2>7, <2>8 DEF Closed
<1> QED BY <1>2, <1>3, <1>4, <1>5

-----------------------------------------------------------------------------
(* The analyses of each instruction, before and after a step.              *)

\* AnalyseInstruction gives the instruction at hand an analysis, and no other one.
LEMMA AnalysesAppended ==
  ASSUME Types, Ends, AnalyseInstruction, NEW p, Valid(p)
  PROVE  Analyses(p)' = IF p = pos THEN Analyses(p) \cup {[at |-> pos, in |-> incomingEdge]}
                        ELSE Analyses(p)
<1> DEFINE name == NameOf(pos.fn, pos.block)
           s == blockInstAnalysis[name]
           new == [at |-> pos, in |-> incomingEdge]
           n == NameOf(p.fn, p.block)
<1>1. /\ module' = module /\ pc = "instructions"
      /\ blockInstAnalysis' = [blockInstAnalysis EXCEPT ![name] = Append(s, new)]
  BY DEF AnalyseInstruction
<1>2. /\ pos.fn \in DOMAIN module /\ pos.block \in DOMAIN module[pos.fn].name
      /\ Valid(pos) /\ DOMAIN blockInstAnalysis = BlockName /\ name \in BlockName /\ n \in BlockName
      /\ Entries(s, name)
  <2>1. pos.fn \in DOMAIN module /\ pos.block \in DOMAIN module[pos.fn].name /\ Valid(pos)
    BY <1>1 DEF Types, Valid
  <2>2. name \in BlockName /\ n \in BlockName
    BY <2>1, NamesDiffer DEF Valid
  <2> QED BY <2>1, <2>2 DEF Types
<1>3. Range(Append(s, new)) = Range(s) \cup {new}
  <2>1. pos.i \in Nat \ {0}
    <3>1. module \in Module /\ pos.i \in DOMAIN module[pos.fn].code[pos.block]
      BY <1>2 DEF Types, Valid
    <3>2. /\ DOMAIN module[pos.fn].code[pos.block] = 1..Len(module[pos.fn].code[pos.block])
          /\ Len(module[pos.fn].code[pos.block]) \in Nat
      BY <1>2, <3>1, ModuleShape
    <3> QED BY <3>1, <3>2
  <2>2. pos.i = 1 \/ (Len(s) > 0 /\ s[Len(s)].at = Before(pos))
    BY <1>1, <2>1 DEF Ends, LastIs
  <2> QED BY <1>2, <2>2, EntriesAppended
<1>4. Analyses(p)' = {a \in Range(blockInstAnalysis'[n]) : a.at = p}
  BY <1>1 DEF Analyses, NameOf
<1>5. Analyses(p) = {a \in Range(blockInstAnalysis[n]) : a.at = p}
  BY DEF Analyses
<1>6. CASE n # name
  <2>1. blockInstAnalysis'[n] = blockInstAnalysis[n]
    BY <1>1, <1>2, <1>6
  <2> QED BY <1>4, <1>5, <1>6, <2>1
<1>7. CASE n = name
  <2>1. Range(blockInstAnalysis'[n]) = Range(blockInstAnalysis[n]) \cup {new}
    BY <1>1, <1>2, <1>3, <1>7
  <2>2. new.at = pos
    OBVIOUS
  <2> HIDE DEF new, n
  <2> QED BY <1>4, <1>5, <2>1, <2>2 DEF new
<1> QED BY <1>6, <1>7

\* blockLoop changes no analysis of a function whose facts stand, nor of one that was
\* not analysed.
LEMMA AnalysesLooped ==
  ASSUME Types, Fresh, CheckSuccessor, NEW p, Valid(p), ~Analysed(p) \/ Good(p.fn)
  PROVE  Analyses(p)' = Analyses(p)
<1> DEFINE start == module[pos.fn].succ[pos.block][pos.i]
           n == NameOf(p.fn, p.block)
<1>1. /\ module' = module /\ pc = "successors" /\ pos.i \in DOMAIN module[pos.fn].succ[pos.block]
      /\ module \in Module /\ pos.fn \in DOMAIN module /\ pos.block \in DOMAIN module[pos.fn].name
      /\ visitedBlocks = 1..pos.block
      /\ DOMAIN blockInstAnalysis = BlockName
  BY DEF CheckSuccessor, Types
<1>2. n \in BlockName
  BY NamesDiffer DEF Valid
<1>3. Analyses(p)' = {a \in Range(blockInstAnalysis'[n]) : a.at = p}
  BY <1>1 DEF Analyses, NameOf
<1>4. Analyses(p) = {a \in Range(blockInstAnalysis[n]) : a.at = p}
  BY DEF Analyses
<1>5. CASE ~Analysed(p)
  <2>1. Analyses(p) = {}
    BY <1>5 DEF Fresh
  <2>2. /\ DOMAIN blockInstAnalysis[n] = 1..Len(blockInstAnalysis[n])
        /\ DOMAIN blockInstAnalysis'[n] = 1..Len(blockInstAnalysis[n])
        /\ \A j \in 1..Len(blockInstAnalysis[n]) :
             blockInstAnalysis'[n][j].at = blockInstAnalysis[n][j].at
    <3>1. /\ Entries(blockInstAnalysis[n], n) /\ Entries(blockInstAnalysis'[n], n)
          /\ Len(blockInstAnalysis'[n]) = Len(blockInstAnalysis[n])
          /\ \A j \in 1..Len(blockInstAnalysis[n]) :
               blockInstAnalysis'[n][j].at = blockInstAnalysis[n][j].at
      BY <1>1, <1>2, LoopKeepsPlaces DEF Types
    <3> QED BY <3>1 DEF Entries
  <2>3. \A j \in 1..Len(blockInstAnalysis[n]) : blockInstAnalysis[n][j].at # p
    BY <1>4, <2>1, <2>2 DEF Range
  <2>4. \A a \in Range(blockInstAnalysis'[n]) : a.at # p
    BY <2>2, <2>3 DEF Range
  <2> QED BY <1>3, <2>1, <2>4
<1>6. CASE Good(p.fn) /\ Analysed(p)
  <2>1. CASE UNCHANGED blockInstAnalysis
    BY <1>3, <1>4, <2>1
  <2>2. CASE start \in visitedBlocks /\ BlockLoop(start)
    <3>1. start \in Range(module[pos.fn].succ[pos.block]) /\ start \in 1..pos.block
          /\ pos.block \in DOMAIN module[pos.fn].succ /\ pos.block \in Nat
      BY <1>1, <2>2, ModuleShape DEF Range, Types
    <3>2. ~Analysable(module, pos.fn)
      <4>1. Analysable(module, pos.fn) => pos.block < start
        BY <3>1 DEF Analysable
      <4> HIDE DEF start
      <4> QED BY <3>1, <4>1
    <3>3. p.fn < pos.fn /\ Undisturbed(module, p.fn)
      <4>1. p.fn # pos.fn /\ Undisturbed(module, p.fn)
        BY <1>6, <3>2 DEF Good
      <4> QED BY <1>1, <1>6, <4>1 DEF Analysed, Analysing
    <3>4. NameOf(pos.fn, start) # n
      <4>1. NameOf(pos.fn, start) \notin Range(module[p.fn].name)
        BY <1>1, <3>1, <3>3 DEF Undisturbed, NameOf
      <4>2. n \in Range(module[p.fn].name)
        BY DEF Valid, NameOf, Range
      <4> QED BY <4>1, <4>2
    <3>5. blockInstAnalysis'[n] = blockInstAnalysis[n]
      BY <1>1, <1>2, <2>2, <3>4 DEF BlockLoop
    <3> QED BY <1>3, <1>4, <3>5
  <2> QED BY <1>1, <2>1, <2>2 DEF CheckSuccessor
<1> QED BY <1>5, <1>6

-----------------------------------------------------------------------------
(* The facts are kept.                                                     *)

\* If the analyses of a function are the same after a step, so are its facts.
LEMMA SameFixed ==
  ASSUME NEW E, Types, module' = module, NEW p, Valid(p), Analysable(module, p.fn), Analysed(p), Fixed(E, p),
         \A q : Valid(q) /\ q.fn = p.fn /\ Analysed(q) => Analyses(q)' = Analyses(q)
  PROVE  Fixed(E, p)'
<1>1. Expected(p)' = Expected(p)
  BY SameExpected
<1>2. Analyses(p)' = Analyses(p) /\ Instr(p)' = Instr(p)
  BY DEF Instr
<1> QED BY <1>1, <1>2 DEF Fixed

\* No instruction is analysed in the first state, so no fact has to stand.
LEMMA StartsFixed ==
  ASSUME NEW E, Init
  PROVE  Fresh /\ Facts(E) /\ WeirdOnlyInLoops
<1>1. pc = "block" /\ pos = Position(1, 1, 1) /\ \A n \in BlockName : blockInstAnalysis[n] = <<>>
  BY DEF Init
<1>2. Types
  BY StartsTyped
<1>3. \A p : Valid(p) => Analyses(p) = {}
  <2> SUFFICES ASSUME NEW p, Valid(p) PROVE Analyses(p) = {}
    OBVIOUS
  <2>1. NameOf(p.fn, p.block) \in BlockName
    BY <1>2, NamesDiffer DEF Valid
  <2>2. Range(<<>>) = {}
    BY DEF Range
  <2> QED BY <1>1, <2>1, <2>2 DEF Analyses
<1>4. \A p : Valid(p) => ~Analysed(p)
  <2> SUFFICES ASSUME NEW p, Valid(p) PROVE ~Analysed(p)
    OBVIOUS
  <2>1. p.fn \in 1..Len(module) /\ p.block \in 1..Len(module[p.fn].name)
    BY <1>2, ModuleShape DEF Types, Valid
  <2>2. pos.fn = 1 /\ pos.block = 1
    BY <1>1 DEF Position
  <2> QED BY <1>1, <2>1, <2>2 DEF Analysed, Analysing
<1> QED BY <1>1, <1>3, <1>4 DEF Fresh, Facts, WeirdOnlyInLoops

\* The edges that EnterBlock merges are those that the facts of the predecessors give.
LEMMA EdgesKnown ==
  ASSUME NEW E, Types, Ends, pc = "block", Analysable(module, pos.fn),
         \A p : Valid(p) /\ Good(p.fn) /\ Analysed(p) => Fixed(E, p)
  PROVE  /\ \A c \in DOMAIN module[pos.fn].name : c < pos.block => Fixed(E, LastOf(pos.fn, c))
         /\ Edges(pos.fn, pos.block) = KnownEdges(pos.fn, pos.block)
<1> DEFINE k == pos.fn
           b == pos.block
<1>1. /\ module \in Module /\ k \in DOMAIN module /\ b \in DOMAIN module[k].name
      /\ visitedBlocks = 1..(b - 1) /\ Valid(pos)
  BY DEF Types, Valid
<1>2. Good(k)
  BY DEF Good, Analysing
<1>3. ASSUME NEW c \in DOMAIN module[k].name, c < b
      PROVE  Fixed(E, LastOf(k, c)) /\ c \in visitedBlocks
  <2>1. Valid(LastOf(k, c)) /\ LastOf(k, c).fn = k /\ LastOf(k, c).block = c
    BY <1>1, LastValid
  <2>2. c \in 1..Len(module[k].name) /\ b \in 1..Len(module[k].name) /\ Len(module[k].name) \in Nat
    <3>1. DOMAIN module[k].name = 1..Len(module[k].name) /\ Len(module[k].name) \in Nat
      BY <1>1, ModuleShape
    <3> QED BY <1>1, <1>3, <3>1
  <2>3. Analysed(LastOf(k, c))
    BY <1>3, <2>1 DEF Analysed
  <2> QED BY <1>1, <1>2, <1>3, <2>1, <2>2, <2>3
<1>4. ASSUME NEW n \in DOMAIN module[k].preds[b]
      PROVE  EdgeFrom(k, module[k].preds[b][n], b) =
               LET l == LastOf(k, module[k].preds[b][n])
               IN  EdgeTo(Instr(l), Fact(l), Side(l, k, b))
  <2> DEFINE c == module[k].preds[b][n]
             l == LastOf(k, c)
             s == blockInstAnalysis[NameOf(k, c)]
  <2>1. c \in DOMAIN module[k].name /\ c < b
    BY <1>1, Predecessors
  <2>2. c \in visitedBlocks /\ Fixed(E, l)
    BY <1>3, <2>1
  <2>3. LastIs(s, l)
    BY <2>2 DEF Ends, Analysing
  <2>4. NameOf(k, c) \in BlockName
    BY <1>1, <2>1, NamesDiffer
  <2>5. Entries(s, NameOf(k, c))
    BY <2>4 DEF Types
  <2>6. s # <<>> /\ s[Len(s)] \in Range(s) /\ s[Len(s)].at = l
    <3>1. s \in Seq(Range(s)) /\ Len(s) > 0 /\ s[Len(s)].at = l
      BY <2>3, <2>5 DEF Entries, LastIs
    <3> HIDE DEF s
    <3> QED BY <3>1
  <2>7. l.fn = k /\ l.block = c
    BY <1>1, <2>1, LastValid
  <2>8. s[Len(s)] \in Analyses(l)
    <3>1. Analyses(l) = {a \in Range(s) : a.at = l}
      BY <2>7 DEF Analyses
    <3> HIDE DEF s, l
    <3> QED BY <2>6, <3>1
  <2>9. PICK e \in E : Analyses(l) = {[at |-> l, in |-> e]}
    BY <2>2 DEF Fixed
  <2>10. s[Len(s)].in = Fact(l)
    <3>1. Fact(l) = e
      BY <2>9, FactOfOne
    <3>2. s[Len(s)] = [at |-> l, in |-> e]
      BY <2>8, <2>9
    <3> HIDE DEF s, l
    <3> QED BY <3>1, <3>2
  <2>11. EdgeFrom(k, c, b) =
           IF s = <<>> THEN Bottom
           ELSE EdgeTo(Instr(s[Len(s)].at), s[Len(s)].in, Side(s[Len(s)].at, k, b))
    BY DEF EdgeFrom
  <2> HIDE DEF s, l, c, k, b
  <2> QED BY <2>6, <2>10, <2>11 DEF l, c
<1>5. Edges(k, b) = KnownEdges(k, b)
  BY <1>4, Zenon DEF Edges, KnownEdges
<1> QED BY <1>3, <1>5

\* The edge into a block is what the facts of its predecessors make it, and in a
\* function without loops it exists.
LEMMA EnterBlockFixed ==
  ASSUME NEW I, NEW T, NEW N, NEW E, NEW S, MadeOf(I, T, N), Closed(I, T, N, E, S),
         Inv(E), EnterBlock
  PROVE  (Fresh /\ Facts(E) /\ WeirdOnlyInLoops)'
<1>1. /\ Types /\ Ends /\ Fresh /\ Facts(E) /\ pc = "block"
      /\ module' = module /\ blockInstAnalysis' = blockInstAnalysis /\ pos' = pos
      /\ pos.i = 1 /\ visitedBlocks = 1..(pos.block - 1)
      /\ module \in Module /\ pos.fn \in DOMAIN module /\ pos.block \in DOMAIN module[pos.fn].name
  BY DEF Inv, EnterBlock, Types
<1> DEFINE edges == Edges(pos.fn, pos.block)
<1>2. ASSUME Analysable(module, pos.fn)
      PROVE  /\ edges = KnownEdges(pos.fn, pos.block)
             /\ Merged(edges) \in E
             /\ Null \notin Range(edges)
  <2>1. /\ \A c \in DOMAIN module[pos.fn].name : c < pos.block => Fixed(E, LastOf(pos.fn, c))
        /\ edges = KnownEdges(pos.fn, pos.block)
    BY <1>1, <1>2, EdgesKnown DEF Facts
  <2> DEFINE m == Len(module[pos.fn].preds[pos.block])
  <2>2. /\ DOMAIN edges = 1..m /\ m \in Nat /\ m <= 3
        /\ \A n \in 1..m : edges[n] \in E
    BY <1>1, <1>2, <2>1, KnownEdgesLawful
  <2> HIDE DEF edges, m
  <2>3. Merged(edges) \in E
    BY <2>2, MergedLawful
  <2>4. Null \notin Range(edges)
    BY <2>2 DEF Range, Closed
  <2> QED BY <2>1, <2>3, <2>4
<1>3. CASE Null \in Range(edges) /\ pc' = "crashed"
  <2>1. ~Analysable(module, pos.fn)
    BY <1>2, <1>3
  <2>2. (Fresh /\ Facts(E))'
    BY <1>3 DEF Fresh, Facts, Analysed, Analysing
  <2> QED BY <1>1, <2>1, <2>2 DEF WeirdOnlyInLoops, Analysable
<1>4. CASE Null \notin Range(edges) /\ pc' = "instructions" /\ incomingEdge' = Merged(edges)
  <2>1. \A p : Valid(p) => (Analysed(p)' <=> Analysed(p))
    <3> SUFFICES ASSUME NEW p, Valid(p) PROVE Analysed(p)' <=> Analysed(p)
      OBVIOUS
    <3>1. p.i \in 1..Len(module[p.fn].code[p.block]) /\ Len(module[p.fn].code[p.block]) \in Nat
      BY <1>1, BlockShape DEF Valid
    <3> QED BY <1>1, <1>4, <3>1 DEF Analysed, Analysing
  <2>2. \A k : Good(k)' <=> Good(k)
    BY <1>1, <1>4 DEF Good, Analysing, Analysable, Undisturbed
  <2>3. \A p : (Valid(p)' <=> Valid(p)) /\ Analyses(p)' = Analyses(p)
    BY <1>1, SameModule DEF Analyses, NameOf
  <2>4. Fresh'
    BY <1>1, <2>1, <2>3 DEF Fresh
  <2>5. \A p : Valid(p) /\ Good(p.fn) /\ Analysed(p) => Fixed(E, p)'
    BY <1>1, <2>3, SameFixed DEF Facts, Good
  <2>6. ASSUME Good(pos.fn) PROVE incomingEdge' \in E /\ incomingEdge' = Expected(pos)'
    <3>1. Analysable(module, pos.fn) /\ Valid(pos)
      BY <1>1, <2>6 DEF Good, Types, Valid
    <3>2. incomingEdge' \in E /\ incomingEdge' = Expected(pos)
      BY <1>1, <1>2, <1>4, <3>1 DEF Expected
    <3>3. \A p : p = pos => Expected(p)' = Expected(p)
      BY <1>1, <2>3, <3>1, SameExpected
    <3> QED BY <1>1, <3>2, <3>3
  <2>7. Facts(E)'
    BY <1>1, <2>1, <2>2, <2>3, <2>5, <2>6 DEF Facts
  <2> QED BY <1>4, <2>4, <2>7 DEF WeirdOnlyInLoops
<1> QED BY <1>3, <1>4 DEF EnterBlock

\* The fact of the instruction at hand is fixed by those before it, which it leaves
\* alone.
LEMMA AnalyseInstructionFixed ==
  ASSUME NEW I, NEW T, NEW N, NEW E, NEW S, MadeOf(I, T, N), Closed(I, T, N, E, S),
         Inv(E), AnalyseInstruction
  PROVE  (Fresh /\ Facts(E) /\ WeirdOnlyInLoops)'
<1> DEFINE last == Len(module[pos.fn].code[pos.block])
           out == Flow(Instr(pos), incomingEdge)
<1>1. /\ Types /\ Ends /\ Fresh /\ Facts(E) /\ pc = "instructions"
      /\ module' = module /\ incomingEdge' = out /\ out # Null
      /\ module \in Module /\ pos.fn \in DOMAIN module /\ pos.block \in DOMAIN module[pos.fn].name
      /\ pos \in [fn : Nat, block : Nat, i : Nat] /\ Valid(pos)
  BY DEF Inv, AnalyseInstruction, Types, Valid
<1>2. /\ pos.i \in 1..last /\ last \in Nat
      /\ \/ pos.i < last /\ pos' = [pos EXCEPT !.i = @ + 1] /\ pc' = "instructions"
         \/ pos.i = last /\ pos' = [pos EXCEPT !.i = 1] /\ pc' = "successors"
  <2>1. DOMAIN module[pos.fn].code[pos.block] = 1..last /\ last \in Nat
    BY <1>1, ModuleShape
  <2>2. pos.i \in 1..last
    BY <1>1, <2>1 DEF Valid
  <2> QED BY <1>1, <2>1, <2>2 DEF AnalyseInstruction
<1>3. pos'.fn = pos.fn /\ pos'.block = pos.block /\ pc' \in Analysing /\ pc \in Analysing
  BY <1>1, <1>2 DEF Analysing
<1>4. \A p : Valid(p) => (Analysed(p)' <=> Analysed(p) \/ p = pos)
  <2> SUFFICES ASSUME NEW p, Valid(p) PROVE Analysed(p)' <=> Analysed(p) \/ p = pos
    OBVIOUS
  <2>1. p \in [fn : Nat, block : Nat, i : Nat]
        /\ (p.fn = pos.fn /\ p.block = pos.block => p.i \in 1..last)
    <3>1. DOMAIN module[pos.fn].code[pos.block] = 1..last
      BY <1>1, ModuleShape
    <3> QED BY <3>1 DEF Valid
  <2>2. p = pos <=> p.fn = pos.fn /\ p.block = pos.block /\ p.i = pos.i
    BY <1>1, <2>1
  <2>3. CASE pos.i < last /\ pos' = [pos EXCEPT !.i = @ + 1] /\ pc' = "instructions"
    <3>1. pos'.i = pos.i + 1
      BY <1>1, <2>3
    <3> QED BY <1>1, <1>2, <1>3, <2>1, <2>2, <2>3, <3>1 DEF Analysed
  <2>4. CASE pos.i = last /\ pc' = "successors"
    BY <1>1, <1>2, <1>3, <2>1, <2>2, <2>4 DEF Analysed
  <2> QED BY <1>2, <2>3, <2>4
<1>5. ~Analysed(pos)
  BY <1>1 DEF Analysed, Analysing
<1>6. \A k : Good(k)' <=> Good(k)
  BY <1>1, <1>3 DEF Good, Analysable, Undisturbed
<1>7. \A p : Valid(p)' <=> Valid(p)
  BY <1>1, SameModule
<1>8. \A p : Valid(p) =>
        Analyses(p)' = IF p = pos THEN Analyses(p) \cup {[at |-> pos, in |-> incomingEdge]} ELSE Analyses(p)
  BY <1>1, AnalysesAppended
<1>9. Fresh'
  BY <1>4, <1>7, <1>8 DEF Fresh, Inv
<1>10. ASSUME Good(pos.fn)
       PROVE  /\ out \in E
              /\ \A p : p = pos => Fixed(E, p)' /\ Fact(p)' = incomingEdge
  <2>1. Analysable(module, pos.fn) /\ incomingEdge \in E /\ incomingEdge = Expected(pos)
    BY <1>1, <1>10 DEF Good, Facts
  <2>2. out \in E
    BY <1>1, <2>1, InstructionsLawful DEF Closed
  <2>3. SUFFICES ASSUME NEW p, p = pos PROVE Fixed(E, p)' /\ Fact(p)' = incomingEdge
    BY <2>2
  <2>4. Analyses(p)' = {[at |-> p, in |-> incomingEdge]}
    BY <1>1, <1>5, <1>8, <2>3 DEF Fresh
  <2>5. Expected(p)' = Expected(p)
    BY <1>1, <1>5, <1>8, <2>1, <2>3, SameExpected
  <2>6. Instr(p)' = Instr(p)
    BY <1>1 DEF Instr
  <2>7. Fixed(E, p)'
    BY <2>1, <2>2, <2>3, <2>4, <2>5, <2>6 DEF Fixed
  <2>8. Fact(p)' = incomingEdge
    <3>1. (CHOOSE a \in {[at |-> p, in |-> incomingEdge]} : TRUE) = [at |-> p, in |-> incomingEdge]
      OBVIOUS
    <3> QED BY <2>4, <3>1 DEF Fact
  <2> QED BY <2>7, <2>8
<1>11. ASSUME NEW p, Valid(p), Good(p.fn), Analysed(p) PROVE Fixed(E, p)'
  <2>1. Fixed(E, p) /\ Analysable(module, p.fn) /\ p # pos
    BY <1>1, <1>5, <1>11 DEF Facts, Good
  <2>2. \A q : Valid(q) /\ q.fn = p.fn /\ Analysed(q) => Analyses(q)' = Analyses(q)
    BY <1>5, <1>8
  <2> QED BY <1>1, <1>11, <2>1, <2>2, SameFixed
<1>12. ASSUME pc' = "instructions", Good(pos.fn)
       PROVE  incomingEdge' \in E /\ incomingEdge' = Expected(pos)'
  <2>1. pos' = [pos EXCEPT !.i = @ + 1] /\ pos.i > 0
    BY <1>2, <1>12
  <2>2. pos'.i > 1 /\ Before(pos') = pos
    BY <1>1, <2>1 DEF Before, Position
  <2>3. \A p : p = pos' => Expected(p)' = Flow(Instr(pos), incomingEdge)
    <3> SUFFICES ASSUME NEW p, p = pos' PROVE Expected(p)' = Flow(Instr(pos), incomingEdge)
      OBVIOUS
    <3>1. Before(p) = pos /\ p.i > 1
      BY <2>2
    <3>2. Fact(Before(p))' = incomingEdge
      <4>1. \A q : q = pos => Fact(q)' = incomingEdge
        BY <1>10, <1>12
      <4>2. \A q : q = Before(p) => Fact(q)' = incomingEdge
        BY <3>1, <4>1
      <4> QED BY <4>2 DEF Before
    <3>3. Instr(Before(p))' = Instr(pos)
      BY <1>1, <3>1 DEF Instr, Before
    <3> QED BY <3>1, <3>2, <3>3 DEF Expected, Before
  <2> QED BY <1>1, <1>10, <1>12, <2>3
<1>13. Facts(E)'
  BY <1>1, <1>3, <1>4, <1>6, <1>7, <1>10, <1>11, <1>12 DEF Facts
<1> QED BY <1>2, <1>9, <1>13 DEF WeirdOnlyInLoops

\* A loop changes facts of its own function, which has one, or of functions that are
\* disturbed by it.
LEMMA CheckSuccessorFixed ==
  ASSUME NEW E, Inv(E), CheckSuccessor
  PROVE  (Fresh /\ Facts(E) /\ WeirdOnlyInLoops)'
<1>1. /\ Types /\ Ends /\ Fresh /\ Facts(E) /\ pc = "successors" /\ pc' = pc
      /\ module' = module /\ pos' = [pos EXCEPT !.i = @ + 1]
      /\ pos \in [fn : Nat, block : Nat, i : Nat]
  BY DEF Inv, CheckSuccessor, Types
<1>2. pos'.fn = pos.fn /\ pos'.block = pos.block
  BY <1>1
<1>3. \A p : Analysed(p)' <=> Analysed(p)
  BY <1>1, <1>2 DEF Analysed
<1>4. \A k : Good(k)' <=> Good(k)
  BY <1>1, <1>2 DEF Good, Analysable, Undisturbed
<1>5. \A p : Valid(p)' <=> Valid(p)
  BY <1>1, SameModule
<1>6. \A p : Valid(p) /\ (~Analysed(p) \/ Good(p.fn)) => Analyses(p)' = Analyses(p)
  BY <1>1, AnalysesLooped
<1>7. Fresh'
  BY <1>1, <1>3, <1>5, <1>6 DEF Fresh
<1>8. ASSUME NEW p, Valid(p), Good(p.fn), Analysed(p) PROVE Fixed(E, p)'
  <2>1. Fixed(E, p) /\ Analysable(module, p.fn)
    BY <1>1, <1>8 DEF Facts, Good
  <2>2. \A q : Valid(q) /\ q.fn = p.fn /\ Analysed(q) => Analyses(q)' = Analyses(q)
    BY <1>6, <1>8
  <2> QED BY <1>1, <1>8, <2>1, <2>2, SameFixed
<1>9. Facts(E)'
  BY <1>1, <1>3, <1>4, <1>5, <1>8 DEF Facts
<1> QED BY <1>1, <1>7, <1>9 DEF WeirdOnlyInLoops

\* When the next block or function is entered, or the pass ends, exactly the blocks
\* before are analysed.
LEMMA NextBlockFixed ==
  ASSUME NEW E, Inv(E), NextBlock
  PROVE  (Fresh /\ Facts(E) /\ WeirdOnlyInLoops)'
<1>1. /\ Types /\ Ends /\ Fresh /\ Facts(E) /\ pc = "successors"
      /\ module' = module /\ blockInstAnalysis' = blockInstAnalysis
      /\ module \in Module /\ pos.fn \in DOMAIN module /\ pos.block \in DOMAIN module[pos.fn].name
      /\ \/ /\ pos.block < Len(module[pos.fn].name)
            /\ pos' = Position(pos.fn, pos.block + 1, 1) /\ pc' = "block"
         \/ /\ pos.block = Len(module[pos.fn].name) /\ pos.fn < Len(module)
            /\ pos' = Position(pos.fn + 1, 1, 1) /\ pc' = "block"
         \/ /\ pos.block = Len(module[pos.fn].name) /\ ~(pos.fn < Len(module))
            /\ pos' = pos /\ pc' = "done"
  BY DEF Inv, NextBlock, Types
<1>2. /\ Len(module) \in Nat /\ pos.fn \in 1..Len(module) /\ DOMAIN module = 1..Len(module)
      /\ pos.block \in Nat
  <2>1. Len(module) \in Nat /\ DOMAIN module = 1..Len(module)
    BY <1>1, ModuleShape
  <2> QED BY <1>1, <2>1 DEF Types
<1>3. ASSUME NEW p, Valid(p)
      PROVE  /\ p.fn \in 1..Len(module) /\ p.block \in Nat \ {0}
             /\ p.fn = pos.fn => p.block <= Len(module[pos.fn].name)
  <2>1. p.fn \in 1..Len(module)
    BY <1>2, <1>3 DEF Valid
  <2>2. DOMAIN module[p.fn].name = 1..Len(module[p.fn].name) /\ Len(module[p.fn].name) \in Nat
    BY <1>1, <1>2, <2>1, ModuleShape
  <2>3. p.block \in 1..Len(module[p.fn].name)
    BY <1>3, <2>2 DEF Valid
  <2> QED BY <2>1, <2>2, <2>3
<1>4. ASSUME NEW p, Valid(p) PROVE Analysed(p)' <=> Analysed(p)
  <2>1. CASE /\ pos.block < Len(module[pos.fn].name)
             /\ pos' = Position(pos.fn, pos.block + 1, 1) /\ pc' = "block"
    <3>1. pos'.fn = pos.fn /\ pos'.block = pos.block + 1
      BY <2>1 DEF Position
    <3> QED BY <1>1, <1>2, <1>3, <1>4, <2>1, <3>1 DEF Analysed, Analysing
  <2>2. CASE /\ pos.block = Len(module[pos.fn].name) /\ pos.fn < Len(module)
             /\ pos' = Position(pos.fn + 1, 1, 1) /\ pc' = "block"
    <3>1. pos'.fn = pos.fn + 1 /\ pos'.block = 1
      BY <2>2 DEF Position
    <3> QED BY <1>1, <1>2, <1>3, <1>4, <2>2, <3>1 DEF Analysed, Analysing
  <2>3. CASE /\ pos.block = Len(module[pos.fn].name) /\ ~(pos.fn < Len(module))
             /\ pos' = pos /\ pc' = "done"
    BY <1>1, <1>2, <1>3, <1>4, <2>3 DEF Analysed, Analysing
  <2> QED BY <1>1, <2>1, <2>2, <2>3
<1>5. \A p : (Valid(p)' <=> Valid(p)) /\ Analyses(p)' = Analyses(p)
  BY <1>1, SameModule DEF Analyses, NameOf
<1>6. Fresh'
  BY <1>1, <1>4, <1>5 DEF Fresh
<1>7. ASSUME NEW p, Valid(p), Good(p.fn)', Analysed(p) PROVE Good(p.fn)
  <2>1. Analysable(module, p.fn) /\ (Undisturbed(module, p.fn) \/ (p.fn = pos'.fn /\ pc' \in Analysing))
    BY <1>1, <1>7 DEF Good, Analysable, Undisturbed
  <2>2. CASE Undisturbed(module, p.fn)
    BY <2>1, <2>2 DEF Good
  <2>3. CASE p.fn = pos'.fn /\ pc' \in Analysing
    <3>1. pos'.fn = pos.fn \/ pos'.fn = pos.fn + 1
      BY <1>1 DEF Position
    <3>2. pos'.fn # pos.fn + 1
      BY <1>1, <1>2, <1>7, <2>3 DEF Analysed, Analysing
    <3> QED BY <1>1, <2>1, <2>3, <3>1, <3>2 DEF Good, Analysing
  <2> QED BY <2>1, <2>2, <2>3
<1>8. ASSUME NEW p, Valid(p), Good(p.fn), Analysed(p) PROVE Fixed(E, p)'
  <2>1. Fixed(E, p) /\ Analysable(module, p.fn)
    BY <1>1, <1>8 DEF Facts, Good
  <2> QED BY <1>1, <1>5, <1>8, <2>1, SameFixed
<1>9. Facts(E)'
  BY <1>1, <1>4, <1>5, <1>7, <1>8 DEF Facts
<1> QED BY <1>1, <1>6, <1>9 DEF WeirdOnlyInLoops

\* A division by zero ends the pass, and the program that runs changes no fact.
LEMMA OthersFixed ==
  ASSUME NEW E, Inv(E),
         DivideByZero \/ LoopDividesByZero \/ Call \/ Execute \/ Trap \/ Jump \/ Return \/ UNCHANGED vars
  PROVE  (Fresh /\ Facts(E) /\ WeirdOnlyInLoops)'
<1>1. /\ Types /\ Fresh /\ Facts(E) /\ WeirdOnlyInLoops
      /\ module' = module /\ blockInstAnalysis' = blockInstAnalysis
  BY DEF Inv, DivideByZero, LoopDividesByZero, Call, Execute, Trap, Jump, Return, vars
<1>2. CASE UNCHANGED vars
  <2>1. /\ module' = module /\ blockInstAnalysis' = blockInstAnalysis /\ pc' = pc /\ pos' = pos
        /\ incomingEdge' = incomingEdge /\ visitedBlocks' = visitedBlocks
    BY <1>2 DEF vars
  <2>2. /\ \A p : (Valid(p)' <=> Valid(p)) /\ Analyses(p)' = Analyses(p) /\ (Analysed(p)' <=> Analysed(p))
        /\ \A k : Good(k)' <=> Good(k)
    BY <2>1, SameModule DEF Analyses, NameOf, Analysed, Good, Analysable, Undisturbed
  <2>3. ASSUME NEW p, Valid(p), Good(p.fn), Analysed(p), pc # "crashed" PROVE Fixed(E, p)'
    <3>1. Fixed(E, p) /\ Analysable(module, p.fn)
      BY <1>1, <2>3 DEF Facts, Good
    <3> QED BY <1>1, <2>2, <2>3, <3>1, SameFixed
  <2>4. ASSUME pc = "instructions", Good(pos.fn) PROVE Expected(pos)' = Expected(pos)
    <3>1. Valid(pos) /\ Analysable(module, pos.fn)
      BY <1>1, <2>4 DEF Types, Valid, Good
    <3>2. \A p : p = pos => Expected(p)' = Expected(p)
      BY <1>1, <2>2, <2>4, <3>1, SameExpected
    <3> QED BY <2>1, <3>2
  <2>5. Facts(E)'
    BY <1>1, <2>1, <2>2, <2>3, <2>4 DEF Facts
  <2> QED BY <1>1, <2>1, <2>2, <2>5 DEF Fresh, WeirdOnlyInLoops, Analysable
<1>3. CASE DivideByZero \/ LoopDividesByZero
  <2>1. pc' = "crashed" /\ pos' = pos /\ visitedBlocks' = visitedBlocks /\ visitedBlocks = 1..pos.block
    BY <1>3 DEF DivideByZero, LoopDividesByZero, Inv, Types
  <2>2. pos.block \in visitedBlocks
    <3>1. DOMAIN module[pos.fn].name = 1..Len(module[pos.fn].name) /\ pos.block \in DOMAIN module[pos.fn].name
      BY <1>1, ModuleShape DEF Types
    <3> QED BY <2>1, <3>1
  <2> QED BY <2>1, <2>2 DEF Fresh, Facts, WeirdOnlyInLoops, Analysed, Analysing
<1>4. CASE Call \/ Execute \/ Trap \/ Jump \/ Return
  <2>1. pc \in {"done", "run"} /\ pc' \in {"run", "returned"}
    BY <1>4 DEF Call, Execute, Trap, Jump, Return
  <2>2. \A p : Analysed(p) /\ Analysed(p)'
    BY <2>1 DEF Analysed, Analysing
  <2>3. \A k : Good(k)' <=> Good(k)
    BY <1>1, <2>1 DEF Good, Analysing, Analysable, Undisturbed
  <2>4. \A p : (Valid(p)' <=> Valid(p)) /\ Analyses(p)' = Analyses(p)
    BY <1>1, SameModule DEF Analyses, NameOf
  <2>5. ASSUME NEW p, Valid(p), Good(p.fn) PROVE Fixed(E, p)'
    <3>1. Fixed(E, p) /\ Analysable(module, p.fn)
      BY <1>1, <2>1, <2>2, <2>5 DEF Facts, Good
    <3> QED BY <1>1, <2>2, <2>4, <2>5, <3>1, SameFixed
  <2> QED BY <2>1, <2>2, <2>3, <2>4, <2>5 DEF Fresh, Facts, WeirdOnlyInLoops
<1> QED BY <1>2, <1>3, <1>4

\* The facts that stand, as an invariant of every closed analysis.
LEMMA FactsKept ==
  ASSUME NEW I, NEW T, NEW N, NEW E, NEW S, MadeOf(I, T, N), Closed(I, T, N, E, S)
  PROVE  Spec => []Inv(E)
<1>1. Init => Inv(E)
  BY StartsTyped, StartsFixed DEF Inv
<1>2. Inv(E) /\ [Next]_vars => Inv(E)'
  <2> SUFFICES ASSUME Inv(E), [Next]_vars PROVE Inv(E)'
    OBVIOUS
  <2>1. (Types /\ Ends)'
    BY EnterBlockTyped, AnalyseInstructionTyped, CheckSuccessorTyped, NextBlockTyped, OthersTyped
    DEF Next, Stopped, Inv
  <2>2. (Fresh /\ Facts(E) /\ WeirdOnlyInLoops)'
    BY EnterBlockFixed, AnalyseInstructionFixed, CheckSuccessorFixed, NextBlockFixed, OthersFixed
    DEF Next, Stopped
  <2> QED BY <2>1, <2>2 DEF Inv
<1> QED BY <1>1, <1>2, PTL DEF Spec

\* For every analysis whose edges are closed under it, on every module: in a function
\* without loops every branch is asked for the edges to its successors only.
THEOREM BranchesAskedRight ==
  ASSUME NEW I, NEW T, NEW N, NEW E, NEW S, MadeOf(I, T, N), Closed(I, T, N, E, S)
  PROVE  Spec => []WeirdOnlyInLoops
<1>1. Inv(E) => WeirdOnlyInLoops
  BY DEF Inv
<1> QED BY <1>1, FactsKept, PTL

\* The only analysis of an instruction whose fact stands.
LEMMA ChosenAnalysis ==
  ASSUME NEW E, NEW p, Fixed(E, p)
  PROVE  LET c == CHOOSE a \in Analyses(p) : TRUE
         IN  c.at = p /\ c.in = Fact(p) /\ Analyses(p) = {c} /\ Fact(p) = Expected(p) /\ Fact(p) \in E
<1>1. PICK e \in E : Analyses(p) = {[at |-> p, in |-> e]} /\ e = Expected(p)
  BY DEF Fixed
<1>2. Fact(p) = e
  BY <1>1, FactOfOne
<1>3. (CHOOSE a \in Analyses(p) : TRUE) = [at |-> p, in |-> e]
  BY <1>1
<1> QED BY <1>1, <1>2, <1>3

\* A function whose facts are all fixed has solved its equations.
LEMMA FixedFactsFollow ==
  ASSUME NEW E, Types, NEW k \in DOMAIN module, Analysable(module, k),
         \A p : Valid(p) /\ p.fn = k => Fixed(E, p), pc \notin Analysing
  PROVE  FixedFacts(k)
<1>1. module \in Module /\ DOMAIN module[k].code = DOMAIN module[k].name
  BY ModuleShape DEF Types
<1>2. SUFFICES ASSUME NEW b \in DOMAIN module[k].code, NEW i \in DOMAIN module[k].code[b],
                      NEW a \in Analyses(Position(k, b, i))
               PROVE  a.in = IF i > 1
                        THEN LET before == CHOOSE c \in Analyses(Position(k, b, i - 1)) : TRUE
                             IN  Flow(Instr(before.at), before.in)
                        ELSE LET preds == module[k].preds[b]
                                 last(p) == CHOOSE c \in Analyses(Position(k, p, Len(module[k].code[p]))) : TRUE
                             IN  Merged([n \in DOMAIN preds |->
                                           EdgeTo(Instr(last(preds[n]).at), last(preds[n]).in,
                                                  Side(last(preds[n]).at, k, b))])
  BY DEF FixedFacts
<1> DEFINE p == Position(k, b, i)
<1>3. Valid(p) /\ p.fn = k /\ p.block = b /\ p.i = i /\ Before(p) = Position(k, b, i - 1)
  <2>1. k \in Nat /\ b \in Nat /\ i \in Nat
    <3>1. DOMAIN module = 1..Len(module) /\ DOMAIN module[k].name = 1..Len(module[k].name)
          /\ DOMAIN module[k].code[b] = 1..Len(module[k].code[b])
      BY <1>1, ModuleShape
    <3> QED BY <1>1, <3>1
  <2> QED BY <1>1, <2>1 DEF Valid, Position, Before
<1>4. Analysed(p)
  BY DEF Analysed
<1>5. a.in = Expected(p)
  BY <1>3, ChosenAnalysis
<1> HIDE DEF p
<1>6. CASE i > 1
  <2>1. Valid(Before(p)) /\ Before(p).fn = k
    BY <1>3, <1>4, <1>6, Dependencies
  <2>2. Fixed(E, Before(p))
    BY <2>1
  <2> DEFINE before == CHOOSE c \in Analyses(Position(k, b, i - 1)) : TRUE
  <2>3. before.at = Before(p) /\ before.in = Fact(Before(p))
    BY <1>3, <2>2, ChosenAnalysis
  <2>4. Expected(p) = Flow(Instr(Before(p)), Fact(Before(p)))
    BY <1>3, <1>6 DEF Expected
  <2> HIDE DEF before
  <2>5. a.in = Flow(Instr(before.at), before.in)
    BY <1>5, <2>3, <2>4
  <2> QED BY <1>6, <2>5 DEF before
<1>7. CASE ~(i > 1)
  <2> DEFINE preds == module[k].preds[b]
             last(q) == CHOOSE c \in Analyses(Position(k, q, Len(module[k].code[q]))) : TRUE
  <2>1. ASSUME NEW n \in DOMAIN preds
        PROVE  last(preds[n]).at = LastOf(k, preds[n]) /\ last(preds[n]).in = Fact(LastOf(k, preds[n]))
    <3>1. Valid(LastOf(k, preds[n])) /\ LastOf(k, preds[n]).fn = k
      BY <1>3, <1>4, Dependencies
    <3>2. Fixed(E, LastOf(k, preds[n]))
      BY <3>1
    <3> QED BY <3>2, ChosenAnalysis DEF LastOf
  <2>2. KnownEdges(k, b) = [n \in DOMAIN preds |->
                              EdgeTo(Instr(last(preds[n]).at), last(preds[n]).in,
                                     Side(last(preds[n]).at, k, b))]
    <3> HIDE DEF last
    <3> QED BY <2>1, Zenon DEF KnownEdges
  <2>3. Expected(p) = Merged(KnownEdges(k, b))
    BY <1>3, <1>7 DEF Expected
  <2> QED BY <1>5, <1>7, <2>2, <2>3
<1> QED BY <1>6, <1>7

\* For every analysis whose edges are closed under it, on every module: when the pass
\* ends, the facts of a function without loops, and without a loop in a later function
\* that it shares names with, solve its equations.
THEOREM EquationsSolved ==
  ASSUME NEW I, NEW T, NEW N, NEW E, NEW S, MadeOf(I, T, N), Closed(I, T, N, E, S)
  PROVE  Spec => []Solved
<1>1. Inv(E) => Solved
  <2> SUFFICES ASSUME Inv(E), pc = "done", NEW k \in DOMAIN module,
                      Analysable(module, k), Undisturbed(module, k)
               PROVE  FixedFacts(k)
    BY DEF Solved
  <2>1. pc \notin Analysing /\ Types
    BY DEF Analysing, Inv
  <2>2. \A p : Valid(p) /\ p.fn = k => Fixed(E, p)
    BY <2>1 DEF Inv, Facts, Good, Analysed
  <2> QED BY <2>1, <2>2, FixedFactsFollow
<1> QED BY <1>1, FactsKept, PTL

-----------------------------------------------------------------------------
(* Soundness.                                                              *)

\* The edge before an instruction is known once the function was woken.
Known(p) ==
  p.block > 1 \/ \E i \in 1..(p.i - 1) : Wakes(module[p.fn].code[1][i])

Runs(S) ==
  pc = "run" /\ Analysable(module, pos.fn) /\ Undisturbed(module, pos.fn) /\ Reliable(pos.fn) =>
    /\ store \in S
    /\ Holds(Fact(pos), store)
    /\ Known(pos) => Fact(pos) # Bottom

\* What holds of the function that runs.
LEMMA RunFixed ==
  ASSUME NEW E, Inv(E), pc \notin Analysing \cup {"crashed"}, NEW p, Valid(p),
         Analysable(module, p.fn), Undisturbed(module, p.fn)
  PROVE  /\ Fixed(E, p)
         /\ Fact(p) = Expected(p) /\ Fact(p) \in E /\ Flow(Instr(p), Fact(p)) \in E
         /\ Analyses(p) # {} /\ \A a \in Analyses(p) : a.in = Fact(p)
         /\ Reliable(p.fn) => Trusted(Instr(p), Fact(p))
<1>1. Fixed(E, p)
  BY DEF Inv, Facts, Good, Analysed
<1>2. Fact(p) = Expected(p) /\ Fact(p) \in E /\ Analyses(p) # {} /\ \A a \in Analyses(p) : a.in = Fact(p)
  BY <1>1, ChosenAnalysis
<1>3. Flow(Instr(p), Fact(p)) \in E
  <2>1. PICK e \in E : Analyses(p) = {[at |-> p, in |-> e]} /\ Flow(Instr(p), e) \in E
    BY <1>1 DEF Fixed
  <2>2. Fact(p) = e
    BY <2>1, FactOfOne
  <2> QED BY <2>1, <2>2
<1>4. Reliable(p.fn) => Trusted(Instr(p), Fact(p))
  <2>1. p = Position(p.fn, p.block, p.i)
    BY DEF Valid, Position
  <2>2. p.block \in DOMAIN module[p.fn].code /\ p.i \in DOMAIN module[p.fn].code[p.block]
    BY ModuleShape DEF Inv, Types, Valid
  <2>3. PICK a : a \in Analyses(p) /\ a.in = Fact(p)
    BY <1>2
  <2>4. Reliable(p.fn) => \A c \in Analyses(p) : Trusted(module[p.fn].code[p.block][p.i], c.in)
    BY <2>1, <2>2 DEF Reliable
  <2> QED BY <2>3, <2>4 DEF Instr
<1> QED BY <1>1, <1>2, <1>3, <1>4

\* In the program that runs, facts and everything about them stay.
LEMMA RunKeepsFacts ==
  ASSUME Call \/ Execute \/ Jump
  PROVE  /\ module' = module
         /\ \A p : Analyses(p)' = Analyses(p) /\ Fact(p)' = Fact(p)
         /\ \A k : Reliable(k)' <=> Reliable(k)
         /\ \A k : Analysable(module', k) <=> Analysable(module, k)
         /\ \A k : Undisturbed(module', k) <=> Undisturbed(module, k)
<1>1. module' = module /\ blockInstAnalysis' = blockInstAnalysis
  BY DEF Call, Execute, Jump
<1>2. \A p : Analyses(p)' = Analyses(p)
  BY <1>1 DEF Analyses, NameOf
<1>3. \A k : Reliable(k)' <=> Reliable(k)
  BY <1>1, <1>2 DEF Reliable
<1> QED BY <1>1, <1>2, <1>3 DEF Fact

\* A function starts with nothing known, and nothing is claimed of its store.
LEMMA CallSound ==
  ASSUME NEW I, NEW T, NEW N, NEW E, NEW S, Lawful(I, T, N, E, S), Inv(E), Call
  PROVE  Runs(S)'
<1>1. pc = "done" /\ store' \in InitStore /\ Types /\ module \in Module
  BY DEF Call, Inv, Types
<1>2. PICK k \in DOMAIN module : pos' = Position(k, 1, 1)
  BY DEF Call
<1>3. SUFFICES ASSUME Analysable(module, k), Undisturbed(module, k)
               PROVE  /\ store' \in S
                      /\ Holds(Fact(Position(k, 1, 1)), store')
                      /\ ~Known(Position(k, 1, 1))
  <2>1. pos'.fn = k
    BY <1>2 DEF Position
  <2>2. \A p : p = Position(k, 1, 1) => (Fact(p)' = Fact(p) /\ (Known(p)' <=> Known(p)))
    BY RunKeepsFacts DEF Known
  <2>3. (Fact(pos)' = Fact(Position(k, 1, 1))) /\ (Known(pos)' <=> Known(Position(k, 1, 1)))
    BY <1>2, <2>2
  <2> QED BY <1>3, <2>1, <2>3, RunKeepsFacts DEF Runs
<1> DEFINE p == Position(k, 1, 1)
<1>4. p.fn = k /\ p.block = 1 /\ p.i = 1
  BY DEF Position
<1>5. Valid(p) /\ 1 \in DOMAIN module[k].name
  <2>1. k \in Nat /\ 1 \in DOMAIN module[k].name
    BY <1>1, ModuleShape
  <2>2. DOMAIN module[k].code[1] = 1..Len(module[k].code[1]) /\ Len(module[k].code[1]) \in Nat \ {0}
    BY <1>1, <2>1, ModuleShape
  <2> QED BY <1>4, <2>1, <2>2 DEF Valid, Position
<1>6. Fact(p) = Bottom
  <2>1. Fact(p) = Expected(p)
    BY <1>1, <1>3, <1>4, <1>5, RunFixed DEF Analysing
  <2>2. Expected(p) = Merged(KnownEdges(k, 1))
    BY <1>4 DEF Expected
  <2>3. DOMAIN module[k].preds[1] = {}
    <3>1. \A n \in DOMAIN module[k].preds[1] :
            module[k].preds[1][n] \in DOMAIN module[k].name /\ module[k].preds[1][n] < 1
      BY <1>1, <1>3, <1>5, Predecessors
    <3>2. DOMAIN module[k].name = 1..Len(module[k].name)
      BY <1>1, ModuleShape
    <3> QED BY <3>1, <3>2
  <2>4. DOMAIN KnownEdges(k, 1) = 1..0
    BY <2>3 DEF KnownEdges
  <2> DEFINE edges == KnownEdges(k, 1)
  <2>5. Merged(edges) = Bottom
    <3>1. PICK m \in Nat : m = 0
      OBVIOUS
    <3>2. Closed(I, T, N, E, S)
      BY DEF Lawful
    <3> HIDE DEF edges
    <3>3. m <= 3 /\ DOMAIN edges = 1..m /\ \A n \in 1..m : edges[n] \in E
      <4>1. m <= 3 /\ \A n \in 1..m : FALSE
        BY <3>1
      <4>2. DOMAIN edges = 1..m
        BY <2>4, <3>1 DEF edges
      <4> QED BY <4>1, <4>2
    <3>4. m = 0 => Merged(edges) = Bottom
      BY <3>2, <3>3, MergedLawful
    <3> QED BY <3>1, <3>4
  <2> QED BY <2>1, <2>2, <2>5
<1>7. ~Known(p)
  BY <1>4 DEF Known
<1>8. store' \in S /\ Holds(Bottom, store')
  BY <1>1 DEF Lawful, Closed, FollowsRuns
<1> QED BY <1>6, <1>7, <1>8

\* The flow follows an instruction that runs.
LEMMA ExecuteSound ==
  ASSUME NEW I, NEW T, NEW N, NEW E, NEW S, Lawful(I, T, N, E, S), Inv(E), Runs(S), Execute
  PROVE  Runs(S)'
<1>1. /\ pc = "run" /\ pos' = [pos EXCEPT !.i = @ + 1] /\ store' \in Stores(Instr(pos), store)
      /\ pos.i < Len(module[pos.fn].code[pos.block]) /\ Types /\ Valid(pos)
      /\ pos \in [fn : Nat, block : Nat, i : Nat] /\ module \in Module
  BY DEF Execute, Inv, Types, Valid
<1>2. pos'.fn = pos.fn /\ pos'.block = pos.block /\ pos'.i = pos.i + 1 /\ Before(pos') = pos
      /\ pos.i \in Nat \ {0}
  <2>1. pos.i \in 1..Len(module[pos.fn].code[pos.block]) /\ Len(module[pos.fn].code[pos.block]) \in Nat
    BY <1>1, ModuleShape DEF Valid
  <2> QED BY <1>1, <2>1 DEF Before, Position
<1>3. Valid(pos')
  <2>1. DOMAIN module[pos.fn].code[pos.block] = 1..Len(module[pos.fn].code[pos.block])
        /\ Len(module[pos.fn].code[pos.block]) \in Nat
    BY <1>1, ModuleShape DEF Valid
  <2>2. pos.i + 1 \in DOMAIN module[pos.fn].code[pos.block]
    BY <1>1, <1>2, <2>1
  <2> QED BY <1>1, <1>2, <2>2 DEF Valid
<1>4. SUFFICES ASSUME Analysable(module, pos.fn), Undisturbed(module, pos.fn), Reliable(pos.fn)
               PROVE  /\ store' \in S
                      /\ Holds(Fact(pos'), store')
                      /\ Known(pos') => Fact(pos') # Bottom
  <2>1. \A p : p = pos' => (Fact(p)' = Fact(p) /\ (Known(p)' <=> Known(p)))
    BY RunKeepsFacts DEF Known
  <2>2. (Fact(pos)' = Fact(pos')) /\ (Known(pos)' <=> Known(pos'))
    BY <2>1
  <2> QED BY <1>2, <1>4, <2>2, RunKeepsFacts DEF Runs
<1>5. /\ store \in S /\ Holds(Fact(pos), store)
      /\ Known(pos) => Fact(pos) # Bottom
  BY <1>1, <1>4 DEF Runs
<1>6. /\ Fact(pos) \in E /\ Flow(Instr(pos), Fact(pos)) \in E
      /\ Trusted(Instr(pos), Fact(pos)) /\ Instr(pos) \in I
  <2>1. Instr(pos) \in I
    BY <1>1, InstructionsLawful DEF Lawful
  <2> QED BY <1>1, <1>4, <2>1, RunFixed DEF Analysing
<1>7. Fact(pos') = Flow(Instr(pos), Fact(pos))
  <2>1. Fact(pos') = Expected(pos')
    BY <1>1, <1>2, <1>3, <1>4, RunFixed DEF Analysing
  <2> QED BY <1>2, <2>1 DEF Expected
<1>8. store' \in S /\ Holds(Fact(pos'), store')
  <2>1. Flow(Instr(pos), Fact(pos)) # Null
    BY <1>6 DEF Lawful, Closed
  <2> QED BY <1>1, <1>5, <1>6, <1>7, <2>1 DEF Lawful, Closed, FollowsRuns
<1>9. ASSUME Known(pos') PROVE Fact(pos') # Bottom
  <2>1. Known(pos) \/ Wakes(Instr(pos))
    <3>1. CASE pos'.block > 1
      BY <1>2, <3>1 DEF Known
    <3>2. CASE ~(pos'.block > 1)
      <4>1. PICK i \in 1..(pos'.i - 1) : Wakes(module[pos'.fn].code[1][i])
        BY <1>9, <3>2 DEF Known
      <4>2. pos.block = 1
        <5>1. pos.block \in 1..Len(module[pos.fn].name)
          BY <1>1, ModuleShape DEF Valid
        <5> QED BY <1>1, <1>2, <3>2, <5>1
      <4>3. i \in 1..(pos.i - 1) \/ i = pos.i
        BY <1>2
      <4> QED BY <1>2, <4>1, <4>2, <4>3 DEF Known, Instr
    <3> QED BY <3>1, <3>2
  <2> QED BY <1>5, <1>6, <1>7, <2>1 DEF Lawful, StaysKnown
<1> QED BY <1>8, <1>9

\* A branch takes an edge that holds, to a block whose facts say no more than it.
LEMMA JumpSound ==
  ASSUME NEW I, NEW T, NEW N, NEW E, NEW S, Lawful(I, T, N, E, S), Inv(E), Runs(S), Jump
  PROVE  Runs(S)'
<1>1. PICK k, b, n :
        /\ k = pos.fn /\ n \in DOMAIN module[k].succ[pos.block]
        /\ n \in Branches(Instr(pos), store) /\ b = module[k].succ[pos.block][n]
        /\ pos' = Position(k, b, 1)
  BY DEF Jump
<1>2. /\ pc = "run" /\ pos.i = Len(module[k].code[pos.block]) /\ Types /\ Valid(pos)
      /\ store' = store /\ module \in Module /\ k \in DOMAIN module /\ pos.block \in DOMAIN module[k].name
      /\ pos \in [fn : Nat, block : Nat, i : Nat]
  BY <1>1 DEF Jump, Inv, Types, Valid
<1>3. /\ b \in DOMAIN module[k].name /\ b \in Nat /\ Valid(pos')
      /\ pos'.fn = k /\ pos'.block = b /\ pos'.i = 1
  <2>1. b \in DOMAIN module[k].name
    BY <1>1, <1>2, ModuleShape
  <2>2. DOMAIN module[k].name = 1..Len(module[k].name)
    BY <1>2, ModuleShape
  <2>3. DOMAIN module[k].code[b] = 1..Len(module[k].code[b]) /\ Len(module[k].code[b]) \in Nat \ {0}
    BY <1>2, <2>1, ModuleShape
  <2>4. k \in Nat /\ b \in Nat /\ 1 \in DOMAIN module[k].code[b]
    BY <1>1, <1>2, <2>1, <2>2, <2>3
  <2> QED BY <1>1, <1>2, <2>1, <2>4 DEF Valid, Position
<1>4. SUFFICES ASSUME Analysable(module, k), Undisturbed(module, k), Reliable(k)
               PROVE  /\ store \in S
                      /\ Holds(Fact(pos'), store)
                      /\ Fact(pos') # Bottom
  <2>1. \A p : p = pos' => Fact(p)' = Fact(p)
    BY RunKeepsFacts
  <2>2. Fact(pos)' = Fact(pos')
    BY <2>1
  <2> QED BY <1>2, <1>3, <1>4, <2>2, RunKeepsFacts DEF Runs
<1>5. pos = LastOf(k, pos.block)
  BY <1>1, <1>2 DEF LastOf, Position
<1>6. /\ store \in S /\ Holds(Fact(pos), store) /\ Fact(pos) # Bottom
  <2>1. Known(pos)
    <3>1. CASE pos.block > 1
      BY <3>1 DEF Known
    <3>2. CASE ~(pos.block > 1)
      <4>1. pos.block = 1
        <5>1. pos.block \in 1..Len(module[k].name)
          BY <1>2, ModuleShape
        <5> QED BY <1>2, <3>2, <5>1
      <4>2. \E i \in 1..(Len(module[k].code[1]) - 1) : Wakes(module[k].code[1][i])
        BY <1>4 DEF Analysable
      <4> QED BY <1>1, <1>2, <4>1, <4>2 DEF Known
    <3> QED BY <3>1, <3>2
  <2> QED BY <1>1, <1>2, <1>4, <2>1 DEF Runs
<1>7. /\ Fact(pos) \in E /\ Trusted(Instr(pos), Fact(pos))
      /\ Instr(pos) \in T /\ n \in N
  <2>1. Instr(pos) \in T /\ n \in N
    BY <1>1, <1>2, InstructionsLawful DEF Lawful
  <2> QED BY <1>1, <1>2, <1>4, <2>1, RunFixed DEF Analysing
<1> DEFINE edge == EdgeTo(Instr(pos), Fact(pos), n)
<1>8. edge \in E /\ edge # Bottom /\ Holds(edge, store)
  BY <1>1, <1>6, <1>7 DEF Lawful, Closed, FollowsRuns, StaysKnown
<1>9. PICK m \in DOMAIN module[k].preds[b] : module[k].preds[b][m] = pos.block
  <2>1. b \in Range(module[k].succ[pos.block])
    BY <1>1 DEF Range
  <2>2. Range(module[k].preds[b]) = {p \in DOMAIN module[k].name : b \in Range(module[k].succ[p])}
    BY <1>2, <1>3, ModuleShape
  <2>3. pos.block \in Range(module[k].preds[b])
    BY <1>2, <2>1, <2>2
  <2> QED BY <2>3 DEF Range
<1> DEFINE edges == KnownEdges(k, b)
<1>10. edges[m] = edge
  <2>1. Side(pos, k, b) = n
    BY <1>1, <1>2, <1>4, <1>5, OneSide
  <2>2. edges[m] = EdgeTo(Instr(LastOf(k, pos.block)), Fact(LastOf(k, pos.block)),
                          Side(LastOf(k, pos.block), k, b))
    BY <1>9 DEF KnownEdges
  <2> QED BY <1>5, <2>1, <2>2
<1>11. Fact(pos') = Merged(edges)
  <2>1. Fact(pos') = Expected(pos')
    BY <1>2, <1>3, <1>4, RunFixed DEF Analysing
  <2> QED BY <1>3, <2>1 DEF Expected
<1>12. PICK count \in Nat :
         /\ DOMAIN edges = 1..count /\ count <= 3 /\ m \in 1..count
         /\ \A q \in 1..count : edges[q] \in E
  <2>1. \A c \in DOMAIN module[k].name : Fixed(E, LastOf(k, c))
    BY <1>2, <1>4, LastValid, RunFixed DEF Analysing
  <2>2. DOMAIN module[k].preds[b] = 1..Len(module[k].preds[b])
    BY <1>2, <1>3, ModuleShape
  <2>3. MadeOf(I, T, N) /\ Closed(I, T, N, E, S)
    BY DEF Lawful
  <2> HIDE DEF edges
  <2>4. /\ DOMAIN KnownEdges(k, b) = 1..Len(module[k].preds[b])
        /\ Len(module[k].preds[b]) \in Nat /\ Len(module[k].preds[b]) <= 3
        /\ \A q \in 1..Len(module[k].preds[b]) : KnownEdges(k, b)[q] \in E
    BY <1>2, <1>3, <1>4, <2>1, <2>3, KnownEdgesLawful
  <2> QED BY <1>9, <2>2, <2>4 DEF edges
<1> HIDE DEF edges, edge
<1>13. Closed(I, T, N, E, S) /\ FollowsRuns(I, T, N, E, S) /\ StaysKnown(I, T, N, E)
  BY DEF Lawful
<1>14. edges[m] # Bottom /\ Holds(edges[m], store) /\ store \in S
  BY <1>6, <1>8, <1>10
<1>15. Merged(edges) # Bottom
  BY <1>12, <1>13, <1>14, MergedLawful
<1>16. Holds(Merged(edges), store)
  BY <1>12, <1>13, <1>14, MergedLawful
<1> QED BY <1>6, <1>11, <1>15, <1>16

\* The facts that stand and what holds of the run, as one invariant.
LEMMA SoundKept ==
  ASSUME NEW I, NEW T, NEW N, NEW E, NEW S, Lawful(I, T, N, E, S)
  PROVE  Spec => [](Inv(E) /\ Runs(S))
<1>1. Spec => []Inv(E)
  BY FactsKept DEF Lawful
<1>2. Init => Runs(S)
  BY DEF Init, Runs
<1>3. Inv(E) /\ Runs(S) /\ [Next]_vars => Runs(S)'
  <2> SUFFICES ASSUME Inv(E), Runs(S), [Next]_vars PROVE Runs(S)'
    OBVIOUS
  <2>1. CASE Call
    BY <2>1, CallSound
  <2>2. CASE Execute
    BY <2>2, ExecuteSound
  <2>3. CASE Jump
    BY <2>3, JumpSound
  <2>4. CASE UNCHANGED vars
    BY <2>4 DEF vars, Runs, Known, Fact, Analyses, NameOf, Reliable, Analysable, Undisturbed
  <2>5. CASE EnterBlock \/ AnalyseInstruction \/ DivideByZero \/ CheckSuccessor \/ LoopDividesByZero
             \/ NextBlock \/ Trap \/ Return
    <3>1. pc' # "run"
      BY <2>5 DEF EnterBlock, AnalyseInstruction, DivideByZero, CheckSuccessor, LoopDividesByZero,
         NextBlock, Trap, Return
    <3> QED BY <3>1 DEF Runs
  <2> QED BY <2>1, <2>2, <2>3, <2>4, <2>5 DEF Next, Stopped
<1> QED BY <1>1, <1>2, <1>3, PTL DEF Spec

\* For every lawful analysis, on every module of any number of functions and blocks: in
\* a function without loops, that no later loop disturbs and whose instructions the
\* analysis gets right, what is printed before an instruction is true whenever a run of
\* the function gets there, although the analyses of all functions are kept together.
THEOREM Soundness ==
  ASSUME NEW I, NEW T, NEW N, NEW E, NEW S, Lawful(I, T, N, E, S)
  PROVE  Spec => []Sound
<1>1. Inv(E) /\ Runs(S) => Sound
  <2> SUFFICES ASSUME Inv(E), Runs(S), pc = "run", Analysable(module, pos.fn),
                      Undisturbed(module, pos.fn), Reliable(pos.fn)
               PROVE  Analyses(pos) # {} /\ \A a \in Analyses(pos) : Holds(a.in, store)
    BY DEF Sound
  <2>1. Valid(pos)
    BY DEF Inv, Types, Valid
  <2>2. Analyses(pos) # {} /\ \A a \in Analyses(pos) : a.in = Fact(pos)
    BY <2>1, RunFixed DEF Analysing
  <2> QED BY <2>2 DEF Runs
<1> QED BY <1>1, SoundKept, PTL

-----------------------------------------------------------------------------
(* Constant propagation.                                                   *)

\* The pass is that of constant propagation.
ConstantPropagation ==
  /\ Bottom = BottomEdge /\ Null = NoEdge
  /\ \A d, e : Merge(d, e) = MergeConstants(d, e)
  /\ \A i, e : Flow(i, e) = FlowConstants(i, e)
  /\ \A i, e, n : EdgeTo(i, e, n) = ConstantsTo(i, e, n)
  /\ \A i : Wakes(i) <=> SetsFacts(i)
  /\ \A i, e : Trusted(i, e) <=> FoldsRight(i, e)
  /\ \A e, s : Holds(e, s) <=> FactsHold(e, s)
  /\ \A i, s : Stores(i, s) = StoresAfter(i, s)
  /\ \A i, s : Branches(i, s) = BranchesOf(i, s)

\* The instructions on the names in Name.  An alloca needs none, for memory holds
\* anything when a function starts; phi nodes are not among them.
Operand(Name) == [const : Integer] \cup [name : Name]

Instruction(Name) ==
  {i \in [op : STRING, to : Name, args : Seq(Operand(Name)), test : STRING] :
     /\ i.op \notin {"alloca", "phi"}
     /\ i.op \in {"store", "load"} => 1 \in DOMAIN i.args
     /\ i.op \in BinaryOp \/ (i.op = "br" /\ i.test # "none") => {1, 2} \subseteq DOMAIN i.args}

Terminator(Name) == {i \in Instruction(Name) : ~SetsFacts(i)}

\* What is known of some names, and the edges and stores of the names in Name.
KnownConstants(Name) == UNION {[D -> Integer \cup {Garbage}] : D \in SUBSET Name}
ConstantEdge(Name) == {BottomEdge} \cup {Edge(f) : f \in KnownConstants(Name)}
IntegerStore(Name) == [Name -> Integer]

-----------------------------------------------------------------------------
(* Integers.                                                               *)

\* The numbers that have Width bits are half negative.
LEMMA HalfRange == 2^(Width - 1) \in Nat \ {0} /\ 2^Width = 2 * 2^(Width - 1)
<1>1. Width - 1 \in 0..(Width - 1)
  BY WidthAssumption
<1> QED BY <1>1, WidthAssumption

\* The low bits of a number make an integer of the program.
LEMMA SignedInteger ==
  ASSUME NEW n \in Int
  PROVE  Signed(n) \in Integer
<1> DEFINE P == 2^Width
           Q == 2^(Width - 1)
<1>1. Q \in Nat \ {0} /\ P = 2 * Q
  BY HalfRange
<1>2. n % P \in 0..(P - 1)
  <2> HIDE DEF P, Q
  <2> QED BY <1>1
<1>3. Signed(n) = IF n % P >= Q THEN (n % P) - P ELSE n % P
  BY DEF Signed
<1>4. Integer = (-Q)..(Q - 1)
  BY DEF Integer, Least, Greatest
<1> QED
  <2> HIDE DEF P, Q
  <2> QED BY <1>1, <1>2, <1>3, <1>4

\* The integers of the program are integers, and an uninitialised one is none.
LEMMA GarbageIsNoInteger == Garbage \notin Integer /\ Integer \subseteq Int /\ 0 \in Integer
<1> DEFINE P == 2^Width
           Q == 2^(Width - 1)
<1>1. Q \in Nat \ {0} /\ P = 2 * Q
  BY HalfRange
<1>2. Integer = (-Q)..(Q - 1) /\ Garbage = P + 1
  BY DEF Integer, Least, Greatest, Garbage
<1> HIDE DEF P, Q
<1> QED BY <1>1, <1>2

\* A number read as unsigned.
LEMMA UnsignedOfNatural ==
  ASSUME NEW n \in Integer
  PROVE  Unsigned(n) \in Nat /\ (n >= 0 => Unsigned(n) = n) /\ (Unsigned(n) = 0 => n = 0)
<1> DEFINE P == 2^Width
           Q == 2^(Width - 1)
<1>1. Q \in Nat \ {0} /\ P = 2 * Q
  BY HalfRange
<1>2. n \in (-Q)..(Q - 1)
  BY DEF Integer, Least, Greatest
<1>3. Unsigned(n) = n % P
  BY DEF Unsigned
<1> HIDE DEF P, Q
<1> QED BY <1>1, <1>2, <1>3

\* A division that is defined leaves numbers.
LEMMA QuotientInteger ==
  ASSUME NEW a \in Int, NEW b \in Int, b # 0
  PROVE  Quotient(a, b) \in Int /\ Remainder(a, b) \in Int
<1> DEFINE abs(n) == IF n < 0 THEN -n ELSE n
<1>1. abs(a) \in Nat /\ abs(b) \in Nat \ {0}
  OBVIOUS
<1>2. abs(a) \div abs(b) \in Int
  <2> HIDE DEF abs
  <2> QED BY <1>1
<1>3. Quotient(a, b) = IF (a < 0) = (b < 0) THEN abs(a) \div abs(b) ELSE -(abs(a) \div abs(b))
  BY DEF Quotient
<1>4. Quotient(a, b) \in Int
  <2> HIDE DEF abs
  <2> QED BY <1>2, <1>3
<1>5. b * Quotient(a, b) \in Int
  BY <1>4
<1> QED BY <1>4, <1>5 DEF Remainder

\* Natural numbers are divided as C++ divides them.
LEMMA QuotientOfNaturals ==
  ASSUME NEW a \in Nat, NEW b \in Nat \ {0}
  PROVE  Quotient(a, b) = a \div b /\ Remainder(a, b) = a % b
<1>1. Quotient(a, b) = a \div b
  BY DEF Quotient
<1>2. a - b * (a \div b) = a % b
  OBVIOUS
<1> QED BY <1>1, <1>2 DEF Remainder

\* A binary operator that does not trap leaves an integer.
LEMMA MeaningInteger ==
  ASSUME NEW op \in BinaryOp, NEW a \in Integer, NEW b \in Integer,
         (op \in Division) => (b # 0)
  PROVE  Meaning(op, a, b) \in Integer
<1>1. a \in Int /\ b \in Int
  BY GarbageIsNoInteger
<1>2. Unsigned(a) \in Nat /\ Unsigned(b) \in Nat /\ (op \in Division => Unsigned(b) # 0)
  BY UnsignedOfNatural
<1>3. CASE op \in {"add", "sub", "mul"}
  <2>1. a + b \in Int /\ a - b \in Int /\ a * b \in Int
    BY <1>1
  <2>2. /\ op = "add" => Meaning(op, a, b) = Signed(a + b)
        /\ op = "sub" => Meaning(op, a, b) = Signed(a - b)
        /\ op = "mul" => Meaning(op, a, b) = Signed(a * b)
    BY DEF Meaning, Bitwise
  <2> QED BY <1>3, <2>1, <2>2, SignedInteger
<1>4. CASE op \in Division
  <2>1. Quotient(a, b) \in Int /\ Remainder(a, b) \in Int
    BY <1>1, <1>4, QuotientInteger
  <2>2. Unsigned(a) \div Unsigned(b) \in Int /\ Unsigned(a) % Unsigned(b) \in Int
    BY <1>2, <1>4
  <2>3. /\ op = "sdiv" => Meaning(op, a, b) = Signed(Quotient(a, b))
        /\ op = "udiv" => Meaning(op, a, b) = Signed(Unsigned(a) \div Unsigned(b))
        /\ op = "srem" => Meaning(op, a, b) = Signed(Remainder(a, b))
        /\ op = "urem" => Meaning(op, a, b) = Signed(Unsigned(a) % Unsigned(b))
    BY DEF Meaning, Bitwise
  <2> QED BY <1>4, <2>1, <2>2, <2>3, SignedInteger DEF Division
<1>5. CASE op \in Bitwise
  <2>1. Meaning(op, a, b) = OnBits(op, a, b)
    BY <1>5 DEF Meaning, Bitwise
  <2> QED BY <1>5, <2>1, WidthAssumption
<1>6. CASE op \in Shift
  <2>1. Meaning(op, a, b) = Signed(a * 2^(b % Width))
    BY <1>6 DEF Meaning, Bitwise, Shift
  <2>2. b % Width \in 0..(Width - 1)
    BY <1>1, WidthAssumption
  <2>3. 2^(b % Width) \in Nat
    BY <2>2, WidthAssumption
  <2>4. a * 2^(b % Width) \in Int
    BY <1>1, <2>3
  <2> QED BY <2>1, <2>4, SignedInteger
<1> QED BY <1>3, <1>4, <1>5, <1>6 DEF BinaryOp, Arithmetic
-----------------------------------------------------------------------------
(* Facts.                                                                  *)

\* An edge with facts is neither the bottom edge nor the null pointer.
LEMMA EdgeFields ==
  ASSUME NEW f
  PROVE  /\ Edge(f).facts = f /\ ~Edge(f).top /\ ~Edge(f).bottom
         /\ Edge(f) # BottomEdge /\ Edge(f) # NoEdge
         /\ BottomEdge.bottom /\ ~BottomEdge.top /\ BottomEdge.facts = NoFacts
         /\ BottomEdge # NoEdge
<1>1. "bottom" \in DOMAIN Edge(f) /\ "bottom" \in DOMAIN BottomEdge /\ "bottom" \notin DOMAIN NoEdge
  BY DEF Edge, BottomEdge, NoEdge
<1> QED BY <1>1 DEF Edge, BottomEdge

\* The facts of an edge.
LEMMA EdgeKinds ==
  ASSUME NEW Name, NEW e \in ConstantEdge(Name)
  PROVE  /\ e.facts \in KnownConstants(Name)
         /\ e = BottomEdge \/ e = Edge(e.facts)
         /\ ~e.top
         /\ e.bottom <=> e = BottomEdge
         /\ e # NoEdge
<1>1. NoFacts \in KnownConstants(Name)
  BY DEF NoFacts, KnownConstants
<1> QED BY <1>1, EdgeFields DEF ConstantEdge

\* Facts about the names in Name stay so when one is put or erased.
LEMMA PutAndErase ==
  ASSUME NEW Name, NEW f \in KnownConstants(Name), NEW x \in Name
  PROVE  /\ \A c \in Integer \cup {Garbage} : Put(f, x, c) \in KnownConstants(Name)
         /\ Erase(f, x) \in KnownConstants(Name)
<1>1. PICK D \in SUBSET Name : f \in [D -> Integer \cup {Garbage}]
  BY DEF KnownConstants
<1>2. \A c \in Integer \cup {Garbage} : Put(f, x, c) \in [D \cup {x} -> Integer \cup {Garbage}]
  BY <1>1 DEF Put
<1>3. Erase(f, x) \in [D \ {x} -> Integer \cup {Garbage}]
  BY <1>1 DEF Erase, Restrict
<1>4. D \cup {x} \in SUBSET Name /\ D \ {x} \in SUBSET Name
  BY <1>1
<1> QED BY <1>2, <1>3, <1>4 DEF KnownConstants

\* An operand is a constant or a name.
LEMMA OperandKinds ==
  ASSUME NEW Name, NEW o \in Operand(Name)
  PROVE  \/ "const" \in DOMAIN o /\ o.const \in Integer
         \/ "const" \notin DOMAIN o /\ o.name \in Name
<1>1. CASE o \in [const : Integer]
  BY <1>1
<1>2. CASE o \in [name : Name]
  <2>1. DOMAIN o = {"name"} /\ o.name \in Name
    BY <1>2
  <2> QED BY <2>1
<1> QED BY <1>1, <1>2 DEF Operand

\* At most one constant is known of an operand; it is the operand's value where the
\* facts are true.
LEMMA ConstantOfOperand ==
  ASSUME NEW Name, NEW f \in KnownConstants(Name), NEW o \in Operand(Name)
  PROVE  /\ Constant(f, o) = {} \/ \E c \in Integer \cup {Garbage} : Constant(f, o) = {c}
         /\ \A s \in IntegerStore(Name) :
              /\ ValueOf(o, s) \in Integer
              /\ (\A x \in DOMAIN f : s[x] = f[x]) =>
                   Constant(f, o) = {} \/ Constant(f, o) = {ValueOf(o, s)}
<1>1. PICK D \in SUBSET Name : f \in [D -> Integer \cup {Garbage}]
  BY DEF KnownConstants
<1>2. CASE "const" \in DOMAIN o /\ o.const \in Integer
  BY <1>2 DEF Constant, ValueOf, IsConst
<1>3. CASE "const" \notin DOMAIN o /\ o.name \in Name
  <2>1. CASE o.name \in DOMAIN f
    <3>1. Constant(f, o) = {f[o.name]}
      BY <1>3, <2>1 DEF Constant
    <3>2. \A s : ValueOf(o, s) = s[o.name]
      BY <1>3 DEF ValueOf, IsConst
    <3> QED BY <1>1, <1>3, <2>1, <3>1, <3>2 DEF IntegerStore
  <2>2. CASE o.name \notin DOMAIN f
    <3>1. Constant(f, o) = {}
      BY <1>3, <2>2 DEF Constant
    <3>2. \A s : ValueOf(o, s) = s[o.name]
      BY <1>3 DEF ValueOf, IsConst
    <3> QED BY <1>3, <3>1, <3>2 DEF IntegerStore
  <2> QED BY <2>1, <2>2
<1> QED BY <1>2, <1>3, OperandKinds

\* An assignment of what may be known.
LEMMA AssignedFacts ==
  ASSUME NEW Name, NEW f \in KnownConstants(Name), NEW x \in Name,
         NEW C \in SUBSET (Integer \cup {Garbage})
  PROVE  Assigned(f, x, C) \in KnownConstants(Name)
<1>1. C # {} => (CHOOSE c \in C : TRUE) \in Integer \cup {Garbage}
  OBVIOUS
<1> QED BY <1>1, PutAndErase DEF Assigned

\* The facts stay true when a name that is assigned a value gets it, or none.
LEMMA AssignedHolds ==
  ASSUME NEW Name, NEW f \in KnownConstants(Name), NEW x \in Name, NEW v, NEW C,
         C = {} \/ C = {v}, NEW s \in IntegerStore(Name), \A y \in DOMAIN f : s[y] = f[y]
  PROVE  FactsHold(Edge(Assigned(f, x, C)), [s EXCEPT ![x] = v])
<1>1. PICK D \in SUBSET Name : f \in [D -> Integer \cup {Garbage}]
  BY DEF KnownConstants
<1>2. CASE C = {}
  BY <1>1, <1>2, EdgeFields DEF Assigned, Erase, Restrict, FactsHold, IntegerStore
<1>3. CASE C = {v}
  <2>1. Assigned(f, x, C) = Put(f, x, v)
    BY <1>3 DEF Assigned
  <2> QED BY <1>1, <2>1, EdgeFields DEF Put, FactsHold, IntegerStore
<1> QED BY <1>2, <1>3

-----------------------------------------------------------------------------
(* The merge.                                                              *)

\* A merge says no more than each of two edges that are known.
LEMMA MergesConstants ==
  ASSUME NEW Name, NEW d \in ConstantEdge(Name), NEW e \in ConstantEdge(Name)
  PROVE  /\ MergeConstants(d, e) \in ConstantEdge(Name)
         /\ d # BottomEdge => MergeConstants(d, e) # BottomEdge /\ MergeConstants(e, d) # BottomEdge
         /\ d # BottomEdge => \A s : FactsHold(d, s) =>
              FactsHold(MergeConstants(d, e), s) /\ FactsHold(MergeConstants(e, d), s)
<1>1. /\ d = BottomEdge /\ e = BottomEdge => MergeConstants(d, e) = BottomEdge
      /\ d = BottomEdge /\ e # BottomEdge =>
           MergeConstants(d, e) = e /\ MergeConstants(e, d) = e
      /\ d # BottomEdge /\ e = BottomEdge =>
           MergeConstants(d, e) = d /\ MergeConstants(e, d) = d
      /\ d # BottomEdge /\ e # BottomEdge =>
           /\ MergeConstants(d, e) = Edge(KeptByBoth(d.facts, e.facts))
           /\ MergeConstants(e, d) = Edge(KeptByBoth(e.facts, d.facts))
  BY EdgeKinds DEF MergeConstants, MergeOf
<1>2. \A f, g \in KnownConstants(Name) : KeptByBoth(f, g) \in KnownConstants(Name)
  <2> SUFFICES ASSUME NEW f \in KnownConstants(Name), NEW g \in KnownConstants(Name)
               PROVE  KeptByBoth(f, g) \in KnownConstants(Name)
    OBVIOUS
  <2>1. PICK D \in SUBSET Name : f \in [D -> Integer \cup {Garbage}]
    BY DEF KnownConstants
  <2> DEFINE B == {y \in DOMAIN f \cap DOMAIN g : f[y] = g[y]}
  <2>2. B \in SUBSET Name
    BY <2>1
  <2>3. KeptByBoth(f, g) \in [B -> Integer \cup {Garbage}]
    BY <2>1 DEF KeptByBoth
  <2> QED
    <3> HIDE DEF B
    <3> QED BY <2>2, <2>3 DEF KnownConstants
<1>3. \A f, g : \A x \in DOMAIN KeptByBoth(f, g) :
         x \in DOMAIN f \cap DOMAIN g /\ KeptByBoth(f, g)[x] = f[x] /\ f[x] = g[x]
  BY DEF KeptByBoth
<1>4. MergeConstants(d, e) \in ConstantEdge(Name)
  BY <1>1, <1>2, EdgeKinds DEF ConstantEdge
<1>5. d # BottomEdge => MergeConstants(d, e) # BottomEdge /\ MergeConstants(e, d) # BottomEdge
  BY <1>1, EdgeFields
<1>6. ASSUME d # BottomEdge, NEW s, FactsHold(d, s)
      PROVE  FactsHold(MergeConstants(d, e), s) /\ FactsHold(MergeConstants(e, d), s)
  <2>1. CASE e = BottomEdge
    BY <1>1, <1>6, <2>1
  <2>2. CASE e # BottomEdge
    BY <1>1, <1>3, <1>6, <2>2, EdgeFields DEF FactsHold
  <2> QED BY <2>1, <2>2
<1> QED BY <1>4, <1>5, <1>6
-----------------------------------------------------------------------------
(* The flow.                                                               *)

\* The operands that an instruction reads.
LEMMA InstructionFields ==
  ASSUME NEW Name, NEW i \in Instruction(Name)
  PROVE  /\ i.to \in Name /\ i.op \notin {"alloca", "phi"}
         /\ i.op \in {"store", "load"} => i.args[1] \in Operand(Name)
         /\ i.op \in BinaryOp \/ (i.op = "br" /\ i.test # "none") =>
              i.args[1] \in Operand(Name) /\ i.args[2] \in Operand(Name)
<1>1. i.args \in Seq(Operand(Name))
  BY DEF Instruction
<1>2. \A n \in DOMAIN i.args : i.args[n] \in Operand(Name)
  BY <1>1
<1> QED BY <1>2 DEF Instruction

\* The three kinds of instructions: what they assign, and what is known of it.
LEMMA Kinds ==
  ASSUME NEW i
  PROVE  \/ i.op \in {"store", "load"} /\ i.op \notin BinaryOp /\ SetsFacts(i)
         \/ i.op \in BinaryOp /\ i.op \notin {"alloca", "store", "load", "phi"} /\ SetsFacts(i)
         \/ i.op \notin {"store", "load"} /\ i.op \notin BinaryOp /\ ~SetsFacts(i)
BY DEF BinaryOp, Arithmetic, Division, Bitwise, Shift, SetsFacts

\* Stores and loads copy what is known.
LEMMA CopyFlow ==
  ASSUME NEW i, NEW e, i.op \in {"store", "load"}
  PROVE  FlowConstants(i, e) = Edge(Assigned(e.facts, i.to, Constant(e.facts, i.args[1])))
BY Kinds DEF FlowConstants

\* What is known of the result of two operands.
Results(op, A, B) == {Fold(op, a, b) : a \in A, b \in B}

\* A binary operator folds what is known, or ends the pass.
LEMMA ComputeFlow ==
  ASSUME NEW i, NEW e, i.op \in BinaryOp, NEW A, NEW B,
         A = Constant(e.facts, i.args[1]), B = Constant(e.facts, i.args[2])
  PROVE  FlowConstants(i, e) =
           IF i.op \in Division /\ A # {} /\ B = {0} THEN NoEdge
           ELSE Edge(Assigned(e.facts, i.to, Results(i.op, A, B)))
BY Kinds DEF FlowConstants, Results

\* Other instructions leave the edge.
LEMMA OtherFlow ==
  ASSUME NEW i, NEW e, ~SetsFacts(i)
  PROVE  FlowConstants(i, e) = e
BY Kinds DEF FlowConstants

\* Folding leaves an integer or garbage.
LEMMA FoldInteger ==
  ASSUME NEW op \in BinaryOp, NEW a \in Integer \cup {Garbage}, NEW b \in Integer \cup {Garbage},
         ~(op \in Division /\ b = 0)
  PROVE  Fold(op, a, b) \in Integer \cup {Garbage}
<1>1. CASE Garbage \in {a, b} \/ op \in Shift
  BY <1>1 DEF Fold, Shift
<1>2. CASE Garbage \notin {a, b} /\ op \in {"sdiv", "udiv"}
  <2>1. a \in Int /\ b \in Int /\ b # 0
    BY <1>2, GarbageIsNoInteger DEF Division
  <2>2. Fold(op, a, b) = Signed(Quotient(a, b))
    BY <1>2 DEF Fold, Shift
  <2> QED BY <2>1, <2>2, QuotientInteger, SignedInteger
<1>3. CASE Garbage \notin {a, b} /\ op \in {"srem", "urem"}
  <2>1. a \in Int /\ b \in Int /\ b # 0
    BY <1>3, GarbageIsNoInteger DEF Division
  <2>2. Fold(op, a, b) = Signed(Remainder(a, b))
    BY <1>3 DEF Fold, Shift
  <2> QED BY <2>1, <2>2, QuotientInteger, SignedInteger
<1>4. CASE /\ Garbage \notin {a, b} /\ op \notin Shift
           /\ op \notin {"sdiv", "udiv"} /\ op \notin {"srem", "urem"}
  <2>1. Fold(op, a, b) = Meaning(op, a, b)
    BY <1>4 DEF Fold
  <2>2. a \in Integer /\ b \in Integer
    BY <1>4
  <2> QED BY <2>1, <2>2, MeaningInteger
<1> QED BY <1>1, <1>2, <1>3, <1>4

\* Two integers are folded as they mean, but for the instructions that FoldsRight
\* leaves out.
LEMMA FoldMeans ==
  ASSUME NEW op \in BinaryOp \ Shift, NEW a \in Integer, NEW b \in Integer,
         (op \in Division) => (b # 0),
         (op \in {"udiv", "urem"}) => (a >= 0 /\ b >= 0)
  PROVE  Fold(op, a, b) = Meaning(op, a, b)
<1>1. Garbage \notin {a, b} /\ a \in Int /\ b \in Int
  BY GarbageIsNoInteger
<1>2. CASE op \in {"sdiv", "srem"}
  <2>1. /\ op = "sdiv" => Fold(op, a, b) = Signed(Quotient(a, b))
        /\ op = "srem" => Fold(op, a, b) = Signed(Remainder(a, b))
    BY <1>1, <1>2 DEF Fold, Shift
  <2>2. /\ op = "sdiv" => Meaning(op, a, b) = Signed(Quotient(a, b))
        /\ op = "srem" => Meaning(op, a, b) = Signed(Remainder(a, b))
    BY <1>2 DEF Meaning, Bitwise
  <2> QED BY <1>2, <2>1, <2>2
<1>3. CASE op \in {"udiv", "urem"}
  <2>1. Unsigned(a) = a /\ Unsigned(b) = b /\ a \in Nat /\ b \in Nat \ {0}
    BY <1>1, <1>3, UnsignedOfNatural DEF Division
  <2>2. Quotient(a, b) = a \div b /\ Remainder(a, b) = a % b
    BY <2>1, QuotientOfNaturals
  <2>3. /\ op = "udiv" => Fold(op, a, b) = Signed(Quotient(a, b))
        /\ op = "urem" => Fold(op, a, b) = Signed(Remainder(a, b))
    BY <1>1, <1>3 DEF Fold
  <2>4. /\ op = "udiv" => Meaning(op, a, b) = Signed(Unsigned(a) \div Unsigned(b))
        /\ op = "urem" => Meaning(op, a, b) = Signed(Unsigned(a) % Unsigned(b))
    BY <1>3 DEF Meaning, Bitwise
  <2> QED BY <1>3, <2>1, <2>2, <2>3, <2>4
<1>4. CASE op \notin {"sdiv", "udiv"} /\ op \notin {"srem", "urem"}
  BY <1>1, <1>4 DEF Fold
<1> QED BY <1>2, <1>3, <1>4

\* The flow stays among the edges, and what is known stays known.
LEMMA FlowsInto ==
  ASSUME NEW Name, NEW i \in Instruction(Name), NEW e \in ConstantEdge(Name)
  PROVE  /\ FlowConstants(i, e) \in ConstantEdge(Name) \cup {NoEdge}
         /\ e # BottomEdge \/ SetsFacts(i) => FlowConstants(i, e) # BottomEdge
<1> DEFINE f == e.facts
<1>1. f \in KnownConstants(Name)
  BY EdgeKinds
<1>2. CASE i.op \in {"store", "load"}
  <2>1. Constant(f, i.args[1]) \in SUBSET (Integer \cup {Garbage})
    BY <1>1, <1>2, InstructionFields, ConstantOfOperand
  <2>2. Assigned(f, i.to, Constant(f, i.args[1])) \in KnownConstants(Name)
    BY <1>1, <2>1, AssignedFacts, InstructionFields
  <2>3. FlowConstants(i, e) = Edge(Assigned(f, i.to, Constant(f, i.args[1])))
    BY <1>2, CopyFlow
  <2> QED BY <2>2, <2>3, EdgeFields DEF ConstantEdge
<1>3. CASE i.op \in BinaryOp
  <2> DEFINE A == Constant(f, i.args[1])
             B == Constant(f, i.args[2])
             C == Results(i.op, A, B)
  <2>1. CASE FlowConstants(i, e) = NoEdge
    BY <2>1, EdgeFields
  <2>2. CASE FlowConstants(i, e) = Edge(Assigned(f, i.to, C)) /\ ~(i.op \in Division /\ A # {} /\ B = {0})
    <3>1. /\ A = {} \/ \E c \in Integer \cup {Garbage} : A = {c}
          /\ B = {} \/ \E c \in Integer \cup {Garbage} : B = {c}
      BY <1>1, <1>3, InstructionFields, ConstantOfOperand
    <3>2. \A a \in A, b \in B : Fold(i.op, a, b) \in Integer \cup {Garbage}
      <4> SUFFICES ASSUME NEW a \in A, NEW b \in B
                   PROVE  Fold(i.op, a, b) \in Integer \cup {Garbage}
        OBVIOUS
      <4>1. /\ a \in Integer \cup {Garbage} /\ b \in Integer \cup {Garbage}
            /\ ~(i.op \in Division /\ b = 0)
        <5> HIDE DEF A, B, C
        <5> QED BY <2>2, <3>1
      <4> HIDE DEF A, B
      <4> QED BY <1>3, <4>1, FoldInteger
    <3>3. C \in SUBSET (Integer \cup {Garbage})
      <4> HIDE DEF A, B
      <4> QED BY <3>2 DEF Results
    <3>4. Assigned(f, i.to, C) \in KnownConstants(Name)
      <4> HIDE DEF C, f
      <4> QED BY <1>1, <3>3, AssignedFacts, InstructionFields
    <3> QED
      <4> HIDE DEF C, f
      <4> QED BY <2>2, <3>4, EdgeFields DEF ConstantEdge
  <2>3. FlowConstants(i, e) = IF i.op \in Division /\ A # {} /\ B = {0} THEN NoEdge
                               ELSE Edge(Assigned(f, i.to, C))
    <3> HIDE DEF A, B
    <3> QED BY <1>3, ComputeFlow DEF A, B
  <2> QED
    <3> HIDE DEF A, B, C, f
    <3> QED BY <2>1, <2>2, <2>3
<1>4. CASE ~SetsFacts(i)
  BY <1>4, OtherFlow
<1> QED BY <1>2, <1>3, <1>4 DEF SetsFacts

\* Stores and loads assign the operand.
LEMMA CopyStores ==
  ASSUME NEW i, NEW s, i.op \in {"store", "load"}
  PROVE  StoresAfter(i, s) = {[s EXCEPT ![i.to] = ValueOf(i.args[1], s)]}
BY Kinds DEF StoresAfter

\* An operator assigns its meaning, or traps.
LEMMA ComputeStores ==
  ASSUME NEW i, NEW s, i.op \in BinaryOp, NEW a, NEW b,
         a = ValueOf(i.args[1], s), b = ValueOf(i.args[2], s)
  PROVE  StoresAfter(i, s) = IF i.op \in Division /\ b = 0 THEN {}
                             ELSE {[s EXCEPT ![i.to] = Meaning(i.op, a, b)]}
BY Kinds DEF StoresAfter

\* Other instructions leave the store.
LEMMA OtherStores ==
  ASSUME NEW Name, NEW i \in Instruction(Name), NEW s, ~SetsFacts(i)
  PROVE  StoresAfter(i, s) = {s}
<1>1. i.op \notin {"alloca", "phi"}
  BY InstructionFields
<1> QED BY <1>1, Kinds DEF StoresAfter

\* The stores stay stores of integers.
LEMMA StoresStayIntegers ==
  ASSUME NEW Name, NEW i \in Instruction(Name), NEW s \in IntegerStore(Name)
  PROVE  StoresAfter(i, s) \subseteq IntegerStore(Name)
<1>1. i.to \in Name /\ \A v \in Integer : [s EXCEPT ![i.to] = v] \in IntegerStore(Name)
  BY InstructionFields DEF IntegerStore
<1>2. NoFacts \in KnownConstants(Name)
  BY DEF NoFacts, KnownConstants
<1>3. \A o \in Operand(Name) : ValueOf(o, s) \in Integer
  BY <1>2, ConstantOfOperand
<1>4. CASE i.op \in {"store", "load"}
  BY <1>1, <1>3, <1>4, InstructionFields, CopyStores
<1>5. CASE i.op \in BinaryOp
  <2>1. ValueOf(i.args[1], s) \in Integer /\ ValueOf(i.args[2], s) \in Integer
    BY <1>3, <1>5, InstructionFields
  <2>2. StoresAfter(i, s) = IF i.op \in Division /\ ValueOf(i.args[2], s) = 0 THEN {}
          ELSE {[s EXCEPT ![i.to] = Meaning(i.op, ValueOf(i.args[1], s), ValueOf(i.args[2], s))]}
    BY <1>5, ComputeStores
  <2> QED BY <1>1, <1>5, <2>1, <2>2, MeaningInteger
<1>6. CASE ~SetsFacts(i)
  BY <1>6, OtherStores
<1> QED BY <1>4, <1>5, <1>6 DEF SetsFacts

\* An instruction that FoldsRight keeps the facts true.
LEMMA FlowFollows ==
  ASSUME NEW Name, NEW i \in Instruction(Name), NEW e \in ConstantEdge(Name),
         NEW s \in IntegerStore(Name), FoldsRight(i, e), FactsHold(e, s),
         FlowConstants(i, e) # NoEdge, NEW t \in StoresAfter(i, s)
  PROVE  FactsHold(FlowConstants(i, e), t)
<1> DEFINE f == e.facts
<1>1. f \in KnownConstants(Name) /\ \A y \in DOMAIN f : s[y] = f[y]
  BY EdgeKinds DEF FactsHold
<1>2. CASE i.op \in {"store", "load"}
  <2> DEFINE v == ValueOf(i.args[1], s)
             C == Constant(f, i.args[1])
  <2>1. C = {} \/ C = {v}
    BY <1>1, <1>2, InstructionFields, ConstantOfOperand
  <2>2. FactsHold(Edge(Assigned(f, i.to, C)), [s EXCEPT ![i.to] = v])
    <3> HIDE DEF f, C, v
    <3> QED BY <1>1, <2>1, AssignedHolds, InstructionFields
  <2>3. FlowConstants(i, e) = Edge(Assigned(f, i.to, C)) /\ StoresAfter(i, s) = {[s EXCEPT ![i.to] = v]}
    BY <1>2, CopyFlow, CopyStores
  <2> HIDE DEF f, C, v
  <2> QED BY <2>2, <2>3
<1>3. CASE i.op \in BinaryOp
  <2> DEFINE A == Constant(f, i.args[1])
             B == Constant(f, i.args[2])
             a == ValueOf(i.args[1], s)
             b == ValueOf(i.args[2], s)
             v == Meaning(i.op, a, b)
             C == Results(i.op, A, B)
  <2>1. (A = {} \/ A = {a}) /\ (B = {} \/ B = {b}) /\ a \in Integer /\ b \in Integer
    BY <1>1, <1>3, InstructionFields, ConstantOfOperand
  <2>2. t = [s EXCEPT ![i.to] = v] /\ ~(i.op \in Division /\ b = 0)
    <3>1. StoresAfter(i, s) = IF i.op \in Division /\ b = 0 THEN {} ELSE {[s EXCEPT ![i.to] = v]}
      BY <1>3, ComputeStores
    <3> HIDE DEF a, b, v
    <3> QED BY <3>1
  <2>3. /\ i.op \in Shift => A = {} \/ B = {}
        /\ i.op \in {"udiv", "urem"} => \A c \in A \cup B : c >= 0
    BY DEF FoldsRight
  <2>4. C = {} \/ C = {v}
    <3>1. CASE A = {} \/ B = {}
      BY <3>1 DEF Results
    <3>2. CASE A = {a} /\ B = {b}
      <4>1. C = {Fold(i.op, a, b)}
        BY <3>2 DEF Results
      <4>2. i.op \in BinaryOp \ Shift /\ (i.op \in {"udiv", "urem"} => a >= 0 /\ b >= 0)
        <5> HIDE DEF A, B, a, b
        <5> QED BY <1>3, <2>3, <3>2
      <4>3. Fold(i.op, a, b) = v
        <5> HIDE DEF A, B, a, b
        <5> QED BY <2>1, <2>2, <4>2, FoldMeans
      <4> QED BY <4>1, <4>3
    <3> HIDE DEF A, B, a, b
    <3> QED BY <2>1, <3>1, <3>2
  <2>5. FactsHold(Edge(Assigned(f, i.to, C)), [s EXCEPT ![i.to] = v])
    <3> HIDE DEF f, C, v
    <3> QED BY <1>1, <2>4, AssignedHolds, InstructionFields
  <2>6. FlowConstants(i, e) = Edge(Assigned(f, i.to, C))
    <3>1. FlowConstants(i, e) = IF i.op \in Division /\ A # {} /\ B = {0} THEN NoEdge
                                 ELSE Edge(Assigned(f, i.to, C))
      <4> HIDE DEF A, B
      <4> QED BY <1>3, ComputeFlow DEF A, B
    <3> HIDE DEF A, B, C, f
    <3> QED BY <3>1
  <2> HIDE DEF f, C, v
  <2> QED BY <2>2, <2>5, <2>6
<1>4. CASE ~SetsFacts(i)
  BY <1>4, OtherFlow, OtherStores
<1> QED BY <1>2, <1>3, <1>4 DEF SetsFacts
-----------------------------------------------------------------------------
(* Branches.                                                               *)

\* An edge to a successor is the edge before the branch, or adds to it that the
\* operand x that is not known is equal to the other, which is.
LEMMA BranchEdges ==
  ASSUME NEW Name, NEW i \in Terminator(Name), NEW e \in ConstantEdge(Name), NEW n \in Nat \ {0}
  PROVE  \/ ConstantsTo(i, e, n) = e
         \/ /\ i.op = "br" /\ i.test # "none" /\ Learns(i.test, n)
            /\ \E x, c \in {1, 2} :
                 /\ x # c
                 /\ Constant(e.facts, i.args[x]) = {} /\ Constant(e.facts, i.args[c]) # {}
                 /\ ConstantsTo(i, e, n) =
                      Edge(Put(e.facts, i.args[x].name, CHOOSE v \in Constant(e.facts, i.args[c]) : TRUE))
<1>1. FlowConstants(i, e) = e /\ n # 0
  BY OtherFlow DEF Terminator
<1> DEFINE f == e.facts
           Tells == i.op = "br" /\ i.test # "none" /\ Learns(i.test, n)
<1>2. CASE Tells /\ Constant(f, i.args[1]) = {} /\ Constant(f, i.args[2]) # {}
  <2>1. ConstantsTo(i, e, n) =
          Edge(Put(f, i.args[1].name, CHOOSE v \in Constant(f, i.args[2]) : TRUE))
    BY <1>1, <1>2 DEF ConstantsTo
  <2> QED BY <1>2, <2>1
<1>3. CASE Tells /\ Constant(f, i.args[1]) # {} /\ Constant(f, i.args[2]) = {}
  <2>1. ConstantsTo(i, e, n) =
          Edge(Put(f, i.args[2].name, CHOOSE v \in Constant(f, i.args[1]) : TRUE))
    BY <1>1, <1>3 DEF ConstantsTo
  <2> QED BY <1>3, <2>1
<1>4. CASE /\ ~(Tells /\ Constant(f, i.args[1]) = {} /\ Constant(f, i.args[2]) # {})
           /\ ~(Tells /\ Constant(f, i.args[1]) # {} /\ Constant(f, i.args[2]) = {})
  BY <1>1, <1>4 DEF ConstantsTo
<1> QED BY <1>2, <1>3, <1>4

\* An operand of which nothing is known is a name.
LEMMA UnknownIsName ==
  ASSUME NEW Name, NEW f, NEW o \in Operand(Name), Constant(f, o) = {}
  PROVE  "const" \notin DOMAIN o /\ o.name \in Name
BY OperandKinds DEF Constant

\* Edges to successors stay among the edges, and known.
LEMMA BranchesInto ==
  ASSUME NEW Name, NEW i \in Terminator(Name), NEW e \in ConstantEdge(Name), NEW n \in Nat \ {0}
  PROVE  /\ ConstantsTo(i, e, n) \in ConstantEdge(Name)
         /\ e # BottomEdge => ConstantsTo(i, e, n) # BottomEdge
<1> DEFINE f == e.facts
<1>1. f \in KnownConstants(Name) /\ i \in Instruction(Name)
  BY EdgeKinds DEF Terminator
<1>2. ASSUME NEW x \in {1, 2}, NEW c \in {1, 2}, i.op = "br", i.test # "none",
             Constant(f, i.args[x]) = {}, Constant(f, i.args[c]) # {},
             ConstantsTo(i, e, n) = Edge(Put(f, i.args[x].name, CHOOSE v \in Constant(f, i.args[c]) : TRUE))
      PROVE  ConstantsTo(i, e, n) \in ConstantEdge(Name) /\ ConstantsTo(i, e, n) # BottomEdge
  <2>1. i.args[x] \in Operand(Name) /\ i.args[c] \in Operand(Name)
    BY <1>1, <1>2, InstructionFields
  <2>2. i.args[x].name \in Name
    BY <1>2, <2>1, UnknownIsName
  <2>3. (CHOOSE v \in Constant(f, i.args[c]) : TRUE) \in Integer \cup {Garbage}
    <3>1. PICK v \in Integer \cup {Garbage} : Constant(f, i.args[c]) = {v}
      BY <1>1, <1>2, <2>1, ConstantOfOperand
    <3> QED BY <3>1
  <2>4. Put(f, i.args[x].name, CHOOSE v \in Constant(f, i.args[c]) : TRUE) \in KnownConstants(Name)
    BY <1>1, <2>2, <2>3, PutAndErase
  <2> QED BY <1>2, <2>4, EdgeFields DEF ConstantEdge
<1>3. CASE ConstantsTo(i, e, n) = e
  BY <1>3
<1>4. CASE ConstantsTo(i, e, n) # e
  <2>1. PICK x, c \in {1, 2} :
          /\ x # c
          /\ Constant(f, i.args[x]) = {} /\ Constant(f, i.args[c]) # {}
          /\ ConstantsTo(i, e, n) =
               Edge(Put(f, i.args[x].name, CHOOSE v \in Constant(f, i.args[c]) : TRUE))
    BY <1>4, BranchEdges
  <2>2. i.op = "br" /\ i.test # "none" /\ Learns(i.test, n)
    BY <1>4, BranchEdges
  <2> HIDE DEF f
  <2> QED BY <1>2, <2>1, <2>2
<1> QED BY <1>3, <1>4

\* What is learnt on an edge is true when the branch takes it.
LEMMA BranchFollows ==
  ASSUME NEW Name, NEW i \in Terminator(Name), NEW e \in ConstantEdge(Name), NEW n \in Nat \ {0},
         NEW s \in IntegerStore(Name), FactsHold(e, s), n \in BranchesOf(i, s)
  PROVE  FactsHold(ConstantsTo(i, e, n), s)
<1> DEFINE f == e.facts
<1>1. f \in KnownConstants(Name) /\ i \in Instruction(Name) /\ \A y \in DOMAIN f : s[y] = f[y]
  BY EdgeKinds DEF FactsHold, Terminator
<1>2. ASSUME NEW x \in {1, 2}, NEW c \in {1, 2}, x # c, i.op = "br", i.test # "none",
             Learns(i.test, n), Constant(f, i.args[x]) = {}, Constant(f, i.args[c]) # {},
             ConstantsTo(i, e, n) = Edge(Put(f, i.args[x].name, CHOOSE v \in Constant(f, i.args[c]) : TRUE))
      PROVE  FactsHold(ConstantsTo(i, e, n), s)
  <2>1. i.args[x] \in Operand(Name) /\ i.args[c] \in Operand(Name)
    BY <1>1, <1>2, InstructionFields
  <2>2. ValueOf(i.args[1], s) = ValueOf(i.args[2], s)
    <3> DEFINE a == ValueOf(i.args[1], s)
               b == ValueOf(i.args[2], s)
    <3>1. (i.test = "eq" /\ n = 1) \/ (i.test = "ne" /\ n = 2)
      BY <1>2 DEF Learns
    <3>2. n = IF Compares(i.test, a, b) THEN 1 ELSE 2
      BY <1>2, <3>1 DEF BranchesOf, Tests
    <3>3. /\ i.test = "eq" => Compares(i.test, a, b) = (a = b)
          /\ i.test = "ne" => Compares(i.test, a, b) = (a # b)
      BY DEF Compares
    <3> HIDE DEF a, b
    <3> QED BY <3>1, <3>2, <3>3 DEF a, b
  <2>3. Constant(f, i.args[c]) = {ValueOf(i.args[c], s)}
    BY <1>1, <1>2, <2>1, ConstantOfOperand
  <2>4. i.args[x].name \in Name /\ ValueOf(i.args[x], s) = s[i.args[x].name]
    BY <1>2, <2>1, UnknownIsName DEF ValueOf, IsConst
  <2>5. ConstantsTo(i, e, n) = Edge(Put(f, i.args[x].name, s[i.args[x].name]))
    <3>1. (CHOOSE v \in Constant(f, i.args[c]) : TRUE) = ValueOf(i.args[c], s)
      BY <2>3
    <3>2. ValueOf(i.args[c], s) = s[i.args[x].name]
      BY <1>2, <2>2, <2>4
    <3> QED BY <1>2, <3>1, <3>2
  <2> QED BY <1>1, <2>4, <2>5, EdgeFields DEF Put, FactsHold
<1>3. CASE ConstantsTo(i, e, n) = e
  BY <1>3
<1>4. CASE ConstantsTo(i, e, n) # e
  <2>1. PICK x, c \in {1, 2} :
          /\ x # c
          /\ Constant(f, i.args[x]) = {} /\ Constant(f, i.args[c]) # {}
          /\ ConstantsTo(i, e, n) =
               Edge(Put(f, i.args[x].name, CHOOSE v \in Constant(f, i.args[c]) : TRUE))
    BY <1>4, BranchEdges
  <2>2. i.op = "br" /\ i.test # "none" /\ Learns(i.test, n)
    BY <1>4, BranchEdges
  <2> HIDE DEF f
  <2> QED BY <1>2, <2>1, <2>2
<1> QED BY <1>3, <1>4

-----------------------------------------------------------------------------
(* The laws.                                                               *)

\* Constant propagation is lawful.
LEMMA ConstantsLawful ==
  ASSUME NEW Name, ConstantPropagation, InitStore \subseteq IntegerStore(Name),
         MadeOf(Instruction(Name), Terminator(Name), Nat \ {0})
  PROVE  Lawful(Instruction(Name), Terminator(Name), Nat \ {0}, ConstantEdge(Name), IntegerStore(Name))
<1> DEFINE I == Instruction(Name)
           T == Terminator(Name)
           E == ConstantEdge(Name)
           S == IntegerStore(Name)
<1>1. T \subseteq I
  BY DEF Terminator
<1>2. BottomEdge \in E /\ NoEdge \notin E
  BY EdgeKinds DEF ConstantEdge
<1>3. Closed(I, T, Nat \ {0}, E, S)
  <2>1. \A d, e \in E : Merge(d, e) \in E
    BY MergesConstants DEF ConstantPropagation
  <2>2. \A i \in I, e \in E : Flow(i, e) \in E \cup {Null}
    BY FlowsInto DEF ConstantPropagation
  <2>3. \A i \in T, e \in E, n \in Nat \ {0} : EdgeTo(i, e, n) \in E
    BY BranchesInto DEF ConstantPropagation
  <2>4. \A i \in I, s \in S : Stores(i, s) \subseteq S
    BY StoresStayIntegers DEF ConstantPropagation
  <2>5. Bottom \in E /\ Null \notin E
    BY <1>2 DEF ConstantPropagation
  <2> QED BY <2>1, <2>2, <2>3, <2>4, <2>5 DEF Closed
<1>4. FollowsRuns(I, T, Nat \ {0}, E, S)
  <2>1. \A s : Holds(Bottom, s)
    <3>1. \A s : FactsHold(BottomEdge, s)
      BY EdgeFields DEF FactsHold, NoFacts
    <3> QED BY <3>1 DEF ConstantPropagation
  <2>2. ASSUME NEW i \in I, NEW e \in E, NEW s \in S, Trusted(i, e), Holds(e, s), Flow(i, e) # Null,
               NEW t \in Stores(i, s)
        PROVE  Holds(Flow(i, e), t)
    BY <2>2, FlowFollows DEF ConstantPropagation
  <2>3. ASSUME NEW i \in T, NEW e \in E, NEW s \in S, Holds(e, s), NEW n \in (Nat \ {0}) \cap Branches(i, s)
        PROVE  Holds(EdgeTo(i, e, n), s)
    BY <2>3, BranchFollows DEF ConstantPropagation
  <2>4. \A d, e \in E, s \in S :
          d # Bottom /\ Holds(d, s) => Holds(Merge(d, e), s) /\ Holds(Merge(e, d), s)
    BY MergesConstants DEF ConstantPropagation
  <2> QED BY <2>1, <2>2, <2>3, <2>4 DEF FollowsRuns
<1>5. StaysKnown(I, T, Nat \ {0}, E)
  <2>1. \A i \in I, e \in E : e # Bottom \/ Wakes(i) => Flow(i, e) # Bottom
    BY FlowsInto DEF ConstantPropagation
  <2>2. \A i \in T, e \in E, n \in Nat \ {0} : e # Bottom => EdgeTo(i, e, n) # Bottom
    BY BranchesInto DEF ConstantPropagation
  <2>3. \A d, e \in E : d # Bottom => Merge(d, e) # Bottom /\ Merge(e, d) # Bottom
    BY MergesConstants DEF ConstantPropagation
  <2> QED BY <2>1, <2>2, <2>3 DEF StaysKnown
<1> QED BY <1>3, <1>4, <1>5 DEF Lawful

\* What constant propagation prints before an instruction of a function without
\* loops is true whenever a run gets there, for every width of the integers, any
\* names and any functions made of these instructions (ConstantPropAnalysis.cpp).
THEOREM ConstantsSound ==
  ASSUME NEW Name, ConstantPropagation, InitStore \subseteq IntegerStore(Name),
         MadeOf(Instruction(Name), Terminator(Name), Nat \ {0})
  PROVE  Spec => []Sound
<1>1. Lawful(Instruction(Name), Terminator(Name), Nat \ {0}, ConstantEdge(Name), IntegerStore(Name))
  BY ConstantsLawful
<1> QED BY <1>1, Soundness

\* At the end of the pass its edges solve the equations of every such function: none
\* is left from another function with the same block names.
THEOREM ConstantsSolved ==
  ASSUME NEW Name, ConstantPropagation, InitStore \subseteq IntegerStore(Name),
         MadeOf(Instruction(Name), Terminator(Name), Nat \ {0})
  PROVE  Spec => []Solved
<1>1. Lawful(Instruction(Name), Terminator(Name), Nat \ {0}, ConstantEdge(Name), IntegerStore(Name))
  BY ConstantsLawful
<1> QED BY <1>1, EquationsSolved DEF Lawful
=============================================================================
