------------------------- MODULE Interpreter_proofs -------------------------
(***************************************************************************)
(* The heap of the interpreter, for every program, input and allocator,    *)
(* and its types: whatever a handler reads was bound before it, as an int. *)
(***************************************************************************)
EXTENDS Interpreter, SequenceTheorems, FiniteSetTheorems, TLAPS

-----------------------------------------------------------------------------
(* The heap.                                                               *)

\* Malloc keeps the cells those of the buffers, wherever the buffer is put: its cells
\* are new, because those of the others are all there are.
LEMMA MallocKeepsExact ==
  ASSUME NEW size, NEW base, HeapExact, Malloc(size, base)
  PROVE  HeapExact'
<1> DEFINE bufs(b) == IF b = base THEN size ELSE mBufs[b]
<1>1. /\ DOMAIN mBufs' = DOMAIN mBufs \cup {base}
      /\ \A b \in DOMAIN mBufs' : mBufs'[b] = bufs(b)
  BY DEF Malloc, With
<1>2. DOMAIN mContents' = DOMAIN mContents \cup Cells(base, size)
  BY DEF Malloc
<1>3. base \notin DOMAIN mBufs
  BY DEF Malloc
<1>4. /\ Cells(base, mBufs'[base]) = Cells(base, size)
      /\ \A b \in DOMAIN mBufs : Cells(b, mBufs'[b]) = Cells(b, mBufs[b])
  BY <1>1, <1>3
<1>5. DOMAIN mContents' = UNION {Cells(b, mBufs'[b]) : b \in DOMAIN mBufs'}
  <2>1. DOMAIN mContents = UNION {Cells(b, mBufs[b]) : b \in DOMAIN mBufs}
    BY DEF HeapExact
  <2> HIDE DEF bufs
  <2> QED BY <1>1, <1>2, <1>4, <2>1
<1>6. \A b, c \in DOMAIN mBufs' : b # c => Cells(b, mBufs'[b]) \cap Cells(c, mBufs'[c]) = {}
  BY <1>1, <1>3, <1>4 DEF HeapExact, Malloc
<1> QED BY <1>5, <1>6 DEF HeapExact, Cells

\* Free takes the cells of one buffer, and no cell of another.
LEMMA FreeKeepsExact ==
  ASSUME NEW addr \in DOMAIN mBufs, HeapExact, Free(addr)
  PROVE  HeapExact'
<1>1. /\ DOMAIN mBufs' = DOMAIN mBufs \ {addr}
      /\ \A b \in DOMAIN mBufs' : mBufs'[b] = mBufs[b]
  BY DEF Free, Restrict
<1>2. DOMAIN mContents' = DOMAIN mContents \ Cells(addr, mBufs[addr])
  BY DEF Free, Restrict
<1>3. DOMAIN mContents' = UNION {Cells(b, mBufs'[b]) : b \in DOMAIN mBufs'}
  BY <1>1, <1>2 DEF HeapExact
<1>4. \A b, c \in DOMAIN mBufs' : b # c => Cells(b, mBufs'[b]) \cap Cells(c, mBufs'[c]) = {}
  BY <1>1 DEF HeapExact
<1> QED BY <1>3, <1>4 DEF HeapExact, Cells

\* The other handlers allocate and release nothing.
LEMMA SameCells ==
  ASSUME HeapExact, UNCHANGED mBufs, DOMAIN mContents' = DOMAIN mContents
  PROVE  HeapExact'
BY DEF HeapExact, Cells

\* For every program and whatever malloc returns, the cells that the interpreter
\* reads and writes are those of the buffers that are allocated and not freed.
THEOREM HeapStaysExact == Spec => []HeapExact
<1>1. Init => HeapExact
  BY DEF Init, HeapExact, Empty
<1>2. HeapExact /\ [Next]_vars => HeapExact'
  <2> SUFFICES ASSUME HeapExact, [Next]_vars PROVE HeapExact'
    OBVIOUS
  <2>1. CASE CallMalloc
    BY <2>1, MallocKeepsExact DEF CallMalloc
  <2>2. CASE CallFree
    <3>1. Calling("FREE") /\ Free(Arg(1))
      BY <2>2 DEF CallFree
    <3>2. Top.do = "apply" /\ Top.tree.kind = "call" /\ Top.tree.name = "FREE" /\ Asserted(Top)
      BY <3>1 DEF Calling, Handling
    <3>3. Arg(1) \in DOMAIN mBufs
      BY <3>2 DEF Asserted, BufsFreed, Arg
    <3> QED BY <3>1, <3>3, FreeKeepsExact
  <2>3. CASE Decl
    <3>1. \/ UNCHANGED <<mBufs, mContents>>
          \/ \E base \in Bases : Malloc(Head(Top.tree.vars).size, base)
      BY <2>3 DEF Decl
    <3> QED BY <3>1, MallocKeepsExact, SameCells
  <2>4. CASE Assign
    BY <2>4, SameCells DEF Assign
  <2>5. CASE VisitNode \/ VisitCondition \/ Branch \/ Test \/ Abort \/ UNCHANGED vars
    BY <2>5, SameCells DEF VisitNode, VisitCondition, Branch, Test, Abort, vars
  <2>6. CASE IntegerLiteral \/ Sizeof \/ Declref \/ Cast \/ Binop \/ Unaryop \/ Array
    BY <2>6, SameCells DEF IntegerLiteral, Sizeof, Declref, Cast, Binop, Unaryop, Array
  <2>7. CASE Ret \/ RetFromMain \/ CallInput \/ CallOutput \/ CallFunction \/ Stopped
    BY <2>7, SameCells
       DEF Ret, RetFromMain, CallInput, CallOutput, CallFunction, Stopped, vars
  <2> QED BY <2>1, <2>2, <2>3, <2>4, <2>5, <2>6, <2>7 DEF Next
<1> QED BY <1>1, <1>2, PTL DEF Spec

-----------------------------------------------------------------------------
(* Integers and frames.                                                    *)

\* What is kept of a long is an int.
LEMMA KeptAsInt ==
  /\ \A n \in Int : AsInt(n) \in IntRange
  /\ IntRange \subseteq Int /\ 0 \in IntRange
<1> DEFINE half == 2^(Width - 1)
           whole == 2^Width
<1>1. half \in Nat \ {0} /\ whole = 2 * half
  BY WidthAssumption
<1>2. /\ IntRange = -half..(half - 1)
      /\ \A n : AsInt(n) = IF n % whole >= half THEN (n % whole) - whole ELSE n % whole
  BY DEF IntRange, AsInt
<1> HIDE DEF half, whole
<1>3. ASSUME NEW n \in Int PROVE AsInt(n) \in -half..(half - 1)
  <2> DEFINE low == n % whole
  <2>1. low \in Int /\ 0 <= low /\ low < whole
    BY <1>1
  <2>2. AsInt(n) = IF low >= half THEN low - whole ELSE low
    BY <1>2
  <2> HIDE DEF low
  <2>3. CASE low >= half
    BY <1>1, <2>1, <2>2, <2>3
  <2>4. CASE ~(low >= half)
    BY <1>1, <2>1, <2>2, <2>4
  <2> QED BY <2>3, <2>4
<1>4. -half..(half - 1) \subseteq Int /\ 0 \in -half..(half - 1)
  BY <1>1
<1> QED BY <1>2, <1>3, <1>4

\* A frame that keeps ints.
GoodFrame(f) ==
  /\ DOMAIN f = {"vars", "exprs", "pc"}
  /\ Range(f.vars) \subseteq IntRange
  /\ Range(f.exprs) \subseteq IntRange

\* Binding a value adds no other.
LEMMA WithRange ==
  ASSUME NEW f, NEW x, NEW v
  PROVE  Range(With(f, x, v)) \subseteq Range(f) \cup {v}
BY DEF Range, With

\* Whatever is bound to a node or a variable is kept as an int.
LEMMA BindKeeps ==
  ASSUME NEW f, GoodFrame(f), NEW at
  PROVE  /\ GoodFrame(SetPC(f, at))
         /\ \A v \in Int : GoodFrame(BindStmt(f, at, v)) /\ GoodFrame(BindDecl(f, at, v))
<1>1. GoodFrame(SetPC(f, at))
  BY DEF GoodFrame, SetPC
<1>2. ASSUME NEW v \in Int PROVE GoodFrame(BindStmt(f, at, v))
  <2> DEFINE new == With(f.exprs, at, AsInt(v))
             b == BindStmt(f, at, v)
  <2>1. Range(new) \subseteq IntRange
    BY KeptAsInt, WithRange DEF GoodFrame
  <2> HIDE DEF new
  <2>2. b = [f EXCEPT !.exprs = new]
    BY DEF BindStmt, new
  <2>3. DOMAIN b = DOMAIN f /\ b.vars = f.vars /\ b.exprs = new
    BY <2>2 DEF GoodFrame
  <2> QED BY <2>1, <2>3 DEF GoodFrame
<1>3. ASSUME NEW v \in Int PROVE GoodFrame(BindDecl(f, at, v))
  <2> DEFINE new == With(f.vars, at, AsInt(v))
             b == BindDecl(f, at, v)
  <2>1. Range(new) \subseteq IntRange
    BY KeptAsInt, WithRange DEF GoodFrame
  <2> HIDE DEF new
  <2>2. b = [f EXCEPT !.vars = new]
    BY DEF BindDecl, new
  <2>3. DOMAIN b = DOMAIN f /\ b.exprs = f.exprs /\ b.vars = new
    BY <2>2 DEF GoodFrame
  <2> QED BY <2>1, <2>3 DEF GoodFrame
<1> QED BY <1>1, <1>2, <1>3

\* A sequence of things that are all of a kind.
LEMMA RangeOf ==
  ASSUME NEW A, NEW s \in Seq(A)
  PROVE  s \in Seq(Range(s)) /\ Range(s) \subseteq A
BY DEF Range

\* One more of them.
LEMMA AppendOne ==
  ASSUME NEW A, NEW s \in Seq(A), NEW x \in A
  PROVE  Append(s, x) \in Seq(A) /\ Append(s, x) # <<>>
<1>1. Append(s, x) \in Seq(A)
  OBVIOUS
<1>2. Len(Append(s, x)) = Len(s) + 1 /\ Len(s) \in Nat
  OBVIOUS
<1>3. Len(Append(s, x)) # 0 /\ Len(<<>>) = 0
  BY <1>2
<1> DEFINE t == Append(s, x)
<1> HIDE DEF t
<1>4. t # <<>>
  BY <1>3 DEF t
<1> QED BY <1>1, <1>4 DEF t

-----------------------------------------------------------------------------
(* The inductive invariant.                                                *)

\* The frames on a stack.
GoodFrames(s) == s \in Seq(Range(s)) /\ \A f \in Range(s) : GoodFrame(f)

\* What the visitor has still to do: nodes of the program, and declarations.
GoodItem(p, n) ==
  IF n.do = "declare" THEN 1 \in DOMAIN n.tree.vars ELSE n.tree \in Nodes(p)
GoodItems(p, s) == s \in Seq(Range(s)) /\ \A n \in Range(s) : GoodItem(p, n)

IInv ==
  /\ program \in Programs /\ input \in Inputs /\ scanned \in Nat
  /\ GoodFrames(mStack) /\ GoodItems(program, todo)
  /\ status \in {"running", "aborted", "undefined"}
  /\ status = "undefined" <=> mStack = <<>>
  /\ Range(mContents) \subseteq IntRange

\* It says what TypeOK does.
LEMMA TypesFollow == IInv => TypeOK
<1> SUFFICES ASSUME IInv PROVE TypeOK
  OBVIOUS
<1>1. \A k \in DOMAIN mStack : mStack[k] \in Range(mStack)
  BY DEF Range
<1> QED BY <1>1 DEF IInv, GoodFrames, GoodFrame, TypeOK

\* The last frame.
LEMMA LastFrame ==
  ASSUME NEW s, GoodFrames(s), s # <<>>
  PROVE  Len(s) \in Nat \ {0} /\ GoodFrame(s[Len(s)])
<1>1. s \in Seq(Range(s)) /\ Len(s) \in Nat \ {0}
  BY DEF GoodFrames
<1>2. s[Len(s)] \in Range(s)
  BY <1>1 DEF Range
<1> QED BY <1>1, <1>2 DEF GoodFrames

\* A changed frame, one more or one less.
LEMMA FramesChange ==
  ASSUME NEW s, GoodFrames(s), s # <<>>, NEW f, GoodFrame(f)
  PROVE  /\ GoodFrames([s EXCEPT ![Len(s)] = f]) /\ [s EXCEPT ![Len(s)] = f] # <<>>
         /\ GoodFrames(Append(s, f)) /\ Append(s, f) # <<>>
         /\ Len(s) > 1 => /\ GoodFrame(s[Len(s) - 1])
                          /\ GoodFrames(Append(SubSeq(s, 1, Len(s) - 2), f))
                          /\ Append(SubSeq(s, 1, Len(s) - 2), f) # <<>>
<1> DEFINE A == Range(s) \cup {f}
<1>1. s \in Seq(A) /\ Len(s) \in Nat \ {0} /\ \A g \in A : GoodFrame(g)
  BY DEF GoodFrames
<1>2. ASSUME NEW t \in Seq(A) PROVE GoodFrames(t)
  BY <1>1, <1>2, RangeOf DEF GoodFrames
<1>3. \A k \in 1..Len(s) : s[k] \in Range(s)
  BY <1>1 DEF Range
<1> HIDE DEF A
<1>5. /\ [s EXCEPT ![Len(s)] = f] \in Seq(A) /\ [s EXCEPT ![Len(s)] = f] # <<>>
      /\ Append(s, f) \in Seq(A) /\ Append(s, f) # <<>>
  <2>1. f \in A
    BY DEF A
  <2> QED BY <1>1, <2>1
<1>6. ASSUME Len(s) > 1
      PROVE  /\ GoodFrame(s[Len(s) - 1])
             /\ Append(SubSeq(s, 1, Len(s) - 2), f) \in Seq(A)
             /\ Append(SubSeq(s, 1, Len(s) - 2), f) # <<>>
  <2> DEFINE m == 1
             n == Len(s) - 2
  <2>1. m \in Int /\ n \in Int /\ \A i \in m..n : s[i] \in A
    BY <1>1, <1>6
  <2>2. GoodFrame(s[Len(s) - 1])
    BY <1>1, <1>3, <1>6
  <2> HIDE DEF m, n
  <2>3. SubSeq(s, m, n) \in Seq(A)
    BY <2>1, SubSeqProperties
  <2> DEFINE t == SubSeq(s, m, n)
  <2>4. f \in A /\ t \in Seq(A)
    BY <2>3 DEF A
  <2> HIDE DEF t
  <2>5. Append(t, f) \in Seq(A) /\ Append(t, f) # <<>>
    BY <2>4, AppendOne
  <2> QED BY <2>2, <2>5 DEF m, n, t
<1> QED BY <1>2, <1>5, <1>6

-----------------------------------------------------------------------------
(* What the visitor has still to do.                                       *)

\* The first of it, and the rest.
LEMMA FirstAndRest ==
  ASSUME NEW p, NEW s, GoodItems(p, s), s # <<>>
  PROVE  GoodItem(p, Head(s)) /\ GoodItems(p, Tail(s))
<1> DEFINE A == Range(s)
<1>1. s \in Seq(A) /\ \A n \in A : GoodItem(p, n)
  BY DEF GoodItems
<1> HIDE DEF A
<1>2. Head(s) \in A /\ Tail(s) \in Seq(A)
  BY <1>1
<1>3. Tail(s) \in Seq(Range(Tail(s))) /\ Range(Tail(s)) \subseteq A
  BY <1>2, RangeOf
<1> QED BY <1>1, <1>2, <1>3 DEF GoodItems

\* Two parts of it.
LEMMA ItemsJoin ==
  ASSUME NEW p, NEW s, GoodItems(p, s), NEW t, GoodItems(p, t)
  PROVE  GoodItems(p, s \o t)
<1> DEFINE A == Range(s) \cup Range(t)
<1>1. s \in Seq(A) /\ t \in Seq(A) /\ \A n \in A : GoodItem(p, n)
  BY DEF GoodItems
<1> HIDE DEF A
<1>2. s \o t \in Seq(A)
  BY <1>1
<1>3. s \o t \in Seq(Range(s \o t)) /\ Range(s \o t) \subseteq A
  BY <1>2, RangeOf
<1> QED BY <1>1, <1>3 DEF GoodItems

\* One item, or none.
LEMMA FewItems ==
  ASSUME NEW p
  PROVE  /\ GoodItems(p, <<>>)
         /\ \A m : GoodItem(p, m) => GoodItems(p, <<m>>)
         /\ \A m, n : GoodItem(p, m) /\ GoodItem(p, n) => GoodItems(p, <<m, n>>)
BY DEF GoodItems, Range

\* The children of a node.
LEMMA KidsGood ==
  ASSUME NEW p \in Programs, NEW t \in Nodes(p), NEW at
  PROVE  GoodItems(p, VisitKids(t, at))
<1>1. t.kids \in Seq(Nodes(p))
  BY ProgramAssumption DEF IsNode
<1> DEFINE n == Len(t.kids)
           Of(i) == Item("visit", t.kids[i], Append(at, i))
           s == VisitKids(t, at)
           A == {Of(i) : i \in 1..n}
<1>2. n \in Nat /\ DOMAIN t.kids = 1..n /\ \A i \in 1..n : t.kids[i] \in Nodes(p)
  BY <1>1
<1>3. \A i \in 1..n : GoodItem(p, Of(i))
  BY <1>2 DEF GoodItem, Item
<1>4. s = [i \in 1..n |-> Of(i)]
  BY <1>2 DEF VisitKids
<1> HIDE DEF s, n, Of
<1>5. s \in Seq(A)
  BY <1>2, <1>4
<1>6. \A x \in A : GoodItem(p, x)
  BY <1>3
<1> HIDE DEF A
<1>7. s \in Seq(Range(s)) /\ Range(s) \subseteq A
  BY <1>5, RangeOf
<1> QED BY <1>6, <1>7 DEF GoodItems, s

-----------------------------------------------------------------------------
(* The steps.                                                              *)

\* What a handler finds when its assertions hold: ints, and nothing else.
LEMMA ReadsInts ==
  ASSUME IInv, status = "running", Asserted(Top)
  PROVE  /\ mStack # <<>> /\ GoodFrame(Back)
         /\ \A at \in NodesRead(Top) : StmtVal(at) \in IntRange
         /\ \A x \in VarsRead(Top) : DeclVal(x) \in IntRange
         /\ \A c \in CellsUsed(Top) : mContents[c] \in IntRange
<1>1. mStack # <<>> /\ GoodFrames(mStack) /\ Range(mContents) \subseteq IntRange
  BY DEF IInv
<1>2. GoodFrame(Back)
  BY <1>1, LastFrame DEF Back
<1>3. \A at \in DOMAIN Back.exprs : Back.exprs[at] \in IntRange
  BY <1>2 DEF GoodFrame, Range
<1>4. \A x \in DOMAIN Back.vars : Back.vars[x] \in IntRange
  BY <1>2 DEF GoodFrame, Range
<1>5. \A c \in DOMAIN mContents : mContents[c] \in IntRange
  BY <1>1 DEF Range
<1> QED BY <1>1, <1>2, <1>3, <1>4, <1>5 DEF Asserted, StmtVal, DeclVal

\* A handler that goes on with the rest.
LEMMA HandledRest ==
  ASSUME IInv, NEW do, NEW kinds, Handling(do, kinds)
  PROVE  /\ status = "running" /\ program \in Programs /\ Asserted(Top)
         /\ Top.do = do /\ Top.tree.kind \in kinds
         /\ GoodItem(program, Top) /\ GoodItems(program, Tail(todo))
BY FirstAndRest DEF IInv, Handling, Top

\* What is left to show of a step.
LEMMA StepKeeps ==
  ASSUME IInv, status = "running", UNCHANGED <<program, input>>, scanned' \in Nat,
         status' \in {"running", "aborted"},
         GoodFrames(mStack'), mStack' # <<>>, GoodItems(program, todo'),
         Range(mContents') \subseteq IntRange
  PROVE  IInv'
BY DEF IInv

\* A handler that changes the last frame only.
LEMMA BackKeeps ==
  ASSUME IInv, NEW do, NEW kinds, Handled(do, kinds), NEW f, GoodFrame(f),
         SetBack(f) \/ UNCHANGED mStack,
         UNCHANGED <<program, input, status>>, scanned' \in Nat, Range(mContents') \subseteq IntRange
  PROVE  IInv'
<1>1. Handling(do, kinds) /\ todo' = Tail(todo)
  BY DEF Handled
<1>2. status = "running" /\ GoodItems(program, todo')
  BY <1>1, HandledRest
<1>3. GoodFrames(mStack) /\ mStack # <<>>
  BY <1>2 DEF IInv
<1>4. GoodFrames(mStack') /\ mStack' # <<>>
  <2>1. CASE SetBack(f)
    BY <1>3, <2>1, FramesChange DEF SetBack
  <2>2. CASE UNCHANGED mStack
    BY <1>3, <2>2
  <2> QED BY <2>1, <2>2
<1>5. UNCHANGED <<program, input>> /\ status' \in {"running", "aborted"}
  BY <1>2
<1> QED BY <1>2, <1>4, <1>5, StepKeeps

\* Integers, sizes and references.
LEMMA LeafKeeps ==
  ASSUME IInv, IntegerLiteral \/ Sizeof \/ Declref
  PROVE  IInv'
<1>1. CASE IntegerLiteral
  <2>1. Handled("apply", {"int"}) /\ SetBack(BindStmt(Back, Top.at, Top.tree.val))
    BY <1>1 DEF IntegerLiteral
  <2>2. Handling("apply", {"int"})
    BY <2>1 DEF Handled
  <2>3. Top.tree \in Nodes(program) /\ Top.tree.kind = "int" /\ program \in Programs
    BY <2>2, HandledRest DEF GoodItem
  <2>4. Top.tree.val \in Int
    BY <2>3, ProgramAssumption DEF IsNode
  <2>5. GoodFrame(BindStmt(Back, Top.at, Top.tree.val))
    BY <2>2, <2>4, HandledRest, ReadsInts, BindKeeps
  <2>6. /\ UNCHANGED <<program, input, status>>
        /\ scanned' \in Nat /\ Range(mContents') \subseteq IntRange
    BY <1>1 DEF IntegerLiteral, IInv
  <2> QED BY <2>1, <2>5, <2>6, BackKeeps
<1>2. CASE Sizeof
  <2>1. Handled("apply", {"sizeof"}) /\ SetBack(BindStmt(Back, Top.at, 8))
    BY <1>2 DEF Sizeof
  <2>2. Handling("apply", {"sizeof"}) /\ 8 \in Int
    BY <2>1 DEF Handled
  <2>3. GoodFrame(BindStmt(Back, Top.at, 8))
    BY <2>2, HandledRest, ReadsInts, BindKeeps
  <2>4. /\ UNCHANGED <<program, input, status>>
        /\ scanned' \in Nat /\ Range(mContents') \subseteq IntRange
    BY <1>2 DEF Sizeof, IInv
  <2> QED BY <2>1, <2>3, <2>4, BackKeeps
<1>3. CASE Declref
  <2> DEFINE v == IF Top.tree.op = "object" THEN DeclVal(Top.tree.name) ELSE 0
             f == BindStmt(SetPC(Back, Top.at), Top.at, v)
  <2>1. Handled("apply", {"ref"}) /\ SetBack(f)
    BY <1>3 DEF Declref
  <2>2. Handling("apply", {"ref"})
    BY <2>1 DEF Handled
  <2>3. /\ Top.do = "apply" /\ Top.tree.kind = "ref" /\ GoodFrame(Back)
        /\ \A x \in VarsRead(Top) : DeclVal(x) \in IntRange
    BY <2>2, HandledRest, ReadsInts
  <2>4. v \in Int
    BY <2>3, KeptAsInt DEF VarsRead
  <2> HIDE DEF v
  <2>5. GoodFrame(f)
    BY <2>3, <2>4, BindKeeps
  <2> HIDE DEF f
  <2>6. /\ UNCHANGED <<program, input, status>>
        /\ scanned' \in Nat /\ Range(mContents') \subseteq IntRange
    BY <1>3 DEF Declref, IInv
  <2> QED BY <2>1, <2>5, <2>6, BackKeeps
<1> QED BY <1>1, <1>2, <1>3

\* Casts, operators and array elements: the values are those of children, or of cells.
LEMMA OperatorKeeps ==
  ASSUME IInv, Cast \/ Binop \/ Unaryop \/ Array
  PROVE  IInv'
<1>1. PICK kinds \in {{"cast"}, {"binary"}, {"unary"}, {"index"}} : Handled("apply", kinds)
  BY DEF Cast, Binop, Unaryop, Array
<1>2. Handling("apply", kinds)
  BY <1>1 DEF Handled
<1>3. /\ Top.do = "apply" /\ Top.tree.kind \in kinds /\ GoodFrame(Back)
      /\ \A at \in NodesRead(Top) : StmtVal(at) \in IntRange
      /\ \A c \in CellsUsed(Top) : mContents[c] \in IntRange
  BY <1>2, HandledRest, ReadsInts
<1>4. /\ UNCHANGED <<program, input, status>>
      /\ scanned' \in Nat /\ Range(mContents') \subseteq IntRange
  BY DEF Cast, Binop, Unaryop, Array, IInv
<1>5. \/ UNCHANGED mStack
      \/ \E v \in Int : SetBack(BindStmt(Back, Top.at, v))
                        \/ SetBack(BindStmt(SetPC(Back, Top.at), Top.at, v))
  <2>1. CASE Cast
    <3>1. Top.tree.kind = "cast"
      BY <2>1, HandledRest DEF Cast, Handled
    <3>2. StmtVal(Kid(Top, 1)) \in Int
      BY <1>3, <3>1, KeptAsInt DEF NodesRead
    <3> QED BY <2>1, <3>2 DEF Cast
  <2>2. CASE Binop
    <3>1. Top.tree.kind = "binary"
      BY <2>2, HandledRest DEF Binop, Handled
    <3> DEFINE a == StmtVal(Kid(Top, 1))
               b == StmtVal(Kid(Top, 2))
               v == Operator(Top.tree.op, a, b)
    <3>2. a \in Int /\ b \in Int
      BY <1>3, <3>1, KeptAsInt DEF NodesRead
    <3>3. UNCHANGED mStack \/ \E r \in v : SetBack(BindStmt(Back, Top.at, r))
      BY <2>2 DEF Binop
    <3> HIDE DEF a, b
    <3>4. v \subseteq Int
      BY <3>2 DEF Operator
    <3> QED BY <3>3, <3>4
  <2>3. CASE Unaryop
    <3>1. Top.tree.kind = "unary"
      BY <2>3, HandledRest DEF Unaryop, Handled
    <3> DEFINE a == StmtVal(Kid(Top, 1))
               v == Prefix(Top.tree.op, a)
    <3>2. a \in Int
      BY <1>3, <3>1, KeptAsInt DEF NodesRead
    <3>3. UNCHANGED mStack \/ \E r \in v : SetBack(BindStmt(Back, Top.at, r))
      BY <2>3 DEF Unaryop
    <3>4. Top.tree.op = "*" => mContents[a] \in Int
      BY <1>3, <3>1, KeptAsInt DEF CellsUsed, IsDeref
    <3> HIDE DEF a
    <3>5. v \subseteq Int
      BY <3>2, <3>4 DEF Prefix
    <3> QED BY <3>3, <3>5
  <2>4. CASE Array
    <3>1. Top.tree.kind = "index"
      BY <2>4, HandledRest DEF Array, Handled
    <3>2. mContents[Element(Top)] \in Int
      BY <1>3, <3>1, KeptAsInt DEF CellsUsed, IsDeref
    <3> QED BY <2>4, <3>2 DEF Array
  <2> QED BY <2>1, <2>2, <2>3, <2>4
<1>6. PICK f : GoodFrame(f) /\ (SetBack(f) \/ UNCHANGED mStack)
  BY <1>3, <1>5, BindKeeps
<1> QED BY <1>1, <1>4, <1>6, BackKeeps

\* An assignment gives its right value to a node, a variable or a cell.
LEMMA AssignKeeps ==
  ASSUME IInv, Assign
  PROVE  IInv'
<1> DEFINE left == Target(Top)
           right == StmtVal(Kid(Top, 2))
           bound == BindStmt(Back, left.at, right)
           f == IF left.tree.kind = "ref" THEN BindDecl(bound, left.tree.name, right) ELSE bound
<1>1. /\ Handled("apply", {"assign"}) /\ SetBack(f)
      /\ mContents' = [c \in DOMAIN mContents |->
                         IF c \in CellsUsed(Top) THEN right ELSE mContents[c]]
  BY DEF Assign
<1>2. Handling("apply", {"assign"})
  BY <1>1 DEF Handled
<1>3. /\ Top.do = "apply" /\ Top.tree.kind = "assign" /\ GoodFrame(Back)
      /\ \A at \in NodesRead(Top) : StmtVal(at) \in IntRange
  BY <1>2, HandledRest, ReadsInts
<1>4. right \in IntRange /\ right \in Int
  BY <1>3, KeptAsInt DEF NodesRead
<1>5. Range(mContents') \subseteq IntRange
  BY <1>1, <1>4 DEF IInv, Range
<1> HIDE DEF left, right
<1>6. GoodFrame(f)
  BY <1>3, <1>4, BindKeeps
<1> HIDE DEF f
<1>7. UNCHANGED <<program, input, status>> /\ scanned' \in Nat
  BY DEF Assign, IInv
<1> QED BY <1>1, <1>5, <1>6, <1>7, BackKeeps

\* New cells hold 0, and releasing some changes no other.
LEMMA HeapKeepsInts ==
  ASSUME Range(mContents) \subseteq IntRange
  PROVE  /\ \A size, base : Malloc(size, base) => base \in Int /\ Range(mContents') \subseteq IntRange
         /\ \A addr : Free(addr) => Range(mContents') \subseteq IntRange
<1>1. ASSUME NEW size, NEW base, Malloc(size, base)
      PROVE  base \in Int /\ Range(mContents') \subseteq IntRange
  <2>1. base \in Int
    BY <1>1, HostAssumption DEF Malloc
  <2>2. mContents' = [c \in DOMAIN mContents \cup Cells(base, size) |->
                        IF c \in DOMAIN mContents THEN mContents[c] ELSE 0]
    BY <1>1 DEF Malloc
  <2>3. Range(mContents') \subseteq Range(mContents) \cup {0}
    BY <2>2 DEF Range
  <2> QED BY <2>1, <2>3, KeptAsInt
<1>2. ASSUME NEW addr, Free(addr) PROVE Range(mContents') \subseteq IntRange
  <2>1. Range(mContents') \subseteq Range(mContents)
    BY <1>2 DEF Free, Restrict, Range
  <2> QED BY <2>1
<1> QED BY <1>1, <1>2

\* A variable is declared with the value of its initialiser, 0 or an address.
LEMMA DeclKeeps ==
  ASSUME IInv, Decl
  PROVE  IInv'
<1> DEFINE v == Head(Top.tree.vars)
<1>1. Handled("declare", {"decl"})
  BY DEF Decl
<1>2. Handling("declare", {"decl"})
  BY <1>1 DEF Handled
<1>3. /\ Top.do = "declare" /\ GoodItem(program, Top) /\ GoodFrame(Back)
      /\ \A at \in NodesRead(Top) : StmtVal(at) \in IntRange
  BY <1>2, HandledRest, ReadsInts
<1>4. v \in Range(Top.tree.vars)
  BY <1>3 DEF GoodItem, Range
<1>5. Range(mContents) \subseteq IntRange
  BY DEF IInv
<1>6. /\ Range(mContents') \subseteq IntRange
      /\ \E r \in Int : SetBack(BindDecl(Back, v.name, r))
  <2>1. CASE /\ v.init # 0
             /\ SetBack(BindDecl(Back, v.name, StmtVal(Kid(Top, v.init))))
             /\ UNCHANGED <<mBufs, mContents>>
    <3>1. Kid(Top, v.init) \in NodesRead(Top)
      BY <1>3, <1>4, <2>1 DEF NodesRead
    <3> QED BY <1>3, <1>5, <2>1, <3>1, KeptAsInt
  <2>2. CASE SetBack(BindDecl(Back, v.name, 0)) /\ UNCHANGED <<mBufs, mContents>>
    BY <1>5, <2>2
  <2>3. CASE \E base \in Bases : /\ Malloc(v.size, base)
                                 /\ SetBack(BindDecl(Back, v.name, base))
    BY <1>5, <2>3, HeapKeepsInts
  <2> QED BY <2>1, <2>2, <2>3 DEF Decl
<1>7. PICK f : GoodFrame(f) /\ SetBack(f)
  BY <1>3, <1>6, BindKeeps
<1>8. UNCHANGED <<program, input, status>> /\ scanned' \in Nat
  BY DEF Decl, IInv
<1> QED BY <1>1, <1>6, <1>7, <1>8, BackKeeps

\* GET, PRINT, MALLOC and FREE.
LEMMA BuiltinKeeps ==
  ASSUME IInv, CallInput \/ CallOutput \/ CallMalloc \/ CallFree
  PROVE  IInv'
<1>1. PICK name \in Builtins : Calling(name)
  BY DEF CallInput, CallOutput, CallMalloc, CallFree, Builtins
<1>2. Handling("apply", {"call"}) /\ Handled("apply", {"call"})
  BY <1>1 DEF Calling, Handled, CallInput, CallOutput, CallMalloc, CallFree
<1>3. GoodFrame(Back) /\ GoodFrame(Here)
  BY <1>2, HandledRest, ReadsInts, BindKeeps DEF Here
<1>4. Range(mContents) \subseteq IntRange /\ scanned \in Nat /\ input \in Seq(Int)
  BY HostAssumption DEF IInv
<1>5. /\ Range(mContents') \subseteq IntRange /\ scanned' \in Nat
      /\ SetBack(Here) \/ \E r \in Int : SetBack(BindStmt(Here, Top.at, r))
  <2>1. CASE CallInput
    <3> DEFINE r == IF scanned < Len(input) THEN input[scanned + 1] ELSE 0
    <3>1. r \in Int
      BY <1>4
    <3>2. SetBack(BindStmt(Here, Top.at, r)) /\ mContents' = mContents /\ scanned' = scanned + 1
      BY <2>1 DEF CallInput
    <3> HIDE DEF r
    <3> QED BY <1>4, <3>1, <3>2
  <2>2. CASE CallOutput
    BY <1>4, <2>2 DEF CallOutput
  <2>3. CASE CallMalloc
    BY <1>4, <2>3, HeapKeepsInts DEF CallMalloc
  <2>4. CASE CallFree
    <3>1. Free(Arg(1)) /\ SetBack(BindStmt(Here, Top.at, 0)) /\ scanned' = scanned
      BY <2>4 DEF CallFree
    <3>2. Range(mContents') \subseteq IntRange
      BY <1>4, <3>1, HeapKeepsInts
    <3> QED BY <1>4, <3>1, <3>2
  <2> QED BY <2>1, <2>2, <2>3, <2>4
<1>6. PICK f : GoodFrame(f) /\ SetBack(f)
  BY <1>3, <1>5, BindKeeps
<1>7. UNCHANGED <<program, input, status>>
  BY DEF CallInput, CallOutput, CallMalloc, CallFree
<1> QED BY <1>2, <1>5, <1>6, <1>7, BackKeeps

\* A call of another function: its frame keeps the arguments, which were visited.
LEMMA CallKeeps ==
  ASSUME IInv, CallFunction
  PROVE  IInv'
<1> DEFINE params == program.params[Top.tree.name]
           args == [x \in Range(params) |-> Arg(CHOOSE i \in DOMAIN params : params[i] = x)]
           body == IF Top.tree.name \in DOMAIN program.bodies
                   THEN VisitKids(program.bodies[Top.tree.name], <<Top.tree.name>>) ELSE <<>>
<1>1. /\ Handling("apply", {"call"}) /\ Top.tree.name \notin Builtins
      /\ mStack' = Append([mStack EXCEPT ![Len(mStack)] = Here], StackFrame(args))
      /\ todo' = body \o Tail(todo)
      /\ UNCHANGED <<program, mContents, input, scanned, status>>
  BY DEF CallFunction
<1>2. /\ status = "running" /\ program \in Programs /\ Top.do = "apply" /\ Top.tree.kind = "call"
      /\ GoodItem(program, Top) /\ GoodItems(program, Tail(todo))
      /\ mStack # <<>> /\ GoodFrame(Back)
      /\ \A at \in NodesRead(Top) : StmtVal(at) \in IntRange
  BY <1>1, HandledRest, ReadsInts
<1>3. /\ params \in Seq(Range(params)) /\ Len(params) < Len(Top.tree.kids)
      /\ Top.tree.kids \in Seq(Nodes(program))
  <2>1. Top.tree \in Nodes(program)
    BY <1>2 DEF GoodItem
  <2> QED BY <1>1, <1>2, <2>1, ProgramAssumption DEF IsNode
<1>4. \A i \in DOMAIN params : Arg(i) \in IntRange
  <2> SUFFICES ASSUME NEW i \in DOMAIN params PROVE Arg(i) \in IntRange
    OBVIOUS
  <2>1. i + 1 \in 2..Len(Top.tree.kids)
    BY <1>3
  <2>2. Kid(Top, i + 1) \in NodesRead(Top)
    BY <1>2, <2>1 DEF NodesRead
  <2> QED BY <1>2, <2>2 DEF Arg
<1>5. \A x \in Range(params) : \E i \in DOMAIN params : params[i] = x
  BY DEF Range
<1>6. Range(args) \subseteq IntRange
  <2>1. \A x \in Range(params) : (CHOOSE i \in DOMAIN params : params[i] = x) \in DOMAIN params
    BY <1>5
  <2>2. \A x \in Range(params) : args[x] \in IntRange
    BY <1>4, <2>1
  <2> HIDE DEF params
  <2>3. DOMAIN args = Range(params)
    OBVIOUS
  <2> HIDE DEF args
  <2> QED BY <2>2, <2>3 DEF Range
<1>7. GoodFrame(StackFrame(args))
  <2> HIDE DEF args
  <2>1. Range(Empty) = {}
    BY DEF Empty, Range
  <2> QED BY <1>6, <2>1 DEF GoodFrame, StackFrame
<1>8. GoodFrames(mStack') /\ mStack' # <<>>
  <2> DEFINE new == StackFrame(args)
             s == [mStack EXCEPT ![Len(mStack)] = Here]
  <2>1. GoodFrame(Here) /\ GoodFrames(mStack) /\ mStack # <<>>
    BY <1>2, BindKeeps DEF Here, IInv
  <2>2. GoodFrames(s) /\ s # <<>>
    BY <2>1, FramesChange
  <2>3. mStack' = Append(s, new) /\ GoodFrame(new)
    BY <1>1, <1>7
  <2> HIDE DEF new, s
  <2> QED BY <2>2, <2>3, FramesChange
<1>9. GoodItems(program, body)
  <2>1. CASE Top.tree.name \in DOMAIN program.bodies
    <3>1. program.bodies[Top.tree.name] \in Nodes(program)
      BY <1>2, <2>1, ProgramAssumption
    <3> QED BY <1>2, <2>1, <3>1, KidsGood
  <2>2. CASE Top.tree.name \notin DOMAIN program.bodies
    BY <2>2, FewItems
  <2> QED BY <2>1, <2>2
<1> HIDE DEF body
<1>10. GoodItems(program, todo')
  BY <1>1, <1>2, <1>9, ItemsJoin
<1>11. /\ UNCHANGED <<program, input>> /\ scanned' \in Nat /\ status' \in {"running", "aborted"}
       /\ Range(mContents') \subseteq IntRange
  BY <1>1, <1>2 DEF IInv
<1> QED BY <1>2, <1>8, <1>10, <1>11, StepKeeps

\* A return leaves the frame of its function, and the caller's keeps its value.
LEMMA ReturnKeeps ==
  ASSUME IInv, Ret \/ RetFromMain
  PROVE  IInv'
<1>1. Handled("apply", {"return"}) /\ Handling("apply", {"return"})
  BY DEF Ret, RetFromMain, Handled
<1>2. /\ status = "running" /\ Top.do = "apply" /\ Top.tree.kind = "return"
      /\ mStack # <<>> /\ GoodFrames(mStack) /\ GoodItems(program, Tail(todo))
      /\ \A at \in NodesRead(Top) : StmtVal(at) \in IntRange
  BY <1>1, HandledRest, ReadsInts DEF IInv
<1>3. todo' = Tail(todo)
  BY <1>1 DEF Handled
<1>4. CASE Ret
  <2> DEFINE at == CHOOSE n \in NodesRead(Top) : TRUE
             caller == mStack[Len(mStack) - 1]
             f == BindStmt(caller, caller.pc, StmtVal(at))
  <2>1. Len(mStack) > 1 /\ mStack' = Append(SubSeq(mStack, 1, Len(mStack) - 2), f)
    BY <1>4 DEF Ret
  <2>2. at \in NodesRead(Top)
    <3>1. \E n : n \in NodesRead(Top)
      BY <1>2 DEF NodesRead
    <3> QED BY <3>1
  <2>3. StmtVal(at) \in Int
    BY <1>2, <2>2, KeptAsInt
  <2> HIDE DEF at
  <2>4. GoodFrame(caller)
    <3>1. GoodFrame(mStack[Len(mStack)])
      BY <1>2, LastFrame
    <3> QED BY <1>2, <2>1, <3>1, FramesChange
  <2>5. GoodFrame(f)
    BY <2>3, <2>4, BindKeeps
  <2> HIDE DEF f
  <2>6. GoodFrames(mStack') /\ mStack' # <<>>
    BY <1>2, <2>1, <2>5, FramesChange
  <2>7. /\ UNCHANGED <<program, input>> /\ scanned' \in Nat /\ status' \in {"running", "aborted"}
        /\ Range(mContents') \subseteq IntRange
    BY <1>2, <1>4 DEF Ret, IInv
  <2> QED BY <1>2, <1>3, <2>6, <2>7, StepKeeps
<1>5. CASE RetFromMain
  <2>1. GoodFrames(<<>>)
    BY DEF GoodFrames, Range
  <2> QED BY <1>2, <1>3, <1>5, <2>1 DEF RetFromMain, IInv
<1> QED BY <1>4, <1>5

\* The visitor puts nodes of the program before the rest.
LEMMA VisitKeeps ==
  ASSUME IInv, VisitNode \/ VisitCondition \/ Branch \/ Test
  PROVE  IInv'
<1>1. /\ status = "running" /\ todo # <<>> /\ program \in Programs
      /\ GoodItem(program, Top) /\ GoodItems(program, Tail(todo))
      /\ GoodFrames(mStack) /\ mStack # <<>> /\ Range(mContents) \subseteq IntRange
  BY FirstAndRest DEF IInv, Top, VisitNode, VisitCondition, Branch, Test, Handling
<1>2. /\ UNCHANGED <<program, mStack, mContents, input, scanned, status>>
      /\ Top.do # "declare"
  BY DEF VisitNode, VisitCondition, Branch, Test, Handling
<1>3. Top.tree \in Nodes(program) /\ IsNode(program, Top.tree)
  BY <1>1, <1>2, ProgramAssumption DEF GoodItem
<1>4. Top.tree.kids \in Seq(Nodes(program)) /\ \A at : GoodItems(program, VisitKids(Top.tree, at))
  BY <1>1, <1>3, KidsGood DEF IsNode
<1>5. \A do, at : do # "declare" => GoodItem(program, Item(do, Top.tree, at))
  BY <1>3 DEF GoodItem, Item
<1>6. \A i \in DOMAIN Top.tree.kids : /\ Top.tree.kids[i] \in Nodes(program)
                                      /\ \A at : /\ GoodItem(program, Item("visit", Top.tree.kids[i], at))
                                                 /\ GoodItems(program, VisitKids(Top.tree.kids[i], at))
  BY <1>1, <1>4, KidsGood DEF GoodItem, Item
<1>7. \E s : GoodItems(program, s) /\ todo' = s \o Tail(todo)
  <2>1. CASE VisitNode
    <3> DEFINE n == Len(Top.tree.vars)
               Of(i) == Item("declare", [Top.tree EXCEPT !.vars = <<@[i]>>], Top.at)
               decls == [i \in DOMAIN Top.tree.vars |-> Of(i)]
               handlers == CASE Top.tree.kind \in HasHandler -> <<Item("apply", Top.tree, Top.at)>>
                             [] Top.tree.kind = "decl" -> decls
                             [] OTHER -> <<>>
               kids == VisitKids(Top.tree, Top.at)
    <3>1. todo' = kids \o handlers \o Tail(todo)
      BY <2>1 DEF VisitNode
    <3>2. GoodItems(program, handlers)
      <4>1. CASE Top.tree.kind \in HasHandler
        <5> DEFINE own == Item("apply", Top.tree, Top.at)
        <5>1. handlers = <<own>>
          BY <4>1 DEF HasHandler
        <5>2. GoodItem(program, own)
          BY <1>5
        <5> HIDE DEF own, handlers
        <5> QED BY <5>1, <5>2, FewItems
      <4>2. CASE Top.tree.kind = "decl"
        <5>1. Top.tree.vars \in Seq(Range(Top.tree.vars)) /\ "vars" \in DOMAIN Top.tree
          BY <1>3, <4>2 DEF IsNode
        <5>2. \A i : GoodItem(program, Of(i))
          BY <5>1 DEF GoodItem, Item
        <5>3. n \in Nat /\ decls = [i \in 1..n |-> Of(i)]
          BY <5>1
        <5> DEFINE A == {Of(i) : i \in 1..n}
        <5> HIDE DEF n, Of, decls
        <5>4. decls \in Seq(A) /\ \A x \in A : GoodItem(program, x)
          BY <5>2, <5>3
        <5> HIDE DEF A
        <5>5. decls \in Seq(Range(decls)) /\ Range(decls) \subseteq A
          BY <5>4, RangeOf
        <5>6. GoodItems(program, decls)
          BY <5>4, <5>5 DEF GoodItems
        <5>7. handlers = decls
          BY <4>2 DEF HasHandler
        <5> HIDE DEF handlers
        <5> QED BY <5>6, <5>7
      <4>3. CASE Top.tree.kind \notin HasHandler \cup {"decl"}
        BY <4>3, FewItems
      <4> QED BY <4>1, <4>2, <4>3
    <3>3. GoodItems(program, kids)
      BY <1>4
    <3> HIDE DEF kids, handlers
    <3>4. GoodItems(program, kids \o handlers)
      BY <3>2, <3>3, ItemsJoin
    <3> QED BY <3>1, <3>4
  <2>2. CASE VisitCondition
    <3>1. 1 \in DOMAIN Top.tree.kids
      BY <1>3, <1>4, <2>2 DEF VisitCondition, IsNode
    <3> DEFINE first == Item("visit", Top.tree.kids[1], Kid(Top, 1))
               then == Item(IF Top.tree.kind = "if" THEN "branch" ELSE "test", Top.tree, Top.at)
    <3>2. GoodItem(program, first) /\ GoodItem(program, then)
      BY <1>5, <1>6, <3>1
    <3>3. todo' = <<first, then>> \o Tail(todo)
      BY <2>2 DEF VisitCondition
    <3> HIDE DEF first, then
    <3> QED BY <3>2, <3>3, FewItems
  <2>3. CASE Branch
    BY <1>6, <2>3, FewItems DEF Branch
  <2>4. CASE Test
    <3>1. 1 \in DOMAIN Top.tree.kids /\ 2 \in DOMAIN Top.tree.kids
      <4>1. Top.tree.kind = "while"
        BY <2>4 DEF Test, Handling
      <4>2. Len(Top.tree.kids) = 2
        BY <1>3, <4>1 DEF IsNode
      <4> QED BY <1>4, <4>2
    <3> DEFINE first == Item("visit", Top.tree.kids[1], Kid(Top, 1))
               again == <<first, Top>>
               body == IF Top.tree.kids[2].kind = "block"
                       THEN VisitKids(Top.tree.kids[2], Kid(Top, 2)) ELSE <<>>
    <3>2. GoodItems(program, again) /\ GoodItems(program, body)
      BY <1>1, <1>6, <3>1, FewItems
    <3>3. todo' = Tail(todo) \/ todo' = body \o again \o Tail(todo)
      BY <2>4 DEF Test
    <3>4. Tail(todo) = <<>> \o Tail(todo)
      BY <1>1 DEF GoodItems
    <3> HIDE DEF again, body
    <3>5. GoodItems(program, body \o again) /\ GoodItems(program, <<>>)
      BY <3>2, ItemsJoin, FewItems
    <3> QED BY <3>3, <3>4, <3>5
  <2> QED BY <2>1, <2>2, <2>3, <2>4
<1>8. GoodItems(program, todo')
  BY <1>1, <1>7, ItemsJoin
<1>9. scanned' \in Nat /\ status' \in {"running", "aborted"} /\ Range(mContents') \subseteq IntRange
  BY <1>1, <1>2 DEF IInv
<1> QED BY <1>1, <1>2, <1>8, <1>9, StepKeeps

\* What a handler relies on holds throughout: what is to be visited are nodes of the
\* program, and frames and memory keep ints.
THEOREM Invariance == Spec => []IInv
<1>1. Init => IInv
  <2> SUFFICES ASSUME Init PROVE IInv
    OBVIOUS
  <2>1. GoodFrames(mStack) /\ mStack # <<>>
    <3> DEFINE f == StackFrame(Empty)
    <3>1. mStack = <<f>>
      BY DEF Init
    <3>2. GoodFrame(f)
      <4>1. Range(Empty) = {}
        BY DEF Empty, Range
      <4> QED BY <4>1 DEF GoodFrame, StackFrame
    <3> HIDE DEF f
    <3> QED BY <3>1, <3>2 DEF GoodFrames, Range
  <2>2. GoodItems(program, todo)
    BY ProgramAssumption, KidsGood DEF Init
  <2>3. Range(mContents) = {}
    BY DEF Init, Empty, Range
  <2> QED BY <2>1, <2>2, <2>3 DEF Init, IInv
<1>2. IInv /\ [Next]_vars => IInv'
  <2> SUFFICES ASSUME IInv, [Next]_vars PROVE IInv'
    OBVIOUS
  <2>1. CASE Abort
    <3>1. GoodFrames(mStack) /\ mStack # <<>> /\ status = "running"
      BY <2>1 DEF IInv, Abort
    <3> QED BY <2>1, <3>1 DEF Abort, IInv
  <2>2. CASE UNCHANGED vars
    BY <2>2 DEF vars, IInv
  <2> QED BY <2>1, <2>2, VisitKeeps, LeafKeeps, OperatorKeeps, AssignKeeps, DeclKeeps,
             ReturnKeeps, BuiltinKeeps, CallKeeps DEF Next, Stopped
<1> QED BY <1>1, <1>2, PTL DEF Spec

\* For every program that clang accepts, every input and every allocator that returns
\* integers: frames and memory keep ints, whatever was computed, and there is a frame
\* as long as no return has left main.
THEOREM TypeCorrect == Spec => []TypeOK
<1> QED BY Invariance, TypesFollow, PTL

-----------------------------------------------------------------------------
(* Frames and calls.                                                       *)

\* No child of what is to be visited is a return.
Settled(n) ==
  IF n.do = "declare" THEN n.tree.kind = "decl"
  ELSE \A j \in Range(n.tree.kids) : j.kind # "return"

\* A part of what the visitor has still to do, with k returns in it.
Part(s, k) ==
  /\ s \in Seq(Range(s)) /\ \A n \in Range(s) : Settled(n)
  /\ k \in Nat /\ Returns(s) = k

\* Where the returns of a sequence are, which are finitely many.
LEMMA ReturnsFinite ==
  ASSUME NEW A, NEW s \in Seq(A)
  PROVE  LET R == {i \in DOMAIN s : s[i].tree.kind = "return"}
         IN  IsFiniteSet(R) /\ Returns(s) = Cardinality(R) /\ Returns(s) \in Nat
<1> DEFINE R == {i \in DOMAIN s : s[i].tree.kind = "return"}
<1>1. Len(s) \in Nat /\ R \subseteq 1..Len(s)
  OBVIOUS
<1>2. IsFiniteSet(R)
  BY <1>1, FS_Interval, FS_Subset
<1> QED BY <1>2, FS_CardinalityType DEF Returns

\* Two parts have the returns of both.
LEMMA PartsJoin ==
  ASSUME NEW s, NEW t, NEW k, NEW l, Part(s, k), Part(t, l)
  PROVE  Part(s \o t, k + l)
<1> DEFINE A == Range(s) \cup Range(t)
           S == {i \in DOMAIN s : s[i].tree.kind = "return"}
           T == {i \in DOMAIN t : t[i].tree.kind = "return"}
           m == Len(s)
           F == [i \in T |-> m + i]
           U == {F[i] : i \in T}
           R == {i \in DOMAIN (s \o t) : (s \o t)[i].tree.kind = "return"}
<1>1. s \in Seq(A) /\ t \in Seq(A) /\ \A n \in A : Settled(n)
  BY DEF Part
<1>2. s \o t \in Seq(A) /\ m \in Nat
  BY <1>1
<1>3. s \o t \in Seq(Range(s \o t)) /\ Range(s \o t) \subseteq A
  BY <1>2, RangeOf
<1>4. /\ IsFiniteSet(S) /\ Cardinality(S) = k /\ IsFiniteSet(T) /\ Cardinality(T) = l
      /\ k \in Nat /\ l \in Nat /\ Returns(s \o t) = Cardinality(R)
  BY <1>1, <1>2, ReturnsFinite DEF Part
<1>5. R = S \cup U
  <2>1. ASSUME NEW i \in R PROVE i \in S \cup U
    <3>1. CASE i <= m
      BY <1>1, <2>1, <3>1
    <3>2. CASE i > m
      <4>1. i - m \in T /\ i = m + (i - m)
        BY <1>1, <2>1, <3>2
      <4> QED BY <4>1
    <3> QED BY <1>1, <1>2, <2>1, <3>1, <3>2
  <2>2. S \subseteq R
    BY <1>1
  <2>3. ASSUME NEW i \in T PROVE F[i] \in R
    BY <1>1, <2>3
  <2> QED BY <2>1, <2>2, <2>3
<1>6. S \cap U = {}
  <2>1. \A i \in S : i <= m
    BY <1>1
  <2>2. \A i \in T : F[i] > m
    BY <1>1, <1>2
  <2>3. \A i \in U : i > m
    BY <2>2
  <2>4. \A i \in S : i \in Int
    BY <1>1
  <2>5. \A i \in T : F[i] \in Int
    BY <1>1, <1>2
  <2>6. \A i \in U : i \in Int
    BY <2>5
  <2> HIDE DEF S, T, F, U, m
  <2> QED BY <1>2, <2>1, <2>3, <2>4, <2>6
<1>7. IsFiniteSet(U) /\ Cardinality(U) = l
  <2>1. \A i \in T : i \in Int
    BY <1>1
  <2>2. F \in Bijection(T, U)
    BY <1>2, <2>1 DEF Bijection, Injection, Surjection, IsInjective
  <2> HIDE DEF F, U, T
  <2> QED BY <1>4, <2>2, FS_Bijection DEF ExistsBijection
<1> HIDE DEF A, S, T, U, R
<1>8. Cardinality(R) = k + l
  <2>1. Cardinality(S \cup U) = Cardinality(S) + Cardinality(U) - Cardinality(S \cap U)
    BY <1>4, <1>7, FS_Union
  <2>2. Cardinality(S \cap U) = 0
    BY <1>6, FS_EmptySet
  <2> QED BY <1>4, <1>5, <1>7, <2>1, <2>2
<1> QED BY <1>1, <1>3, <1>4, <1>8 DEF Part

\* A part without returns, and one of a single return.
LEMMA PartWithout ==
  ASSUME NEW A, NEW s \in Seq(A), \A n \in A : Settled(n) /\ n.tree.kind # "return"
  PROVE  Part(s, 0)
<1>1. s \in Seq(Range(s)) /\ Range(s) \subseteq A
  BY RangeOf
<1>2. {i \in DOMAIN s : s[i].tree.kind = "return"} = {}
  OBVIOUS
<1> QED BY <1>1, <1>2, FS_EmptySet DEF Part, Returns

LEMMA PartSingle ==
  ASSUME NEW n, Settled(n)
  PROVE  Part(<<n>>, IF n.tree.kind = "return" THEN 1 ELSE 0)
<1>1. <<n>> \in Seq({n}) /\ Range(<<n>>) = {n}
  BY DEF Range
<1>2. CASE n.tree.kind = "return"
  <2>1. {i \in DOMAIN <<n>> : <<n>>[i].tree.kind = "return"} = {1}
    BY <1>2
  <2> QED BY <1>1, <1>2, <2>1, FS_Singleton DEF Part, Returns
<1>3. CASE n.tree.kind # "return"
  BY <1>1, <1>3, PartWithout
<1> QED BY <1>2, <1>3

\* What is left behind the first.
LEMMA PartRest ==
  ASSUME NEW s, NEW k, Part(s, k), s # <<>>
  PROVE  /\ Settled(Head(s))
         /\ Head(s).tree.kind = "return" => Part(Tail(s), k - 1)
         /\ Head(s).tree.kind # "return" => Part(Tail(s), k)
<1> DEFINE A == Range(s)
           t == Tail(s)
           h == Head(s)
           one == IF h.tree.kind = "return" THEN 1 ELSE 0
<1>1. s \in Seq(A) /\ \A n \in A : Settled(n)
  BY DEF Part
<1>2. h \in A /\ t \in Seq(A) /\ s = <<h>> \o t
  <2> HIDE DEF A
  <2> QED BY <1>1
<1> HIDE DEF A, t, h
<1>3. Part(t, Returns(t))
  <2>1. t \in Seq(Range(t)) /\ Range(t) \subseteq A
    BY <1>2, RangeOf
  <2>2. Returns(t) \in Nat
    BY <1>2, ReturnsFinite
  <2> QED BY <1>1, <2>1, <2>2 DEF Part
<1>4. Part(<<h>>, one)
  BY <1>1, <1>2, PartSingle
<1> HIDE DEF one
<1>5. Part(s, one + Returns(t))
  BY <1>2, <1>3, <1>4, PartsJoin
<1>6. k = one + Returns(t) /\ one \in Nat /\ Returns(t) \in Nat
  BY <1>3, <1>4, <1>5 DEF Part
<1>7. /\ h.tree.kind = "return" => Returns(t) = k - 1
      /\ h.tree.kind # "return" => Returns(t) = k
  BY <1>6 DEF one
<1> QED BY <1>1, <1>2, <1>3, <1>7 DEF t, h

\* The children of a node, and of the body of a function.
LEMMA PartOfKids ==
  ASSUME NEW p \in Programs, ReturnsAtEnd(p), NEW t \in Nodes(p), NEW at
  PROVE  /\ \A n \in Range(VisitKids(t, at)) : Settled(n)
         /\ (\A j \in Range(t.kids) : j.kind # "return") => Part(VisitKids(t, at), 0)
<1> DEFINE Of(i) == Item("visit", t.kids[i], Append(at, i))
           s == VisitKids(t, at)
           m == Len(t.kids)
<1>1. t.kids \in Seq(Nodes(p)) /\ m \in Nat /\ DOMAIN t.kids = 1..m
  BY ProgramAssumption DEF IsNode
<1>2. \A i \in 1..m : t.kids[i] \in Range(t.kids)
  BY <1>1 DEF Range
<1>3. \A i \in 1..m : Settled(Of(i)) /\ Of(i).tree = t.kids[i]
  BY <1>2 DEF ReturnsAtEnd, Settled, Item
<1>4. s = [i \in 1..m |-> Of(i)]
  BY <1>1 DEF VisitKids
<1> HIDE DEF s, m, Of
<1>5. \A n \in Range(s) : Settled(n)
  BY <1>3, <1>4 DEF Range
<1>6. ASSUME \A j \in Range(t.kids) : j.kind # "return" PROVE Part(s, 0)
  <2> DEFINE A == {Of(i) : i \in 1..m}
  <2>1. s \in Seq(A)
    BY <1>1, <1>4
  <2>2. \A n \in A : Settled(n) /\ n.tree.kind # "return"
    BY <1>2, <1>3, <1>6
  <2> QED BY <2>1, <2>2, PartWithout
<1> QED BY <1>5, <1>6 DEF s

LEMMA PartOfBody ==
  ASSUME NEW p \in Programs, ReturnsAtEnd(p), NEW f \in DOMAIN p.bodies, NEW at
  PROVE  Part(VisitKids(p.bodies[f], at), IF f = "main" THEN 0 ELSE 1)
<1> DEFINE t == p.bodies[f]
           Of(i) == Item("visit", t.kids[i], Append(at, i))
           s == VisitKids(t, at)
           m == Len(t.kids)
           R == {i \in DOMAIN s : s[i].tree.kind = "return"}
<1>1. t \in Nodes(p) /\ t.kids \in Seq(Nodes(p)) /\ m \in Nat /\ DOMAIN t.kids = 1..m
  BY ProgramAssumption DEF IsNode
<1>2. \A n \in Range(s) : Settled(n)
  BY <1>1, PartOfKids
<1>3. s = [i \in 1..m |-> Of(i)] /\ \A i \in 1..m : Of(i).tree = t.kids[i]
  BY <1>1 DEF VisitKids, Item
<1>4. \A i \in 1..m : t.kids[i].kind = "return" <=> f # "main" /\ i = m
  BY <1>1 DEF ReturnsAtEnd
<1>5. f # "main" => m \in 1..m
  BY <1>1 DEF ReturnsAtEnd
<1> HIDE DEF t, Of, s, m
<1>6. s \in Seq(Range(s))
  <2>1. DOMAIN s = 1..m /\ \A i \in 1..m : s[i] \in Range(s)
    BY <1>3 DEF Range
  <2>2. s = [i \in 1..m |-> s[i]]
    BY <1>3
  <2> QED BY <1>1, <2>1, <2>2
<1>7. R = {i \in 1..m : t.kids[i].kind = "return"}
  BY <1>3
<1>8. CASE f = "main"
  <2>1. R = {}
    BY <1>4, <1>7, <1>8
  <2> QED BY <1>2, <1>6, <1>8, <2>1, FS_EmptySet DEF Part, Returns, s, t
<1>9. CASE f # "main"
  <2>1. R = {m}
    BY <1>4, <1>5, <1>7, <1>9
  <2>2. Cardinality(R) = 1
    BY <2>1, FS_Singleton
  <2> QED BY <1>2, <1>6, <1>9, <2>2 DEF Part, Returns, s, t
<1> QED BY <1>8, <1>9

\* The invariant: what is to be visited has its returns at the ends of functions.
Frames == ReturnsAtEnd(program) /\ status = "running" => Part(todo, Len(mStack) - 1)

\* A handler that keeps the number of frames and returns nothing.
LEMMA HandlerFrames ==
  ASSUME IInv, Frames, NEW do, NEW kinds, Handled(do, kinds), "return" \notin kinds,
         UNCHANGED <<program, status>>, Len(mStack') = Len(mStack)
  PROVE  Frames'
<1>1. /\ todo # <<>> /\ Head(todo).tree.kind # "return" /\ todo' = Tail(todo)
  BY DEF Handled, Handling, Top
<1>2. ASSUME ReturnsAtEnd(program), status = "running" PROVE Part(Tail(todo), Len(mStack) - 1)
  BY <1>1, <1>2, PartRest DEF Frames
<1> QED BY <1>1, <1>2 DEF Frames

\* Changing the last frame leaves as many.
LEMMA SetBackLen ==
  ASSUME IInv, NEW f, SetBack(f)
  PROVE  Len(mStack') = Len(mStack)
<1>1. mStack \in Seq(Range(mStack))
  BY DEF IInv, GoodFrames
<1> DEFINE A == Range(mStack) \cup {f}
<1>2. mStack \in Seq(A) /\ f \in A
  BY <1>1
<1> HIDE DEF A
<1>3. Len([mStack EXCEPT ![Len(mStack)] = f]) = Len(mStack)
  BY <1>2
<1> QED BY <1>3 DEF SetBack

\* Each part of what a node leaves to be done is without returns, but for its own.
LEMMA VisitFrames ==
  ASSUME IInv, Frames, VisitNode \/ VisitCondition \/ Branch \/ Test
  PROVE  Frames'
<1>1. /\ status = "running" /\ todo # <<>> /\ program \in Programs /\ GoodItem(program, Top)
      /\ UNCHANGED <<program, mStack, status>> /\ Top.do # "declare"
  BY FirstAndRest DEF IInv, Top, VisitNode, VisitCondition, Branch, Test, Handling
<1>2. /\ Top.tree \in Nodes(program) /\ IsNode(program, Top.tree)
      /\ Top.tree.kids \in Seq(Nodes(program))
  BY <1>1, ProgramAssumption DEF GoodItem, IsNode
<1> SUFFICES ASSUME ReturnsAtEnd(program) PROVE Part(todo', Len(mStack) - 1)
  BY <1>1 DEF Frames
<1> DEFINE k == Len(mStack) - 1
           tree == Top.tree
<1>3. Part(todo, k)
  BY <1>1 DEF Frames
<1>4. /\ Settled(Top)
      /\ tree.kind = "return" => Part(Tail(todo), k - 1)
      /\ tree.kind # "return" => Part(Tail(todo), k)
  BY <1>1, <1>3, PartRest DEF Top
<1>5. \A j \in Range(tree.kids) : j.kind # "return"
  BY <1>1, <1>4 DEF Settled
<1>6. \A at : Part(VisitKids(tree, at), 0)
  BY <1>1, <1>2, <1>5, PartOfKids
<1>7. ASSUME NEW i \in DOMAIN tree.kids
      PROVE  /\ \A at : Part(VisitKids(tree.kids[i], at), 0)
             /\ \A at : Part(<<Item("visit", tree.kids[i], at)>>, 0)
  <2>1. tree.kids[i] \in Range(tree.kids) /\ tree.kids[i] \in Nodes(program)
    BY <1>2, <1>7 DEF Range
  <2>2. \A j \in Range(tree.kids[i].kids) : j.kind # "return"
    BY <1>2, <2>1 DEF ReturnsAtEnd
  <2>3. \A at : Settled(Item("visit", tree.kids[i], at))
    BY <2>2 DEF Settled, Item
  <2>4. tree.kids[i].kind # "return"
    BY <1>5, <2>1
  <2>5. \A at : Part(VisitKids(tree.kids[i], at), 0)
    BY <1>1, <2>1, <2>2, PartOfKids
  <2>6. ASSUME NEW at PROVE Part(<<Item("visit", tree.kids[i], at)>>, 0)
    <3> DEFINE n == Item("visit", tree.kids[i], at)
    <3>1. Settled(n) /\ n.tree.kind # "return"
      BY <2>3, <2>4 DEF Item
    <3> HIDE DEF n
    <3>2. Part(<<n>>, 0)
      BY <3>1, PartSingle
    <3> QED BY <3>2 DEF n
  <2> QED BY <2>5, <2>6
<1>8. \A do, at : do # "declare" => Settled(Item(do, tree, at)) /\ Item(do, tree, at).tree = tree
  BY <1>5 DEF Settled, Item
<1>9. Part(<<>>, 0)
  <2> DEFINE A == {}
             none == <<>>
  <2>1. none \in Seq(A) /\ \A n \in A : Settled(n) /\ n.tree.kind # "return"
    OBVIOUS
  <2> HIDE DEF A, none
  <2>2. Part(none, 0)
    BY <2>1, PartWithout
  <2> QED BY <2>2 DEF none
<1> HIDE DEF tree
<1>10. k \in Nat /\ k + 0 = k /\ 0 + k = k /\ 0 + 0 = 0
  BY <1>3 DEF Part
<1>11. CASE VisitNode
  <2> DEFINE own == Item("apply", tree, Top.at)
             Of(i) == Item("declare", [tree EXCEPT !.vars = <<@[i]>>], Top.at)
             decls == [i \in DOMAIN tree.vars |-> Of(i)]
             handlers == CASE tree.kind \in HasHandler -> <<own>>
                           [] tree.kind = "decl" -> decls
                           [] OTHER -> <<>>
             kids == VisitKids(tree, Top.at)
  <2>1. todo' = kids \o handlers \o Tail(todo)
    BY <1>11 DEF VisitNode, tree
  <2>2. Part(kids, 0)
    BY <1>6
  <2>3. CASE tree.kind = "return"
    <3>1. handlers = <<own>>
      BY <2>3 DEF HasHandler
    <3>2. Settled(own) /\ own.tree.kind = "return"
      BY <1>8, <2>3
    <3> HIDE DEF own
    <3>3. Part(<<own>>, 1)
      BY <3>2, PartSingle
    <3>4. Part(Tail(todo), k - 1)
      BY <1>4, <2>3 DEF tree
    <3> HIDE DEF kids, handlers, k
    <3>5. Part(kids \o handlers, 0 + 1)
      BY <2>2, <3>1, <3>3, PartsJoin
    <3>6. Part((kids \o handlers) \o Tail(todo), (0 + 1) + (k - 1))
      BY <3>4, <3>5, PartsJoin
    <3>7. (0 + 1) + (k - 1) = k
      BY <1>10
    <3> QED BY <2>1, <3>6, <3>7 DEF k
  <2>4. CASE tree.kind # "return"
    <3>1. Part(handlers, 0)
      <4>1. CASE tree.kind \in HasHandler
        <5>1. handlers = <<own>>
          BY <4>1 DEF HasHandler
        <5>2. Settled(own) /\ own.tree.kind # "return"
          BY <1>8, <2>4
        <5> HIDE DEF own, handlers
        <5>3. Part(<<own>>, 0)
          BY <5>2, PartSingle
        <5> QED BY <5>1, <5>3
      <4>2. CASE tree.kind = "decl"
        <5>1. tree.vars \in Seq(Range(tree.vars)) /\ DOMAIN tree = {"kind", "op", "name", "val", "vars", "kids"}
          BY <1>2, <4>2 DEF IsNode, tree
        <5>2. \A i : Settled(Of(i)) /\ Of(i).tree.kind # "return"
          BY <4>2, <5>1 DEF Settled, Item
        <5> DEFINE n == Len(tree.vars)
                   A == {Of(i) : i \in 1..n}
        <5>3. n \in Nat /\ decls = [i \in 1..n |-> Of(i)]
          BY <5>1
        <5>4. handlers = decls
          BY <4>2 DEF HasHandler
        <5> HIDE DEF n, Of, decls, handlers
        <5>5. decls \in Seq(A) /\ \A x \in A : Settled(x) /\ x.tree.kind # "return"
          BY <5>2, <5>3
        <5> QED BY <5>4, <5>5, PartWithout
      <4>3. CASE tree.kind \notin HasHandler \cup {"decl"}
        BY <1>9, <4>3
      <4> QED BY <4>1, <4>2, <4>3
    <3>2. Part(Tail(todo), k)
      BY <1>4, <2>4 DEF tree
    <3> HIDE DEF kids, handlers, k
    <3>3. Part(kids \o handlers, 0 + 0)
      BY <2>2, <3>1, PartsJoin
    <3>4. Part((kids \o handlers) \o Tail(todo), (0 + 0) + k)
      BY <3>2, <3>3, PartsJoin
    <3> QED BY <1>10, <2>1, <3>4 DEF k
  <2> QED BY <2>3, <2>4
<1>12. CASE VisitCondition
  <2> DEFINE first == <<Item("visit", tree.kids[1], Kid(Top, 1))>>
             n == Item(IF tree.kind = "if" THEN "branch" ELSE "test", tree, Top.at)
  <2>1. tree.kind \in {"if", "while"} /\ 1 \in DOMAIN tree.kids
    BY <1>2, <1>12 DEF VisitCondition, IsNode, tree
  <2>2. Part(Tail(todo), k)
    BY <1>4, <2>1 DEF tree
  <2>3. Part(first, 0)
    BY <1>7, <2>1 DEF tree
  <2>4. Settled(n) /\ n.tree.kind # "return"
    BY <1>8, <2>1
  <2>5. todo' = <<Item("visit", tree.kids[1], Kid(Top, 1)), n>> \o Tail(todo)
    BY <1>12 DEF VisitCondition, tree
  <2>6. <<Item("visit", tree.kids[1], Kid(Top, 1)), n>> = first \o <<n>>
    <3> HIDE DEF n
    <3> QED OBVIOUS
  <2> HIDE DEF first, n, k
  <2>7. Part(<<n>>, 0)
    BY <2>4, PartSingle
  <2>8. Part(first \o <<n>>, 0 + 0)
    BY <2>3, <2>7, PartsJoin
  <2>9. Part((first \o <<n>>) \o Tail(todo), (0 + 0) + k)
    BY <2>2, <2>8, PartsJoin
  <2> QED BY <1>10, <2>5, <2>6, <2>9 DEF k
<1>13. CASE Branch
  <2>1. tree.kind = "if"
    BY <1>13 DEF Branch, Handling, tree
  <2>2. Part(Tail(todo), k)
    BY <1>4, <2>1 DEF tree
  <2>3. \E s : Part(s, 0) /\ todo' = s \o Tail(todo)
    BY <1>7, <1>9, <1>13 DEF Branch, tree
  <2> HIDE DEF k
  <2>4. Part(todo', 0 + k)
    BY <2>2, <2>3, PartsJoin
  <2> QED BY <1>10, <2>4 DEF k
<1>14. CASE Test
  <2> DEFINE first == <<Item("visit", tree.kids[1], Kid(Top, 1))>>
             again == <<Item("visit", tree.kids[1], Kid(Top, 1)), Top>>
             body == IF tree.kids[2].kind = "block" THEN VisitKids(tree.kids[2], Kid(Top, 2)) ELSE <<>>
  <2>1. tree.kind = "while"
    BY <1>14 DEF Test, Handling, tree
  <2>2. 1 \in DOMAIN tree.kids /\ 2 \in DOMAIN tree.kids
    <3>1. Len(tree.kids) = 2
      BY <1>2, <2>1 DEF IsNode, tree
    <3> QED BY <1>2, <3>1 DEF tree
  <2>3. Part(Tail(todo), k)
    BY <1>4, <2>1 DEF tree
  <2>4. Part(first, 0) /\ Part(body, 0)
    BY <1>7, <1>9, <2>2 DEF tree
  <2>5. Part(<<Top>>, 0)
    BY <1>4, <2>1, PartSingle DEF tree
  <2>6. again = first \o <<Top>>
    OBVIOUS
  <2>7. todo' = Tail(todo) \/ todo' = body \o again \o Tail(todo)
    BY <1>14 DEF Test, tree
  <2> HIDE DEF first, body, again, k
  <2>8. Part(again, 0 + 0)
    BY <2>4, <2>5, <2>6, PartsJoin
  <2>9. Part(body \o again, 0 + 0)
    BY <1>10, <2>4, <2>8, PartsJoin
  <2>10. Part((body \o again) \o Tail(todo), (0 + 0) + k)
    BY <2>3, <2>9, PartsJoin
  <2> QED BY <1>10, <2>3, <2>7, <2>10 DEF k
<1> QED BY <1>11, <1>12, <1>13, <1>14

\* A call adds a frame, and the return at the end of the function.
LEMMA CallFrames ==
  ASSUME IInv, Frames, CallFunction
  PROVE  Frames'
<1> DEFINE name == Top.tree.name
           k == Len(mStack) - 1
           body == VisitKids(program.bodies[name], <<name>>)
<1>1. /\ Handling("apply", {"call"}) /\ name \notin Builtins
      /\ UNCHANGED <<program, status>>
      /\ name \in DOMAIN program.bodies => todo' = body \o Tail(todo)
  BY DEF CallFunction
<1>2. /\ status = "running" /\ program \in Programs /\ Top.tree.kind = "call"
      /\ Top.tree \in Nodes(program)
  BY <1>1, HandledRest DEF GoodItem
<1> SUFFICES ASSUME ReturnsAtEnd(program) PROVE Part(todo', Len(mStack') - 1)
  BY <1>1 DEF Frames
<1>3. name \in DOMAIN program.bodies /\ name # "main"
  BY <1>1, <1>2 DEF ReturnsAtEnd
<1>4. Part(body, 1)
  BY <1>2, <1>3, PartOfBody
<1>5. Part(Tail(todo), k)
  <2>1. todo # <<>> /\ Head(todo).tree.kind # "return" /\ Part(todo, k)
    BY <1>1, <1>2 DEF Handling, Top, Frames
  <2> QED BY <2>1, PartRest
<1>6. Len(mStack') - 1 = 1 + k
  <2> DEFINE A == Range(mStack) \cup {Here}
             s == [mStack EXCEPT ![Len(mStack)] = Here]
  <2>1. \E f : mStack' = Append(s, f)
    BY DEF CallFunction
  <2>2. mStack \in Seq(A) /\ Here \in A
    BY DEF IInv, GoodFrames
  <2> HIDE DEF A
  <2>3. Len(s) = Len(mStack)
    BY <2>2
  <2>4. s \in Seq(A) /\ Len(mStack) \in Nat
    <3> DEFINE m == Len(mStack)
    <3>1. m \in Nat /\ mStack = [i \in 1..m |-> mStack[i]] /\ \A i \in 1..m : mStack[i] \in A
      BY <2>2
    <3> HIDE DEF m
    <3>2. s = [i \in 1..m |-> IF i = m THEN Here ELSE mStack[i]]
      BY <3>1 DEF m
    <3> HIDE DEF s
    <3>3. s \in Seq(A)
      BY <2>2, <3>1, <3>2
    <3> QED BY <3>1, <3>3 DEF m
  <2> HIDE DEF s
  <2> QED BY <2>1, <2>3, <2>4
<1> HIDE DEF body, k
<1>7. Part(body \o Tail(todo), 1 + k)
  BY <1>4, <1>5, PartsJoin
<1> QED BY <1>1, <1>3, <1>6, <1>7

\* A return is done, and its frame is gone.
LEMMA ReturnFrames ==
  ASSUME IInv, Frames, Ret
  PROVE  Frames'
<1> DEFINE k == Len(mStack) - 1
<1>1. /\ Handled("apply", {"return"}) /\ Len(mStack) > 1 /\ UNCHANGED <<program, status>>
      /\ \E f : mStack' = Append(SubSeq(mStack, 1, Len(mStack) - 2), f)
  BY DEF Ret
<1> SUFFICES ASSUME ReturnsAtEnd(program), status = "running"
             PROVE  Part(todo', Len(mStack') - 1)
  BY <1>1 DEF Frames
<1>2. todo # <<>> /\ Head(todo).tree.kind = "return" /\ todo' = Tail(todo) /\ Part(todo, k)
  BY <1>1 DEF Handled, Handling, Top, Frames
<1>3. Part(Tail(todo), k - 1)
  BY <1>2, PartRest
<1>4. Len(mStack') - 1 = k - 1
  <2>1. mStack \in Seq(Range(mStack)) /\ Len(mStack) \in Nat
    BY DEF IInv, GoodFrames
  <2> DEFINE n == Len(mStack) - 2
             one == 1
             t == SubSeq(mStack, one, n)
  <2>2. n \in Nat /\ one \in Int /\ n \in Int /\ \A i \in one..n : mStack[i] \in Range(mStack)
    BY <1>1, <2>1 DEF Range
  <2> HIDE DEF n, one
  <2>3. t \in Seq(Range(mStack)) /\ Len(t) = IF one <= n THEN n - one + 1 ELSE 0
    BY <2>2, SubSeqProperties
  <2>4. Len(t) = n
    BY <2>2, <2>3 DEF one
  <2>5. \E f : mStack' = Append(t, f)
    BY <1>1 DEF n, one
  <2> HIDE DEF t
  <2>6. Len(mStack') = n + 1
    BY <2>3, <2>4, <2>5
  <2> QED BY <2>1, <2>6 DEF n
<1> QED BY <1>2, <1>3, <1>4

\* For every program whose functions end with their only return, whatever is called
\* where and however deep, the visitor has one frame for each call that is going on,
\* and none is left of those that have returned.
THEOREM FramesFollowCalls == Spec => []OneFramePerCall
<1>1. Init => Frames
  <2> SUFFICES ASSUME Init PROVE Frames
    OBVIOUS
  <2>1. program \in Programs /\ "main" \in DOMAIN program.bodies
    BY ProgramAssumption DEF Init
  <2>2. Len(mStack) - 1 = 0
    BY DEF Init
  <2>3. ReturnsAtEnd(program) => Part(todo, 0)
    BY <2>1, PartOfBody DEF Init
  <2> QED BY <2>2, <2>3 DEF Frames
<1>2. IInv /\ Frames /\ [Next]_vars => Frames'
  <2> SUFFICES ASSUME IInv, Frames, [Next]_vars PROVE Frames'
    OBVIOUS
  <2>1. CASE Abort \/ RetFromMain
    <3>1. status' # "running"
      BY <2>1 DEF Abort, RetFromMain
    <3> QED BY <3>1 DEF Frames
  <2>2. CASE IntegerLiteral \/ Sizeof \/ Declref \/ Cast \/ Array
    <3>1. \E kind \in {"int", "sizeof", "ref", "cast", "index"} : Handled("apply", {kind})
      BY <2>2 DEF IntegerLiteral, Sizeof, Declref, Cast, Array
    <3>2. UNCHANGED <<program, status>> /\ Len(mStack') = Len(mStack)
      BY <2>2, SetBackLen DEF IntegerLiteral, Sizeof, Declref, Cast, Array
    <3> QED BY <3>1, <3>2, HandlerFrames
  <2>3. CASE Binop \/ Unaryop \/ Assign
    <3>1. \E kind \in {"binary", "unary", "assign"} : Handled("apply", {kind})
      BY <2>3 DEF Binop, Unaryop, Assign
    <3>2. UNCHANGED <<program, status>> /\ Len(mStack') = Len(mStack)
      BY <2>3, SetBackLen DEF Binop, Unaryop, Assign
    <3> QED BY <3>1, <3>2, HandlerFrames
  <2>4. CASE Decl
    <3>1. Handled("declare", {"decl"}) /\ UNCHANGED <<program, status>>
      BY <2>4 DEF Decl
    <3>2. Len(mStack') = Len(mStack)
      BY <2>4, SetBackLen DEF Decl
    <3> QED BY <3>1, <3>2, HandlerFrames
  <2>5. CASE CallInput \/ CallOutput \/ CallMalloc \/ CallFree
    <3>1. Handled("apply", {"call"}) /\ UNCHANGED <<program, status>>
      BY <2>5 DEF CallInput, CallOutput, CallMalloc, CallFree, Calling, Handled
    <3>2. Len(mStack') = Len(mStack)
      BY <2>5, SetBackLen DEF CallInput, CallOutput, CallMalloc, CallFree
    <3> QED BY <3>1, <3>2, HandlerFrames
  <2>6. CASE UNCHANGED vars
    BY <2>6 DEF vars, Frames
  <2> QED BY <2>1, <2>2, <2>3, <2>4, <2>5, <2>6, VisitFrames, CallFrames, ReturnFrames
          DEF Next, Stopped
<1>3. IInv /\ Frames => OneFramePerCall
  <2>1. IInv => Len(mStack) \in Nat
    BY DEF IInv, GoodFrames
  <2>2. ASSUME Part(todo, Len(mStack) - 1), Len(mStack) \in Nat
        PROVE  Len(mStack) = 1 + Returns(todo)
    BY <2>2 DEF Part
  <2> QED BY <2>1, <2>2 DEF Frames, OneFramePerCall
<1> QED BY <1>1, <1>2, <1>3, Invariance, PTL DEF Spec

=============================================================================
