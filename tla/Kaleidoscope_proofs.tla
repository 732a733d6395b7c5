------------------------- MODULE Kaleidoscope_proofs -------------------------
(***************************************************************************)
(* The compiler of Kaleidoscope.  The parser for every vocabulary and      *)
(* every text: its types, and that nothing is read twice or from no token. *)
(* Code generation for every set of functions: the blocks are well formed, *)
(* and a function is generated exactly if its names are visible.           *)
(***************************************************************************)
EXTENDS Parser, CodeGen, SequenceTheorems, WellFoundedInduction, TLAPS

-----------------------------------------------------------------------------
(* The token buffer.                                                       *)

PosOK == input \in Seq(STRING) /\ pos \in 1..(Len(input) + 1)

\* getNextToken goes forward, and never past the end.
LEMMA AfterMoves ==
  ASSUME PosOK
  PROVE  /\ \A n \in Nat : After(n) \in pos..(Len(input) + 1)
         /\ \A n \in Nat : CurTok # Eof /\ n > 0 => After(n) > pos
         /\ \A n \in Nat : CurTok # Eof => After(n + 1) > pos
<1>1. Len(input) \in Nat /\ DOMAIN input = 1..Len(input)
  BY DEF PosOK
<1>2. CurTok # Eof => pos <= Len(input)
  BY <1>1 DEF PosOK, CurTok, TokenAt
<1> QED BY <1>1, <1>2 DEF PosOK, After

\* Far enough ahead there is no identifier.
LEMMA IdentifiersEnd ==
  ASSUME PosOK, NEW n \in Nat
  PROVE  ~Follows(n + Len(input) + 1 + 1, Ident)
<1>1. Len(input) \in Nat /\ DOMAIN input = 1..Len(input)
  BY DEF PosOK
<1>2. After(n + Len(input) + 1 + 1) = Len(input) + 1
  BY <1>1 DEF PosOK, After
<1>3. TokenAt(Len(input) + 1) = Eof
  BY <1>1 DEF TokenAt
<1> QED BY <1>2, <1>3, TokensAssumption DEF Follows

\* The least number of a set of numbers is one of them.
LEMMA MinInSet ==
  ASSUME NEW S \in SUBSET Nat, S # {}
  PROVE  Min(S) \in S
<1>1. IsWellFoundedOn(OpToRel(<, Nat), Nat)
  BY NatLessThanWellFounded
<1>2. \E x \in S : \A y \in S : ~(<<y, x>> \in OpToRel(<, Nat))
  BY <1>1, WFMin
<1>3. PICK x \in S : \A y \in S : ~(<<y, x>> \in OpToRel(<, Nat))
  BY <1>2
<1>4. \A y \in S : ~(y < x)
  BY <1>3, Zenon DEF OpToRel
<1>5. \A y \in S : x <= y
  BY <1>4
<1> QED BY <1>5 DEF Min

\* The handlers go on behind the prototype, and an operator's precedence is valid.
ProtoOK(def, n) ==
  def.next \in Nat /\ def.next >= n /\ (def.proto # Null => def.proto.prec \in 0..100)

LEMMA ParametersOK ==
  ASSUME PosOK, NEW kind, NEW name, NEW prec \in 0..100, NEW n \in Nat
  PROVE  ProtoOK(Parameters(kind, name, prec, n), n)
<1> DEFINE ends == {k \in n..(n + Len(input) + 1) : ~Follows(k + 1, Ident)}
<1>1. Len(input) \in Nat
  BY DEF PosOK
<1>2. n + Len(input) + 1 \in ends
  BY <1>1, IdentifiersEnd
<1>3. Min(ends) \in ends
  <2> HIDE DEF ends
  <2>1. ends \in SUBSET Nat
    BY <1>1 DEF ends
  <2> QED BY <1>2, <2>1, MinInSet
<1>4. Min(ends) \in Nat /\ Min(ends) >= n
  <2>1. \A k \in ends : k \in Nat /\ k >= n
    BY <1>1
  <2> HIDE DEF ends
  <2> QED BY <1>3, <2>1
<1> DEFINE last == Min(ends)
<1>5. \/ Parameters(kind, name, prec, n) = NoProto(n)
      \/ Parameters(kind, name, prec, n) = NoProto(last + 1)
      \/ Parameters(kind, name, prec, n) = NoProto(last + 2)
      \/ /\ Parameters(kind, name, prec, n).proto.prec = prec
         /\ Parameters(kind, name, prec, n).next = last + 2
  BY DEF Parameters
<1> HIDE DEF last, ends
<1> QED BY <1>4, <1>5 DEF ProtoOK, NoProto, last

LEMMA PrototypeOK ==
  ASSUME PosOK, NEW n \in Nat
  PROVE  ProtoOK(ParsePrototype(n), n)
<1> DEFINE third == TokenAt(After(n + 2))
           op == TokenAt(After(n + 1))
<1>1. \A kind, name : \A prec \in 0..100 : \A k \in {n + 1, n + 2, n + 3} :
        ProtoOK(Parameters(kind, name, prec, k), n)
  <2> SUFFICES ASSUME NEW kind, NEW name, NEW prec \in 0..100, NEW k \in {n + 1, n + 2, n + 3}
               PROVE  ProtoOK(Parameters(kind, name, prec, k), n)
    OBVIOUS
  <2>1. k \in Nat
    OBVIOUS
  <2>2. ProtoOK(Parameters(kind, name, prec, k), k)
    BY <2>1, ParametersOK, Zenon
  <2> QED BY <2>2 DEF ProtoOK
<1>2. \A k \in {n, n + 1, n + 2} : ProtoOK(NoProto(k), n)
  BY DEF ProtoOK, NoProto
<1>3. ValidPrecedence(third) => ValueIn[third] \in 0..100
  BY DEF ValidPrecedence
<1>4. \/ ParsePrototype(n) = NoProto(n) \/ ParsePrototype(n) = NoProto(n + 1)
      \/ ParsePrototype(n) = NoProto(n + 2)
      \/ \E kind, name, k : k \in {n + 1, n + 2} /\ ParsePrototype(n) = Parameters(kind, name, 0, k)
      \/ ParsePrototype(n) = Parameters(2, op, 30, n + 2)
      \/ ValidPrecedence(third) /\ ParsePrototype(n) = Parameters(2, op, ValueIn[third], n + 3)
  BY DEF ParsePrototype
<1> HIDE DEF third, op
<1> QED BY <1>1, <1>2, <1>3, <1>4

-----------------------------------------------------------------------------
(* The inductive invariant.                                                *)

Handlers == {"define", "evaluate"}

\* The places of an activation that may not have read a token yet.
Fresh == {"expression", "unary", "primary", "lhs"}

Frames == \E S : stack \in Seq(S)

\* A handler starts where it stands or before, and a function that returns to it
\* has read a token: only functions that are starting stand where it started.
Started ==
  stack # <<>> =>
    /\ stack[1].prec \in 1..pos
    /\ stack[1].at = "define" => stack[1].prec < pos /\ stack[1].node.prec \in 0..100
    /\ stack[1].at = "evaluate" /\ stack[1].prec = pos =>
         /\ ret \in {Nothing, Null}
         /\ \A i \in DOMAIN stack : i > 1 => stack[i].at \in Fresh

\* What was read lies before what is being read.
ReadBefore ==
  /\ \E R : read \in Seq(R)
  /\ Consecutive
  /\ read # <<>> /\ stack # <<>> => read[Len(read)].to <= stack[1].prec
  /\ \A i \in DOMAIN read : read[i].from \in Nat /\ read[i].to \in Nat

Inv == TypeOK /\ Frames /\ Started /\ ReadBefore

LEMMA InvPos ==
  ASSUME Inv
  PROVE  PosOK
BY DEF Inv, TypeOK, PosOK

\* Front and Last of a sequence that is not empty.
LEMMA FrontLast ==
  ASSUME NEW S, NEW s \in Seq(S), s # <<>>
  PROVE  /\ Len(s) \in Nat \ {0} /\ DOMAIN s = 1..Len(s)
         /\ Last(s) = s[Len(s)]
         /\ Front(s) \in Seq(S) /\ Len(Front(s)) = Len(s) - 1
         /\ \A i \in 1..(Len(s) - 1) : Front(s)[i] = s[i]
<1>1. Len(s) \in Nat \ {0} /\ DOMAIN s = 1..Len(s)
  BY LenProperties, EmptySeq
<1>2. Last(s) = s[Len(s)]
  BY DEF Last
<1>3. /\ SubSeq(s, 1, Len(s) - 1) \in Seq(S)
      /\ Len(SubSeq(s, 1, Len(s) - 1)) = Len(s) - 1
      /\ \A i \in 1..(Len(s) - 1) : SubSeq(s, 1, Len(s) - 1)[i] = s[i]
  BY <1>1
<1> QED BY <1>1, <1>2, <1>3 DEF Front

\* A stack with k more frames and the same ones below the top.
Below(s, k) ==
  /\ \E S : s \in Seq(S)
  /\ Len(s) = Len(stack) + k
  /\ \A i \in 1..(Len(stack) - 1) : s[i] = stack[i]

\* The stack after a return, with another frame on top, and after a call.
LEMMA StackAfter ==
  ASSUME Frames, Len(stack) > 1, stack # <<>>, NEW f, NEW g
  PROVE  /\ Len(stack) \in Nat /\ DOMAIN stack = 1..Len(stack)
         /\ Below(Front(stack), -1)
         /\ Below(Append(Front(stack), f), 0)
         /\ Append(Front(stack), f)[Len(stack)] = f
         /\ Below(Append(Append(Front(stack), f), g), 1)
         /\ Append(Append(Front(stack), f), g)[Len(stack)] = f
         /\ Append(Append(Front(stack), f), g)[Len(stack) + 1] = g
<1>1. PICK S : stack \in Seq(S)
  BY DEF Frames
<1> DEFINE T == S \cup {f, g}
           n == Len(stack)
           r == Front(stack)
           b == Append(r, f)
           c == Append(b, g)
<1>2. stack \in Seq(T)
  BY <1>1, SeqMonotonic
<1>3. /\ n \in Nat \ {0} /\ DOMAIN stack = 1..n
      /\ r \in Seq(T) /\ Len(r) = n - 1
      /\ \A i \in 1..(n - 1) : r[i] = stack[i]
  BY <1>2, FrontLast
<1> HIDE DEF r
<1>a. f \in T /\ g \in T /\ n \in Nat
  BY <1>3
<1> HIDE DEF T, n
<1>4. /\ b \in Seq(T) /\ Len(b) = n
      /\ \A i \in 1..(n - 1) : b[i] = r[i]
      /\ b[n] = f
  <2>1. /\ b \in Seq(T) /\ Len(b) = Len(r) + 1
        /\ \A i \in 1..Len(r) : b[i] = r[i]
        /\ b[Len(r) + 1] = f
    BY <1>3, <1>a, AppendProperties
  <2>2. Len(r) = n - 1 /\ Len(r) + 1 = n
    BY <1>3
  <2> QED BY <2>1, <2>2
<1> HIDE DEF b
<1>5. /\ c \in Seq(T) /\ Len(c) = n + 1
      /\ \A i \in 1..n : c[i] = b[i]
      /\ c[n + 1] = g
  BY <1>4, <1>a, AppendProperties
<1> HIDE DEF c
<1>6. \A i \in 1..(n - 1) : b[i] = stack[i] /\ c[i] = stack[i] /\ r[i] = stack[i]
  BY <1>3, <1>4, <1>5
<1>7. c[n] = f
  BY <1>3, <1>4, <1>5
<1>8. Below(r, -1) /\ Below(b, 0) /\ Below(c, 1)
  <2>1. Len(r) = n + -1 /\ Len(b) = n + 0 /\ Len(c) = n + 1
    BY <1>3, <1>4, <1>5
  <2>2. r \in Seq(T) /\ b \in Seq(T) /\ c \in Seq(T)
    BY <1>3, <1>4, <1>5
  <2> QED BY <1>6, <2>1, <2>2 DEF Below, n
<1> QED BY <1>3, <1>4, <1>5, <1>7, <1>8 DEF r, b, c, n

-----------------------------------------------------------------------------
(* The steps of the parse functions.                                       *)

FrameOK(f) == f.at \notin Handlers /\ f.prec \in Nat

\* The function on top has read a token, now or before.
Consumed == pos' > pos \/ Last(stack).at \notin Fresh \/ ret \notin {Nothing, Null}

\* A step of a parse function: a return, the next place, or a call.
Moves ==
  /\ Unchanged /\ Len(stack) > 1
  /\ pos' \in pos..(Len(input) + 1)
  /\ \/ stack' = Front(stack) /\ (Consumed \/ ret' \in {Nothing, Null})
     \/ \E f : /\ stack' = Append(Front(stack), f) /\ ret' = Nothing
               /\ FrameOK(f) /\ (Consumed \/ f.at \in Fresh)
     \/ \E f, g : /\ stack' = Append(Append(Front(stack), f), g) /\ ret' = Nothing
                  /\ FrameOK(f) /\ FrameOK(g)
                  /\ Consumed \/ (f.at \in Fresh /\ g.at \in Fresh)

\* A function on top that is no handler has its handler below.
LEMMA Deep ==
  ASSUME Inv, stack # <<>>, Last(stack).at \notin Handlers
  PROVE  Len(stack) > 1
<1>1. PICK S : stack \in Seq(S)
  BY DEF Inv, Frames
<1>2. Len(stack) \in Nat \ {0} /\ DOMAIN stack = 1..Len(stack) /\ Last(stack) = stack[Len(stack)]
  BY <1>1, FrontLast
<1>3. stack[1].at \in Handlers
  BY <1>2 DEF Inv, TypeOK, Handlers
<1> QED BY <1>2, <1>3

LEMMA MovesKeep ==
  ASSUME Inv, Moves
  PROVE  Inv'
<1> DEFINE n == Len(stack)
           m == Len(stack')
<1>0. /\ Frames /\ Len(stack) > 1 /\ stack # <<>>
      /\ input \in Seq(STRING) /\ pos \in 1..(Len(input) + 1)
      /\ Len(input) \in Nat
  <2>1. Frames /\ Len(stack) > 1 /\ TypeOK
    BY DEF Inv, Moves
  <2>2. stack # <<>>
    BY <2>1
  <2> QED BY <2>1, <2>2 DEF TypeOK
\* The frames below the top stay, those above are new.
<1>1. /\ \E S : stack' \in Seq(S)
      /\ n \in Nat /\ n > 1 /\ DOMAIN stack = 1..n
      /\ m \in (n - 1)..(n + 1) /\ DOMAIN stack' = 1..m
      /\ \A i \in 1..(n - 1) : stack'[i] = stack[i]
      /\ \A i \in n..m : FrameOK(stack'[i]) /\ (Consumed \/ stack'[i].at \in Fresh)
      /\ Consumed \/ ret' \in {Nothing, Null}
  <2>0. n \in Nat /\ n > 1 /\ DOMAIN stack = 1..n
    BY <1>0, StackAfter
  <2>1. CASE stack' = Front(stack) /\ (Consumed \/ ret' \in {Nothing, Null})
    <3>a. Below(stack', -1)
      BY <1>0, <2>1, StackAfter, Zenon
    <3>1. /\ \E S : stack' \in Seq(S)
          /\ m = n - 1 /\ \A i \in 1..(n - 1) : stack'[i] = stack[i]
      BY <2>0, <3>a DEF Below
    <3>2. DOMAIN stack' = 1..m
      BY <3>1, LenProperties
    <3> QED BY <2>0, <2>1, <3>1, <3>2
  <2>2. ASSUME NEW f, stack' = Append(Front(stack), f), ret' = Nothing,
               FrameOK(f), Consumed \/ f.at \in Fresh
        PROVE  <1>1!:
    <3>a. Below(stack', 0) /\ stack'[n] = f
      BY <1>0, <2>2, StackAfter, Zenon
    <3>1. /\ \E S : stack' \in Seq(S)
          /\ m = n /\ stack'[n] = f /\ \A i \in 1..(n - 1) : stack'[i] = stack[i]
      BY <2>0, <3>a DEF Below
    <3>2. DOMAIN stack' = 1..m
      BY <3>1, LenProperties
    <3> HIDE DEF n, m
    <3>3. \A i \in n..m : stack'[i] = f
      BY <2>0, <3>1
    <3> QED BY <2>0, <2>2, <3>1, <3>2, <3>3
  <2>3. ASSUME NEW f, NEW g, stack' = Append(Append(Front(stack), f), g), ret' = Nothing,
               FrameOK(f), FrameOK(g), Consumed \/ (f.at \in Fresh /\ g.at \in Fresh)
        PROVE  <1>1!:
    <3>a. Below(stack', 1) /\ stack'[n] = f /\ stack'[n + 1] = g
      BY <1>0, <2>3, StackAfter, Zenon
    <3>1. /\ \E S : stack' \in Seq(S)
          /\ m = n + 1 /\ stack'[n] = f /\ stack'[n + 1] = g
          /\ \A i \in 1..(n - 1) : stack'[i] = stack[i]
      BY <2>0, <3>a DEF Below
    <3>2. DOMAIN stack' = 1..m
      BY <3>1, LenProperties
    <3> HIDE DEF n, m
    <3>3. \A i \in n..m : stack'[i] = f \/ stack'[i] = g
      <4>1. \A i \in n..m : i = n \/ i = n + 1
        BY <2>0, <3>1
      <4> QED BY <3>1, <4>1
    <3> QED BY <2>0, <2>3, <3>1, <3>2, <3>3
  <2> QED BY <2>1, <2>2, <2>3 DEF Moves
<1> HIDE DEF n, m
<1>2. /\ input' = input /\ BinopPrecedence' = BinopPrecedence /\ read' = read /\ pc' = pc
      /\ pos' \in pos..(Len(input) + 1) /\ pos' \in 1..(Len(input') + 1) /\ pos' \in Nat
      /\ pos \in Nat /\ pos' >= pos
  BY <1>0 DEF Moves, Unchanged
<1>3. stack' # <<>> /\ stack'[1] = stack[1]
  BY <1>1
<1>4. TypeOK'
  <2>1. \A i \in DOMAIN stack' :
          /\ stack'[i].at \in {"define", "evaluate"} <=> i = 1
          /\ stack'[i].prec \in Nat
    <3> SUFFICES ASSUME NEW i \in 1..m
                 PROVE  /\ stack'[i].at \in {"define", "evaluate"} <=> i = 1
                        /\ stack'[i].prec \in Nat
      BY <1>1
    <3>1. CASE i \in 1..(n - 1)
      <4>1. i \in 1..n /\ stack'[i] = stack[i]
        BY <1>1, <3>1
      <4>2. /\ stack[i].at \in {"define", "evaluate"} <=> i = 1
            /\ stack[i].prec \in Nat
        BY <1>1, <4>1 DEF Inv, TypeOK
      <4> QED BY <4>1, <4>2
    <3>2. CASE i \in n..m
      BY <1>1, <3>2 DEF FrameOK, Handlers
    <3> QED BY <1>1, <3>1, <3>2
  <2> QED BY <1>2, <1>3, <2>1 DEF Inv, TypeOK
<1>5. Frames'
  BY <1>1 DEF Frames
<1>6. Started'
  <2>1. stack'[1].prec \in 1..pos' /\ stack[1].prec \in 1..pos
    BY <1>0, <1>2, <1>3 DEF Inv, Started
  <2>2. stack'[1].at = "define" => stack'[1].prec < pos' /\ stack'[1].node.prec \in 0..100
    BY <1>0, <1>2, <1>3, <2>1 DEF Inv, Started
  <2>3. ASSUME stack[1].at = "evaluate", stack[1].prec = pos'
        PROVE  /\ ret' \in {Nothing, Null}
               /\ \A i \in DOMAIN stack' : i > 1 => stack'[i].at \in Fresh
    <3>1. pos' = pos
      BY <1>2, <2>1, <2>3
    <3>2. ret \in {Nothing, Null} /\ \A i \in 1..n : i > 1 => stack[i].at \in Fresh
      BY <1>0, <1>1, <2>3, <3>1 DEF Inv, Started
    <3>3. Last(stack) = stack[n]
      BY DEF Last, n
    <3>4. ~Consumed
      BY <1>1, <1>2, <3>1, <3>2, <3>3 DEF Consumed
    <3> QED BY <1>1, <3>2, <3>4
  <2> QED BY <1>3, <2>1, <2>2, <2>3 DEF Started
<1>7. ReadBefore'
  BY <1>0, <1>2, <1>3 DEF Inv, ReadBefore, Consecutive
<1> QED BY <1>4, <1>5, <1>6, <1>7 DEF Inv

-----------------------------------------------------------------------------
(* The parse functions, one by one.                                        *)

Under ==
  /\ Inv /\ Unchanged /\ stack # <<>> /\ Last(stack).at \notin Handlers
  /\ pos' \in pos..(Len(input) + 1)

LEMMA ReturnMoves ==
  ASSUME Under, NEW v, Return(v), Consumed \/ v \in {Nothing, Null}
  PROVE  Moves
BY Deep DEF Under, Return, Moves

LEMMA BecomeMoves ==
  ASSUME Under, NEW f, Become(f), FrameOK(f), Consumed \/ f.at \in Fresh
  PROVE  Moves
BY Deep DEF Under, Become, Moves

LEMMA CallMoves ==
  ASSUME Under, NEW f, NEW callee \in {"expression", "unary"}, Call(callee, f),
         FrameOK(f), Consumed \/ f.at \in Fresh
  PROVE  Moves
<1>1. FrameOK(Frame(callee, Absent, 0)) /\ Frame(callee, Absent, 0).at \in Fresh
  BY DEF FrameOK, Frame, Handlers, Fresh
<1>2. /\ stack' = Append(Append(Front(stack), f), Frame(callee, Absent, 0))
      /\ ret' = Nothing
  BY DEF Call
<1> QED BY <1>1, <1>2, Deep DEF Under, Moves

\* The next token is there, or another one that an error leaves.
LEMMA UnderAfter ==
  ASSUME Inv, Unchanged, stack # <<>>, Last(stack).at \notin Handlers,
         pos' = pos \/ \E n \in Nat : pos' = After(n)
  PROVE  Under
<1>1. PosOK
  BY InvPos
<1>2. pos \in pos..(Len(input) + 1)
  BY <1>1 DEF PosOK
<1> QED BY <1>1, <1>2, AfterMoves DEF Under

\* Functions that start at a token and read it.
LEMMA ReadsToken ==
  ASSUME Inv, CurTok # Eof, NEW n \in Nat, n > 0, pos' = After(n)
  PROVE  Consumed
BY InvPos, AfterMoves DEF Consumed

LEMMA PrimaryMoves ==
  ASSUME Inv,
         \/ ParseNumberExpr \/ ParseParenExpr \/ ParseIdentifierExpr \/ ParseIfExpr
         \/ ParseForExpr \/ ParseVarExpr \/ RefuseToken
  PROVE  Moves
<1>0. stack # <<>> /\ Last(stack).at \notin Handlers /\ Unchanged
  BY DEF ParseNumberExpr, ParseParenExpr, ParseIdentifierExpr, ParseIfExpr, ParseForExpr,
         ParseVarExpr, RefuseToken, Calling, Handlers
<1>1. ASSUME ~RefuseToken PROVE Under /\ Consumed
  <2>1. CurTok \in Ident \cup Number \cup {"(", "if", "for", "var"}
    BY <1>1 DEF ParseNumberExpr, ParseParenExpr, ParseIdentifierExpr, ParseIfExpr,
                ParseForExpr, ParseVarExpr
  <2>2. CurTok # Eof
    BY <2>1, TokensAssumption
  <2>3. \/ pos' = After(1) \/ pos' = After(2) \/ pos' = After(3) \/ pos' = After(2 + 1)
    BY <1>1 DEF ParseNumberExpr, ParseParenExpr, ParseIdentifierExpr, ParseIfExpr,
                ParseForExpr, ParseVarExpr, Expect
  <2>4. \E n \in Nat : n > 0 /\ pos' = After(n)
    <3>1. /\ 1 \in Nat /\ 2 \in Nat /\ 3 \in Nat /\ 2 + 1 \in Nat
          /\ 1 > 0 /\ 2 > 0 /\ 3 > 0 /\ 2 + 1 > 0
      OBVIOUS
    <3> QED BY <2>3, <3>1, Zenon
  <2> QED BY <1>0, <2>2, <2>4, UnderAfter, ReadsToken
<1>2. \A place \in {"paren", "args", "cond", "start", "name"} : \A node : FrameOK(Frame(place, node, 0))
  BY DEF FrameOK, Frame, Handlers
<1>3. ASSUME ~RefuseToken
      PROVE  \/ \E v : Return(v)
             \/ \E place \in {"paren", "args", "cond", "start", "name"} : \E node :
                  Call("expression", Frame(place, node, 0)) \/ Become(Frame(place, node, 0))
  BY <1>3 DEF ParseNumberExpr, ParseParenExpr, ParseIdentifierExpr, ParseIfExpr,
              ParseForExpr, ParseVarExpr, Expect
<1>4. CASE RefuseToken
  <2>1. Under
    BY <1>0, <1>4, UnderAfter DEF RefuseToken
  <2> QED BY <1>4, <2>1, ReturnMoves DEF RefuseToken
<1> QED BY <1>1, <1>2, <1>3, <1>4, ReturnMoves, BecomeMoves, CallMoves

\* Functions that go on with a value.
LEMMA PartsMove ==
  ASSUME Inv,
         \/ CloseParen \/ ReadArgument \/ ReadCond \/ ReadThen \/ ReadElse
         \/ ReadStart \/ ReadEnd \/ ReadStep \/ ReadBody \/ ReadName \/ ReadInit
  PROVE  Moves
<1>0. /\ stack # <<>> /\ Last(stack).at \notin Handlers /\ Unchanged
      /\ ret \notin {Nothing, Null} \/ Last(stack).at \notin Fresh
  BY DEF CloseParen, ReadArgument, ReadCond, ReadThen, ReadElse, ReadStart, ReadEnd, ReadStep,
         ReadBody, ReadName, ReadInit, Part, LastPart, Returned, Calling, Handlers, Fresh
<1>1. Consumed
  BY <1>0 DEF Consumed
<1>2. \A place \in {"args", "then", "else", "end", "step", "body", "name", "init"} : \A node :
        FrameOK(Frame(place, node, 0))
  BY DEF FrameOK, Frame, Handlers
<1>3. \/ \E v : Return(v)
      \/ \E place \in {"args", "then", "else", "end", "step", "body", "name", "init"} : \E node :
           Call("expression", Frame(place, node, 0)) \/ Become(Frame(place, node, 0))
  BY DEF CloseParen, ReadArgument, ReadCond, ReadThen, ReadElse, ReadStart, ReadEnd, ReadStep,
         ReadBody, ReadName, ReadInit, Part, LastPart, NextName, Expect
<1>4. pos' = pos \/ \E n \in Nat : pos' = After(n)
  <2>1. pos' = pos \/ pos' = After(0) \/ pos' = After(0 + 1) \/ pos' = After(1)
          \/ pos' = After(1 + 1) \/ pos' = After(2)
    BY DEF CloseParen, ReadArgument, ReadCond, ReadThen, ReadElse, ReadStart, ReadEnd,
           ReadStep, ReadBody, ReadName, ReadInit, Part, LastPart, NextName, Expect
  <2>2. 0 \in Nat /\ 0 + 1 \in Nat /\ 1 \in Nat /\ 1 + 1 \in Nat /\ 2 \in Nat
    OBVIOUS
  <2> QED BY <2>1, <2>2, Zenon
<1>5. Under
  BY <1>0, <1>4, UnderAfter
<1> QED BY <1>1, <1>2, <1>3, <1>5, ReturnMoves, BecomeMoves, CallMoves

\* Operators and their operands.
LEMMA OperatorsMove ==
  ASSUME Inv, Operators
  PROVE  Moves
<1>1. /\ stack # <<>> /\ Unchanged
      /\ Last(stack).at \notin Handlers
  <2>1. CASE ReturnNull
    <3>1. PICK S : stack \in Seq(S)
      BY DEF Inv, Frames
    <3>2. stack # <<>>
      BY <2>1 DEF ReturnNull
    <3>3. /\ DOMAIN stack = 1..Len(stack) /\ Last(stack) = stack[Len(stack)]
          /\ Len(stack) \in Nat
      BY <3>1, <3>2, FrontLast
    <3>4. Len(stack) \in DOMAIN stack /\ Len(stack) # 1
      BY <2>1, <3>3 DEF ReturnNull
    <3>5. Last(stack).at \notin Handlers
      BY <3>3, <3>4 DEF Inv, TypeOK, Handlers
    <3> QED BY <2>1, <3>2, <3>5 DEF ReturnNull
  <2>2. CASE ~ReturnNull
    BY <2>2 DEF Operators, ParseUnary, ReadUnaryOperand, ParseExpression, ReadLHS,
                ParseBinOpRHS, ReadRHS, MergeRHS, LastPart, Returned, Calling, Handlers
  <2> QED BY <2>1, <2>2
<1>2. Last(stack).prec \in Nat
  <2>1. PICK S : stack \in Seq(S)
    BY DEF Inv, Frames
  <2>2. /\ Len(stack) \in Nat \ {0} /\ DOMAIN stack = 1..Len(stack)
        /\ Last(stack) = stack[Len(stack)]
    BY <1>1, <2>1, FrontLast, Zenon
  <2>3. Len(stack) \in DOMAIN stack
    BY <2>2
  <2> QED BY <2>2, <2>3 DEF Inv, TypeOK
<1>3. \A place \in Fresh \cup {"operand", "rhs", "right", "merge"} : \A node : \A prec \in Nat :
        FrameOK(Frame(place, node, prec))
  BY DEF FrameOK, Frame, Handlers, Fresh
<1>4. pos' = pos \/ \E n \in Nat : pos' = After(n)
  <2>1. pos' = pos \/ pos' = After(1)
    BY DEF Operators, ParseUnary, ReadUnaryOperand, ParseExpression, ReadLHS,
           ParseBinOpRHS, ReadRHS, MergeRHS, ReturnNull, LastPart
  <2> QED BY <2>1
<1>5. Under
  BY <1>1, <1>4, UnderAfter
<1>6. ASSUME ret \notin {Nothing, Null} \/ Last(stack).at \notin Fresh PROVE Consumed
  BY <1>6 DEF Consumed
<1>7. CASE ParseUnary
  <2>1. CASE CurTok \in Char \ {"(", ","}
    <3>1. CurTok # Eof
      BY <2>1, TokensAssumption
    <3>2. pos' = After(1)
      BY <1>7, <2>1 DEF ParseUnary
    <3>3. Consumed
      BY <3>1, <3>2, ReadsToken
    <3> DEFINE f == Frame("operand", Node("unary", CurTok, <<>>), 0)
    <3>4. Call("unary", f)
      BY <1>7, <2>1 DEF ParseUnary
    <3>5. FrameOK(f)
      BY <1>3
    <3> HIDE DEF f
    <3> QED BY <1>5, <3>3, <3>4, <3>5, CallMoves
  <2>2. CASE CurTok \notin Char \ {"(", ","}
    <3> DEFINE f == Frame("primary", Absent, 0)
    <3>1. Become(f)
      BY <1>7, <2>2 DEF ParseUnary
    <3>2. FrameOK(f) /\ f.at \in Fresh
      BY DEF FrameOK, Frame, Handlers, Fresh
    <3> HIDE DEF f
    <3> QED BY <1>5, <3>1, <3>2, BecomeMoves
  <2> QED BY <2>1, <2>2
<1>8. CASE ParseExpression
  <2> DEFINE f == Frame("lhs", Absent, 0)
  <2>1. Call("unary", f)
    BY <1>8 DEF ParseExpression
  <2>2. FrameOK(f) /\ f.at \in Fresh
    BY DEF FrameOK, Frame, Handlers, Fresh
  <2> HIDE DEF f
  <2> QED BY <1>5, <2>1, <2>2, CallMoves
<1>9. CASE ReturnNull
  BY <1>5, <1>9, ReturnMoves DEF ReturnNull
<1>10. CASE ReadUnaryOperand
  BY <1>5, <1>6, <1>10, ReturnMoves DEF ReadUnaryOperand, LastPart, Returned
<1>11. CASE ReadLHS \/ MergeRHS
  <2>1. \E node : \E prec \in Nat : Become(Frame("rhs", node, prec))
    BY <1>2, <1>11 DEF ReadLHS, MergeRHS
  <2>2. Consumed
    BY <1>6, <1>11 DEF ReadLHS, MergeRHS, Returned
  <2> QED BY <1>3, <1>5, <2>1, <2>2, BecomeMoves
<1>12. CASE ParseBinOpRHS
  <2>1. Consumed
    BY <1>6, <1>12 DEF ParseBinOpRHS, Calling, Fresh
  <2>2. \/ \E v : Return(v)
        \/ \E node : Call("unary", Frame("right", node, Last(stack).prec))
    BY <1>12 DEF ParseBinOpRHS
  <2>3. CASE \E v : Return(v)
    BY <1>5, <2>1, <2>3, ReturnMoves
  <2>4. ASSUME NEW node, Call("unary", Frame("right", node, Last(stack).prec)) PROVE Moves
    <3>1. FrameOK(Frame("right", node, Last(stack).prec))
      BY <1>2, <1>3
    <3> QED BY <1>5, <2>1, <2>4, <3>1, CallMoves
  <2> QED BY <2>2, <2>3, <2>4
<1>13. CASE ReadRHS
  <2>1. Consumed
    BY <1>6, <1>13 DEF ReadRHS, Returned
  <2> DEFINE node == Last(stack).node
             prec == Last(stack).prec
             f == Frame("merge", node, prec)
             g == Frame("rhs", ret, RightPrecedence(node.name))
  <2>2. RightPrecedence(node.name) \in Nat
    <3> HIDE DEF node
    <3>1. node.name \in Char => BinopPrecedence[node.name] \in 0..100
      BY DEF Inv, TypeOK
    <3>2. GetTokPrecedence(node.name) \in (0..100) \cup {-1}
      BY <3>1 DEF GetTokPrecedence
    <3> QED BY <3>2 DEF RightPrecedence
  <2>3. FrameOK(f) /\ FrameOK(g)
    BY <1>2, <1>3, <2>2
  <2>4. \/ stack' = Append(Append(Front(stack), f), g) /\ ret' = Nothing
        \/ Become(Frame("rhs", With(node, ret), prec))
    BY <1>13 DEF ReadRHS
  <2>5. CASE Become(Frame("rhs", With(node, ret), prec))
    BY <1>2, <1>3, <1>5, <2>1, <2>5, BecomeMoves
  <2>6. CASE stack' = Append(Append(Front(stack), f), g) /\ ret' = Nothing
    <3> HIDE DEF f, g
    <3> QED BY <1>1, <1>5, <2>1, <2>3, <2>6, Deep DEF Under, Moves
  <2> QED BY <2>4, <2>5, <2>6
<1> QED BY <1>7, <1>8, <1>9, <1>10, <1>11, <1>12, <1>13 DEF Operators

-----------------------------------------------------------------------------
(* The main loop and its handlers.                                         *)

\* The main loop goes on behind where it was, with or without a handler waiting.
Later == PosOK /\ input' = input /\ pos' \in pos..(Len(input) + 1)

LEMMA LaterAfter ==
  ASSUME PosOK, input' = input, pos' = pos \/ \E n \in Nat : pos' = After(n)
  PROVE  Later
<1>1. pos \in pos..(Len(input) + 1)
  BY DEF PosOK
<1> QED BY <1>1, AfterMoves DEF Later

LEMMA LaterReads ==
  ASSUME ReadBefore, Later, read' = read, stack' = <<>>
  PROVE  ReadBefore'
<1>1. \A i \in DOMAIN read : read[i].to <= pos'
  BY DEF ReadBefore, Consecutive, Later, PosOK
<1> QED BY <1>1 DEF ReadBefore, Consecutive

LEMMA LastRead ==
  ASSUME ReadBefore
  PROVE  /\ Len(read) \in Nat /\ DOMAIN read = 1..Len(read)
         /\ read # <<>> => Len(read) > 0 /\ read[Len(read)].to <= pos
<1>1. PICK R : read \in Seq(R)
  BY DEF ReadBefore
<1>2. Len(read) \in Nat /\ DOMAIN read = 1..Len(read)
  BY <1>1
<1>3. ASSUME read # <<>> PROVE Len(read) > 0
  BY <1>1, <1>2, <1>3, EmptySeq
<1>4. ASSUME read # <<>> PROVE Len(read) \in DOMAIN read
  BY <1>2, <1>3, <1>4
<1> QED BY <1>2, <1>3, <1>4 DEF ReadBefore, Consecutive

\* Another item behind what was read.
LEMMA ItemRead ==
  ASSUME ReadBefore, Later, NEW item, read' = Append(read, item), stack' = <<>>,
         item.from \in Nat, item.to \in Nat, item.from < item.to, item.to <= pos',
         read # <<>> => read[Len(read)].to <= item.from
  PROVE  ReadBefore'
<1>1. PICK R : read \in Seq(R)
  BY DEF ReadBefore
<1> DEFINE T == R \cup {item}
           n == Len(read)
<1>2. read \in Seq(T) /\ item \in T /\ n \in Nat /\ DOMAIN read = 1..n
  BY <1>1, SeqMonotonic
<1>3. read # <<>> => n > 0
  BY <1>1, EmptySeq
<1> HIDE DEF T
<1>4. /\ read' \in Seq(T) /\ Len(read') = n + 1
      /\ \A i \in 1..n : read'[i] = read[i]
      /\ read'[n + 1] = item
  BY <1>2, AppendProperties
<1>5. DOMAIN read' = 1..(n + 1)
  BY <1>4, LenProperties
<1>6. n > 0 => read # <<>>
  BY <1>2
<1>7. \A i \in 1..n : /\ read[i].from \in Nat /\ read[i].to \in Nat
                      /\ read[i].from < read[i].to /\ read[i].to <= pos
                      /\ i > 1 => read[i - 1].to <= read[i].from
  BY <1>2 DEF ReadBefore, Consecutive
<1>8. n > 0 => read[n].to <= item.from
  BY <1>6
<1> HIDE DEF n
<1>9. ASSUME NEW i \in 1..(n + 1)
      PROVE  /\ read'[i].from \in Nat /\ read'[i].to \in Nat
             /\ read'[i].from < read'[i].to /\ read'[i].to <= pos'
             /\ i > 1 => read'[i - 1].to <= read'[i].from
  <2>1. CASE i \in 1..n
    <3>1. read'[i] = read[i]
      BY <1>4, <2>1
    <3>2. i > 1 => read'[i - 1] = read[i - 1]
      BY <1>2, <1>4, <2>1
    <3>3. pos \in Nat /\ pos' \in Nat /\ pos <= pos'
      BY DEF Later, PosOK
    <3>4. read[i].to \in Nat /\ read[i].to <= pos
      BY <1>7, <2>1
    <3>5. read[i].to <= pos'
      BY <3>3, <3>4
    <3> QED BY <1>7, <2>1, <3>1, <3>2, <3>5, Zenon
  <2>2. CASE i = n + 1
    <3>1. read'[i] = item
      BY <1>4, <2>2
    <3>2. i > 1 => n > 0 /\ n \in 1..n /\ i - 1 = n
      BY <1>2, <2>2
    <3>3. i > 1 => read'[i - 1] = read[n]
      BY <1>4, <3>2
    <3> QED BY <1>8, <3>1, <3>2, <3>3
  <2> QED BY <1>2, <2>1, <2>2
<1>10. Consecutive' /\ \A i \in DOMAIN read' : read'[i].from \in Nat /\ read'[i].to \in Nat
  BY <1>5, <1>9 DEF Consecutive
<1>11. \E Q : read' \in Seq(Q)
  BY <1>4
<1> QED BY <1>10, <1>11 DEF ReadBefore

\* The main loop is waiting again, with nothing on the stack.
LEMMA WaitingAgain ==
  ASSUME Inv, Later, stack' = <<>>, ret' = Nothing, ReadBefore',
         BinopPrecedence' \in [Char -> 0..100], pc' \in {"ready", "ended", "crashed"}
  PROVE  Inv'
<1>1. pos' \in 1..(Len(input') + 1) /\ input' \in Seq(STRING)
  BY DEF Later, PosOK
<1>2. TypeOK'
  BY <1>1 DEF TypeOK
<1>3. Frames'
  <2>1. stack' \in Seq({})
    OBVIOUS
  <2> QED BY <2>1 DEF Frames
<1>4. Started'
  BY DEF Started
<1> QED BY <1>2, <1>3, <1>4 DEF Inv

\* A handler starts to read an expression from where the main loop stands.
LEMMA HandlerStarts ==
  ASSUME Inv, Later, Waiting, UNCHANGED <<BinopPrecedence, ret, read, pc>>,
         NEW place \in Handlers, NEW node,
         stack' = <<Frame(place, node, pos), Frame("expression", Absent, 0)>>,
         place = "define" => pos' > pos /\ node.prec \in 0..100
  PROVE  Inv'
<1> DEFINE f == Frame(place, node, pos)
           g == Frame("expression", Absent, 0)
<1>1. /\ f.at = place /\ f.prec = pos /\ f.node = node
      /\ g.at = "expression" /\ g.prec = 0
  BY DEF Frame
<1> HIDE DEF f, g
<1>2. stack' = <<f, g>>
  BY DEF f, g
<1>3. /\ stack' \in Seq({f, g}) /\ DOMAIN stack' = {1, 2} /\ stack'[1] = f /\ stack'[2] = g
      /\ stack' # <<>> /\ Len(stack') = 2
  BY <1>2
<1>4. pos \in Nat \ {0} /\ pos' \in pos..(Len(input) + 1) /\ pos' \in 1..(Len(input') + 1)
      /\ input' \in Seq(STRING)
  BY DEF Later, PosOK
<1>5. TypeOK'
  <2>1. \A i \in DOMAIN stack' :
          /\ stack'[i].at \in {"define", "evaluate"} <=> i = 1
          /\ stack'[i].prec \in Nat
    BY <1>1, <1>3, <1>4 DEF Handlers
  <2> QED BY <1>3, <1>4, <2>1 DEF Inv, TypeOK
<1>6. Frames'
  BY <1>3 DEF Frames
<1>7. Started'
  <2>1. pos \in 1..pos'
    BY <1>4
  <2>2. ret' \in {Nothing, Null}
    BY DEF Waiting
  <2>3. \A i \in DOMAIN stack' : i > 1 => stack'[i].at \in Fresh
    BY <1>1, <1>3 DEF Fresh
  <2> QED BY <1>1, <1>3, <2>1, <2>2, <2>3 DEF Started
<1>8. ReadBefore'
  <2>1. read # <<>> => read[Len(read)].to <= pos
    BY LastRead DEF Inv
  <2>2. Consecutive'
    BY <1>4 DEF Inv, ReadBefore, Consecutive, Later, PosOK
  <2> QED BY <1>1, <1>3, <2>1, <2>2 DEF Inv, ReadBefore
<1> QED BY <1>5, <1>6, <1>7, <1>8 DEF Inv


LEMMA MainLoopKeeps ==
  ASSUME Inv, MainLoop
  PROVE  Inv'
<1>1. PosOK /\ ReadBefore /\ pos \in Nat \ {0} /\ Len(input) \in Nat
  <2>1. PosOK
    BY InvPos
  <2> QED BY <2>1 DEF Inv, PosOK
<1>2. BinopPrecedence \in [Char -> 0..100] /\ pc \in {"ready", "ended", "crashed"}
  BY DEF Inv, TypeOK
<1>3. Len(stack) = 1 /\ stack # <<>> =>
        Last(stack) = stack[1] /\ stack[1].prec \in 1..pos
  BY DEF Last, Inv, Started
<1>4. read # <<>> /\ Len(stack) = 1 => read[Len(read)].to <= stack[1].prec
  <2>1. Len(stack) = 1 => stack # <<>>
    OBVIOUS
  <2> QED BY <2>1 DEF Inv, ReadBefore
<1>5. ProtoOK(ParsePrototype(1), 1)
  BY <1>1, PrototypeOK
<1> DEFINE def == ParsePrototype(1)
<1>6. /\ def.next \in Nat /\ def.next > 0 /\ def.next + 1 \in Nat /\ def.next + 1 > 0
      /\ def.proto # Null => def.proto.prec \in 0..100
  BY <1>5 DEF ProtoOK
<1> HIDE DEF def
<1>7. ASSUME HandleDefinition PROVE Inv'
  <2>1. CurTok # Eof /\ input' = input
    BY <1>7, TokensAssumption DEF HandleDefinition, Unchanged
  <2>2. CASE def.proto = Null
    <3>1. pos' = After(def.next + 1) /\ UNCHANGED <<stack, ret>> /\ Waiting /\ Unchanged
      BY <1>7, <2>2 DEF HandleDefinition, SkipToken, def
    <3>2. Later
      BY <1>1, <1>6, <2>1, <3>1, LaterAfter
    <3>3. ReadBefore'
      BY <1>1, <3>1, <3>2, LaterReads DEF Waiting, Unchanged
    <3> QED BY <1>2, <3>1, <3>2, <3>3, WaitingAgain DEF Waiting, Unchanged
  <2>3. CASE def.proto # Null
    <3> DEFINE node == def.proto
    <3>1. /\ pos' = After(def.next) /\ Waiting /\ Unchanged /\ ret' = ret
          /\ stack' = <<Frame("define", node, pos), Frame("expression", Absent, 0)>>
      BY <1>7, <2>3 DEF HandleDefinition, def
    <3>2. Later
      BY <1>1, <1>6, <2>1, <3>1, LaterAfter
    <3>3. pos' > pos
      BY <1>1, <1>6, <2>1, <3>1, AfterMoves
    <3>4. node.prec \in 0..100
      BY <1>6, <2>3
    <3> HIDE DEF node
    <3>5. "define" \in Handlers
      BY DEF Handlers
    <3> QED BY <3>1, <3>2, <3>3, <3>4, <3>5, HandlerStarts DEF Unchanged
  <2> QED BY <2>2, <2>3
<1>8. ASSUME FinishDefinition PROVE Inv'
  <2> DEFINE proto == Last(stack).node
  <2>1. /\ stack # <<>> /\ Len(stack) = 1 /\ Last(stack).at = "define"
        /\ BinopPrecedence' = Installed(proto) /\ pc' \in {"crashed", pc}
        /\ stack' = <<>> /\ ret' = Nothing /\ input' = input /\ pos' = pos
        /\ read' = Append(read, Item("definition", proto, ret, Last(stack).prec, pos))
    BY <1>8 DEF FinishDefinition, Returned
  <2>2. stack[1].prec < pos /\ stack[1].node.prec \in 0..100 /\ Last(stack) = stack[1]
    BY <1>3, <2>1 DEF Inv, Started
  <2>3. Later
    BY <1>1, <2>1, LaterAfter
  <2> DEFINE item == Item("definition", proto, ret, Last(stack).prec, pos)
  <2>4. item.from = stack[1].prec /\ item.to = pos
    BY <2>2 DEF Item
  <2>a. read' = Append(read, item)
    BY <2>1
  <2>b. stack[1].prec \in Nat /\ stack[1].prec < pos /\ pos <= pos'
    BY <1>1, <1>3, <2>1, <2>2
  <2>c. read # <<>> => read[Len(read)].to <= stack[1].prec
    BY <1>4, <2>1
  <2> HIDE DEF item
  <2>5. ReadBefore'
    BY <1>1, <2>1, <2>3, <2>4, <2>a, <2>b, <2>c, ItemRead
  <2>6. BinopPrecedence' \in [Char -> 0..100]
    BY <1>2, <2>1, <2>2 DEF Installed
  <2> QED BY <1>2, <2>1, <2>3, <2>5, <2>6, WaitingAgain
<1>9. ASSUME HandleExtern PROVE Inv'
  <2>1. /\ CurTok # Eof /\ input' = input /\ Waiting
        /\ UNCHANGED <<BinopPrecedence, stack, ret, pc>>
    BY <1>9, TokensAssumption DEF HandleExtern
  <2>2. stack' = <<>> /\ ret' = Nothing
    BY <2>1 DEF Waiting
  <2>3. CASE def.proto = Null
    <3>1. pos' = After(def.next + 1) /\ read' = read
      BY <1>9, <2>3 DEF HandleExtern, SkipToken, def
    <3>2. Later
      BY <1>1, <1>6, <2>1, <3>1, LaterAfter
    <3>3. ReadBefore'
      BY <1>1, <2>2, <3>1, <3>2, LaterReads
    <3> QED BY <1>2, <2>1, <2>2, <3>2, <3>3, WaitingAgain
  <2>4. CASE def.proto # Null
    <3> DEFINE item == Item("extern", def.proto, Absent, pos, After(def.next))
    <3>1. pos' = After(def.next) /\ read' = Append(read, item)
      BY <1>9, <2>4 DEF HandleExtern, def
    <3>2. item.from = pos /\ item.to = pos'
      BY <3>1 DEF Item
    <3> HIDE DEF item
    <3>3. Later
      BY <1>1, <1>6, <2>1, <3>1, LaterAfter
    <3>4. pos < pos' /\ pos' \in Nat
      <4>1. After(def.next) > pos
        BY <1>1, <1>6, <2>1, AfterMoves
      <4>2. pos' \in pos..(Len(input) + 1)
        BY <3>3 DEF Later
      <4> QED BY <1>1, <3>1, <4>1, <4>2
    <3>5. read # <<>> => read[Len(read)].to <= pos
      BY <1>1, LastRead
    <3>6. pos \in Nat /\ pos' <= pos'
      BY <1>1, <3>4
    <3>7. ReadBefore'
      BY <1>1, <2>2, <3>1, <3>2, <3>3, <3>4, <3>5, <3>6, ItemRead
    <3> QED BY <1>2, <2>1, <2>2, <3>3, <3>7, WaitingAgain
  <2> QED BY <2>3, <2>4
<1>10. ASSUME HandleTopLevelExpression PROVE Inv'
  <2>1. /\ Waiting /\ Unchanged /\ pos' = pos /\ ret' = ret
        /\ stack' = <<Frame("evaluate", Absent, pos), Frame("expression", Absent, 0)>>
    BY <1>10 DEF HandleTopLevelExpression
  <2>2. Later
    BY <1>1, <2>1, LaterAfter DEF Unchanged
  <2>3. "evaluate" \in Handlers /\ "evaluate" # "define"
    BY DEF Handlers
  <2> QED BY <2>1, <2>2, <2>3, HandlerStarts DEF Unchanged
<1>11. ASSUME FinishExpression PROVE Inv'
  <2> DEFINE item == Item("expression", Absent, ret, Last(stack).prec, pos)
  <2>1. /\ stack # <<>> /\ Len(stack) = 1 /\ Last(stack).at = "evaluate"
        /\ ret \notin {Nothing, Null}
        /\ UNCHANGED <<input, pos, BinopPrecedence, pc>>
        /\ stack' = <<>> /\ ret' = Nothing /\ read' = Append(read, item)
    BY <1>11 DEF FinishExpression, Returned
  <2>2. stack[1].prec # pos /\ Last(stack) = stack[1]
    BY <1>3, <2>1 DEF Inv, Started
  <2>3. Later
    BY <1>1, <2>1, LaterAfter
  <2>4. item.from = stack[1].prec /\ item.to = pos
    BY <2>2 DEF Item
  <2>b. stack[1].prec \in Nat /\ stack[1].prec < pos /\ pos <= pos'
    BY <1>1, <1>3, <2>1, <2>2
  <2>c. read # <<>> => read[Len(read)].to <= stack[1].prec
    BY <1>4, <2>1
  <2> HIDE DEF item
  <2>5. ReadBefore'
    BY <1>1, <2>1, <2>3, <2>4, <2>b, <2>c, ItemRead
  <2> QED BY <1>2, <2>1, <2>3, <2>5, WaitingAgain
<1>12. ASSUME Recover \/ IgnoreSemicolon \/ End PROVE Inv'
  <2>1. /\ UNCHANGED <<input, BinopPrecedence, read>> /\ pc' \in {pc, "ended"}
        /\ stack' = <<>> /\ ret' = Nothing
        /\ pos' = After(0 + 1) \/ pos' = After(1) \/ pos' = pos
    BY <1>12 DEF Recover, IgnoreSemicolon, End, SkipToken, Waiting, Unchanged
  <2>2. 0 + 1 \in Nat /\ 1 \in Nat
    OBVIOUS
  <2>3. Later
    BY <1>1, <2>1, <2>2, LaterAfter, Zenon
  <2>4. ReadBefore'
    BY <1>1, <2>1, <2>3, LaterReads
  <2> QED BY <1>2, <2>1, <2>3, <2>4, WaitingAgain
<1> QED BY <1>7, <1>8, <1>9, <1>10, <1>11, <1>12 DEF MainLoop

-----------------------------------------------------------------------------
(* The theorems.                                                           *)

LEMMA InitInv ==
  ASSUME Init
  PROVE  Inv
<1>1. input \in Seq(STRING)
  BY TokensAssumption DEF Init
<1>2. pos \in 1..(Len(input) + 1)
  <2>1. Len(input) \in Nat
    BY <1>1
  <2> QED BY <2>1 DEF Init
<1>3. BinopPrecedence \in [Char -> 0..100]
  BY DEF Init, Standard
<1>4. stack = <<>> /\ ret = Nothing /\ read = <<>> /\ pc = "ready"
  BY DEF Init
<1>5. TypeOK
  BY <1>1, <1>2, <1>3, <1>4 DEF TypeOK
<1>6. stack \in Seq({}) /\ read \in Seq({})
  BY <1>4
<1>7. Frames /\ Started /\ ReadBefore
  BY <1>4, <1>6 DEF Frames, Started, ReadBefore, Consecutive
<1> QED BY <1>5, <1>7 DEF Inv

LEMMA NextInv ==
  ASSUME Inv, [Next]_vars
  PROVE  Inv'
<1>1. CASE Primary
  <2>1. Moves
    BY <1>1, PrimaryMoves, PartsMove DEF Primary
  <2> QED BY <2>1, MovesKeep
<1>2. CASE Operators
  BY <1>2, OperatorsMove, MovesKeep
<1>3. CASE MainLoop
  BY <1>3, MainLoopKeeps
<1>4. CASE UNCHANGED vars
  BY <1>4 DEF vars, Inv, TypeOK, Frames, Started, ReadBefore, Consecutive
<1> QED BY <1>1, <1>2, <1>3, <1>4 DEF Next, Stopped

LEMMA InvHolds == Spec => []Inv
<1>1. Init => Inv
  BY InitInv
<1>2. Inv /\ [Next]_vars => Inv'
  BY NextInv
<1> QED BY <1>1, <1>2, PTL DEF Spec

\* For every vocabulary and every text: the operators' precedences stay between 0
\* and 100 whatever the definitions say, the position stays on the text or one past
\* it, and every activation of a parse function has a handler at the bottom.
THEOREM TypeCorrect == Spec => []TypeOK
<1>1. Inv => TypeOK
  BY DEF Inv
<1> QED BY <1>1, InvHolds, PTL

\* For every vocabulary and every text: what the main loop reads are non-empty
\* stretches of the input, one after the other, through every error and recovery.
THEOREM ReadsConsecutively == Spec => []Consecutive
<1>1. Inv => Consecutive
  BY DEF Inv, ReadBefore
<1> QED BY <1>1, InvHolds, PTL

-----------------------------------------------------------------------------
(* Types and the shape of the activations.                                 *)

IRValue == [reg : Int, num : Int]
Op == {"load", "store", "+", "-", "*", "<", "call", "phi", "br", "condbr", "ret"}
Label == {""} \cup UNION {{n.name : n \in Nodes(body)} : body \in Bodies}
Instruction == [op : Op, name : Label, to : Nat, args : Seq(IRValue), at : Seq(Nat)]
Builder == [blocks : Seq(Seq(Instruction)), cur : Nat, regs : Nat, vars : Nat]
Expr == Nodes(fn.body) \cup {Function(fn.body)}
FrameType == [node : Expr, part : Nat, vals : Seq(IRValue), blocks : Seq(Nat), from : Seq(Nat),
              variable : Nat, old : Seq(Nat)]

\* When a part is generated.
Place(node, i) ==
  CASE node.type = "for" /\ i \in 1..4 -> <<1, 4, 3, 2>>[i]
    [] node.type = "var" -> (i + 1) \div 2
    [] node.type = "binary" /\ node.name = "=" /\ i > 0 -> 3 - i
    [] OTHER -> i

\* The parts that have been generated.
Done(f, top) ==
  {i \in Parts(f.node) : Place(f.node, i) < Place(f.node, f.part) \/ (top /\ i = f.part)}

\* The local variables of a method.
LocalsOK(f) ==
  /\ f.part \in {0} \cup DOMAIN f.node.of
  /\ f.node.type = "var" => f.part = Len(f.node.of) \/ f.part % 2 = 0
  /\ f.node.type = "binary" /\ f.node.name = "=" => f.part # 1
  /\ f.node.type = "function" => f.part = 1
  /\ Len(f.old) = IF f.part = 0 THEN 0 ELSE InScope(f.node, f.part)
  /\ f.node.type \notin {"if", "for"} => f.blocks = <<>>
  /\ f.node.type = "for" => Len(f.blocks) = IF f.part \in {0, 1} THEN 0 ELSE 1
  /\ f.node.type = "if" =>
       /\ Len(f.blocks) = IF f.part < 2 THEN 0 ELSE 4 - f.part
       /\ Len(f.from) = IF f.part = 3 THEN 1 ELSE 0

FramesOK ==
  /\ frames \in Seq(FrameType) /\ frames # <<>>
  /\ frames[1].node = Function(fn.body)
  /\ \A k \in DOMAIN frames : LocalsOK(frames[k])
  /\ \A k \in DOMAIN frames :
       Len(frames[k].vals) = IF k = Len(frames) THEN Place(frames[k].node, frames[k].part)
                             ELSE Place(frames[k].node, frames[k].part) - 1
  /\ \A k \in DOMAIN frames \ {1} :
       /\ frames[k].node \in Nodes(fn.body)
       /\ frames[k - 1].part \in Parts(frames[k - 1].node)
       /\ frames[k].node = frames[k - 1].node.of[frames[k - 1].part]

TypeInv ==
  /\ phase \in {"idle", "generating", "refused", "generated", "running", "returned", "cut"}
  /\ phase \in {"generating", "refused", "generated"} => fn.params \in Params /\ fn.body \in Bodies
  /\ phase = "generating" =>
       /\ ir \in Builder
       /\ NamedValues \in [Name -> Nat]
       /\ FramesOK

-----------------------------------------------------------------------------
(* The blocks.                                                             *)

\* The finished blocks that branch to q; the current one has no branch yet.
Preds(b, q) ==
  {p \in DOMAIN b.blocks : b.blocks[p] # <<>> /\ p # b.cur /\ q \in Successors(b.blocks[p])}

\* The blocks with a phi, to which no new branch may be made.
Phis(b) == {q \in DOMAIN b.blocks : \E i \in DOMAIN b.blocks[q] : b.blocks[q][i].op = "phi"}

\* The blocks an activation goes on in, and those of an if, which are still empty.
Held(f) == ToSet(f.blocks)
Waits(f) == IF f.node.type = "if" THEN Held(f) ELSE {}
Awaited(fs) == UNION {Waits(fs[k]) : k \in DOMAIN fs}

\* A phi comes first and names the blocks that branch to its own.
PhisOK(b, q) ==
  \A i \in DOMAIN b.blocks[q] :
    b.blocks[q][i].op = "phi" =>
      i = 1 /\ IsInjective(b.blocks[q][i].at) /\ ToSet(b.blocks[q][i].at) = Preds(b, q)

\* A block that is finished.
Closed(b, q) ==
  /\ b.blocks[q] # <<>> /\ Terminators(b.blocks[q]) = {Len(b.blocks[q])}
  /\ Successors(b.blocks[q]) \subseteq DOMAIN b.blocks

\* Every block is finished but the current one and those in W, which wait to be filled.
Shape(b, W) ==
  /\ b \in Builder /\ b.cur \in DOMAIN b.blocks /\ b.cur \notin W /\ W \subseteq DOMAIN b.blocks
  /\ Terminators(b.blocks[b.cur]) = {}
  /\ \A q \in W : b.blocks[q] = <<>>
  /\ \A q \in DOMAIN b.blocks \ W : q = b.cur \/ Closed(b, q)
  /\ \A q \in DOMAIN b.blocks : PhisOK(b, q)

\* What an activation waits for can still be branched to; the last block of an if is
\* reached from the branches that ended and from nowhere else.
HeldOK(b, f) ==
  /\ Held(f) \subseteq DOMAIN b.blocks \ Phis(b)
  /\ IsInjective(f.blocks)
  /\ f.node.type = "if" /\ f.blocks # <<>> => Preds(b, Last(f.blocks)) = ToSet(f.from)

\* The blocks of the builder and the activations together.
Blocks(b, fs) ==
  /\ Shape(b, Awaited(fs))
  /\ \A k \in DOMAIN fs : HeldOK(b, fs[k])
  /\ \A k, l \in DOMAIN fs : k # l => Held(fs[k]) \cap Held(fs[l]) = {}

\* An activation that was returned an error, and that there is none.
Bad(f) == NoValue \in ToSet(f.vals)
Fine == \A k \in DOMAIN frames : ~Bad(frames[k])

Other(node) == node.type = "binary" /\ node.name # "="

\* A part without a value is the last, of the activation on top.
ValsOK ==
  \A k \in DOMAIN frames : Other(frames[k].node) \/
    \A i \in DOMAIN frames[k].vals :
      frames[k].vals[i] = NoValue => k = Len(frames) /\ i = Len(frames[k].vals)

ForsOK == \A k \in DOMAIN frames : frames[k].node.type = "for" /\ frames[k].part # 0 => frames[k].variable # 0

-----------------------------------------------------------------------------
(* The names.                                                              *)

\* The names an activation bound so far, and the names visible to the k-th.
Opened(f) == {Names(f.node)[i] : i \in DOMAIN f.old}
Seen(fs, k) ==
  ToSet(fn.params) \cup UNION {Introduced(fs[j].node, fs[j].part) : j \in 1..(k - 1)}

\* No error yet: all that was generated names what is visible, the old bindings will
\* restore what was visible before, and the table has the visible names.
InScopeSoFar(fs, table) ==
  /\ \A k \in DOMAIN fs : \A i \in Done(fs[k], k = Len(fs)) :
       Scoped(fs[k].node.of[i], Seen(fs, k) \cup Introduced(fs[k].node, i))
  /\ \A k \in DOMAIN fs : \A i \in DOMAIN fs[k].old :
       fs[k].old[i] # 0 <=> Names(fs[k].node)[i] \in Seen(fs, k)
  /\ {n \in Name : table[n] # 0} = Seen(fs, Len(fs)) \cup Opened(fs[Len(fs)])

\* The outermost activation that knows of an error, and that it can not be generated.
FirstBad(fs, k) == Bad(fs[k]) /\ \A j \in 1..(k - 1) : ~Bad(fs[j])

UnscopedFn(fs, k) == IF k = 1 THEN ~Scoped(fn.body, ToSet(fn.params)) ELSE ~Scoped(fs[k].node, Seen(fs, k))

\* What becomes of RefusesUnknown half way through a function.
NamesOK(fs, table) ==
  /\ (\A k \in DOMAIN fs : ~Bad(fs[k])) => InScopeSoFar(fs, table)
  /\ \A k \in DOMAIN fs : FirstBad(fs, k) => UnscopedFn(fs, k)


-----------------------------------------------------------------------------
(* Sequences.                                                              *)

LEMMA SetAt ==
  ASSUME NEW S, NEW s \in Seq(S), NEW i, NEW v, i \in DOMAIN s => v \in S
  PROVE  /\ [s EXCEPT ![i] = v] \in Seq(S)
         /\ Len([s EXCEPT ![i] = v]) = Len(s)
         /\ \A j \in DOMAIN s : [s EXCEPT ![i] = v][j] = IF j = i THEN v ELSE s[j]
<1>1. CASE i \in DOMAIN s
  BY <1>1, ExceptSeq
<1>2. CASE i \notin DOMAIN s
  <2>1. [s EXCEPT ![i] = v] = s
    BY <1>2
  <2> QED BY <1>2, <2>1
<1> QED BY <1>1, <1>2

LEMMA AppendSeq ==
  ASSUME NEW S, NEW s \in Seq(S), NEW e \in S
  PROVE  /\ Append(s, e) \in Seq(S) /\ Len(Append(s, e)) = Len(s) + 1
         /\ DOMAIN Append(s, e) = DOMAIN s \cup {Len(s) + 1}
         /\ \A j \in DOMAIN s : Append(s, e)[j] = s[j]
         /\ Append(s, e)[Len(s) + 1] = e
         /\ ToSet(Append(s, e)) = ToSet(s) \cup {e}
<1>1. /\ Append(s, e) \in Seq(S) /\ Len(Append(s, e)) = Len(s) + 1
      /\ DOMAIN Append(s, e) = DOMAIN s \cup {Len(s) + 1}
      /\ \A j \in DOMAIN s : Append(s, e)[j] = s[j]
      /\ Append(s, e)[Len(s) + 1] = e
      /\ Len(s) + 1 \notin DOMAIN s
  OBVIOUS
<1> QED BY <1>1 DEF ToSet

LEMMA LastIn ==
  ASSUME NEW S, NEW s \in Seq(S), Len(s) > 0
  PROVE  Last(s) \in S
<1>1. Len(s) \in 1..Len(s) /\ \A i \in 1..Len(s) : s[i] \in S
  OBVIOUS
<1> QED BY <1>1 DEF Last

\* The halves of an odd number.
LEMMA OddParts ==
  ASSUME NEW l \in Nat, l % 2 = 1, l > 1
  PROVE  (l - 1) \div 2 = l \div 2 /\ l \div 2 \in Nat /\ (l + 1) \div 2 > 0 /\ l # 0
OBVIOUS

\* The frames below the one on top, the last of them replaced.
LEMMA FrontExcept ==
  ASSUME NEW S, NEW s \in Seq(S), Len(s) > 1, NEW v \in S
  PROVE  LET t == [SubSeq(s, 1, Len(s) - 1) EXCEPT ![Len(s) - 1] = v]
         IN  /\ t \in Seq(S) /\ Len(t) = Len(s) - 1
             /\ \A j \in 1..(Len(s) - 2) : t[j] = s[j]
             /\ t[Len(s) - 1] = v
<1> DEFINE r == SubSeq(s, 1, Len(s) - 1)
<1>1. r \in Seq(S) /\ Len(r) = Len(s) - 1 /\ \A j \in 1..(Len(s) - 1) : r[j] = s[j]
  OBVIOUS
<1> HIDE DEF r
<1>2. /\ [r EXCEPT ![Len(s) - 1] = v] \in Seq(S) /\ Len([r EXCEPT ![Len(s) - 1] = v]) = Len(r)
      /\ \A j \in DOMAIN r : [r EXCEPT ![Len(s) - 1] = v][j] = IF j = Len(s) - 1 THEN v ELSE r[j]
  BY <1>1, SetAt
<1>3. DOMAIN r = 1..(Len(s) - 1) /\ Len(s) \in Nat
  BY <1>1
<1> QED BY <1>1, <1>2, <1>3 DEF r

-----------------------------------------------------------------------------
(* Nodes.                                                                  *)

LEMMA FunctionIs ==
  ASSUME NEW body
  PROVE  Function(body).type = "function" /\ Function(body).of = <<body>>
BY DEF Function, Node

LEMMA NodeShape ==
  ASSUME NEW body \in Bodies, NEW n \in Nodes(body) \cup {Function(body)}
  PROVE  /\ n.of \in Seq(ToSet(n.of)) /\ Len(n.of) \in Nat /\ DOMAIN n.of = 1..Len(n.of)
         /\ Parts(n) \subseteq 1..Len(n.of)
         /\ \A i \in Parts(n) : n.of[i] \in Nodes(body)
         /\ n.type = "function" <=> n = Function(body)
         /\ n \in Nodes(body) => n.type \in {"number", "variable", "call", "unary", "binary",
                                             "if", "for", "var"}
<1>1. n.of \in Seq(ToSet(n.of)) => Len(n.of) \in Nat /\ DOMAIN n.of = 1..Len(n.of)
  OBVIOUS
<1>2. CASE n \in Nodes(body)
  <2>1. IsNode(body, n)
    BY <1>2, NodesAssumption
  <2>2. n.type \in {"number", "variable", "call", "unary", "binary", "if", "for", "var"}
    BY <2>1 DEF IsNode
  <2>3. n # Function(body)
    BY <2>2, FunctionIs
  <2> QED BY <1>1, <2>1, <2>2, <2>3 DEF IsNode, Parts
<1>3. CASE n = Function(body)
  <2>1. n.type = "function" /\ n.of = <<body>>
    BY <1>3, FunctionIs
  <2>2. body \in Nodes(body)
    BY NodesAssumption
  <2>3. n \notin Nodes(body)
    BY <1>3, <2>1, NodesAssumption DEF IsNode
  <2>4. n.of \in Seq(ToSet(n.of)) /\ Len(n.of) = 1 /\ n.of[1] = body
    BY <2>1 DEF ToSet
  <2> QED BY <1>1, <1>3, <2>1, <2>2, <2>3, <2>4 DEF Parts
<1> QED BY <1>2, <1>3

-----------------------------------------------------------------------------
(* The IR builder.                                                         *)

LEMMA ConstIs ==
  ASSUME NEW n \in Int
  PROVE  Const(n) \in IRValue /\ Const(n) # NoValue
BY DEF Const, IRValue, NoValue

LEMMA InsertIs ==
  ASSUME NEW b \in Builder, NEW instr \in Instruction
  PROVE  LET c == Insert(b, instr)
         IN  /\ c \in Builder /\ c.cur = b.cur /\ c.regs = b.regs /\ c.vars = b.vars
             /\ Len(c.blocks) = Len(b.blocks)
             /\ \A q \in DOMAIN b.blocks :
                  c.blocks[q] = IF q = b.cur THEN Append(b.blocks[q], instr) ELSE b.blocks[q]
<1> DEFINE t == [b.blocks EXCEPT ![b.cur] = Append(b.blocks[b.cur], instr)]
           c == Insert(b, instr)
<1>1. b.blocks \in Seq(Seq(Instruction)) /\ b.cur \in Nat /\ b.regs \in Nat /\ b.vars \in Nat
  BY DEF Builder
<1>2. b.cur \in DOMAIN b.blocks => Append(b.blocks[b.cur], instr) \in Seq(Instruction)
  BY <1>1
<1>3. /\ t \in Seq(Seq(Instruction)) /\ Len(t) = Len(b.blocks)
      /\ \A q \in DOMAIN b.blocks :
           t[q] = IF q = b.cur THEN Append(b.blocks[b.cur], instr) ELSE b.blocks[q]
  BY <1>1, <1>2, SetAt
<1>4. c.blocks = t /\ c.cur = b.cur /\ c.regs = b.regs /\ c.vars = b.vars
  BY DEF Insert, Builder
<1>5. c \in Builder
  <2>1. c = [b EXCEPT !.blocks = t]
    BY DEF Insert
  <2> HIDE DEF c, t
  <2> QED BY <1>3, <2>1 DEF Builder
<1> QED BY <1>3, <1>4, <1>5

LEMMA InstrIs ==
  ASSUME NEW op \in Op, NEW name \in Label, NEW to \in Nat, NEW args \in Seq(IRValue),
         NEW on \in Seq(Nat)
  PROVE  /\ Instr(op, name, to, args, on) \in Instruction
         /\ Instr(op, name, to, args, on).op = op
         /\ Instr(op, name, to, args, on).at = on
BY DEF Instr, Instruction, Label

LEMMA EffectIs ==
  ASSUME NEW b \in Builder, NEW op \in Op, NEW args \in Seq(IRValue), NEW on \in Seq(Nat)
  PROVE  LET instr == Instr(op, "", 0, args, on)
         IN  /\ instr \in Instruction /\ instr.op = op /\ instr.at = on
             /\ Effect(b, op, args, on) = Insert(b, instr)
             /\ Effect(b, op, args, on) \in Builder
<1> DEFINE instr == Instr(op, "", 0, args, on)
<1>1. instr \in Instruction /\ instr.op = op /\ instr.at = on
  BY DEF Instr, Instruction, Label
<1>2. Effect(b, op, args, on) = Insert(b, instr)
  BY DEF Effect
<1> HIDE DEF instr
<1>3. Insert(b, instr) \in Builder
  BY <1>1, InsertIs
<1> QED BY <1>1, <1>2, <1>3 DEF instr

\* A value is made by an instruction in the current block.
LEMMA DefineIs ==
  ASSUME NEW b \in Builder, NEW op \in Op, NEW name \in Label, NEW args \in Seq(IRValue),
         NEW on \in Seq(Nat)
  PROVE  LET instr == Instr(op, name, b.regs + 1, args, on)
             r == Define(b, op, name, args, on)
         IN  /\ instr \in Instruction /\ instr.op = op /\ instr.at = on
             /\ r.b \in Builder /\ r.b.blocks = Insert(b, instr).blocks /\ r.b.cur = b.cur
             /\ r.b.vars = b.vars /\ r.b.regs = b.regs + 1
             /\ r.v \in IRValue /\ r.v # NoValue
<1> DEFINE instr == Instr(op, name, b.regs + 1, args, on)
           c == Insert(b, instr)
           r == Define(b, op, name, args, on)
<1>1. b.regs + 1 \in Nat
  BY DEF Builder
<1>2. instr \in Instruction /\ instr.op = op /\ instr.at = on
  BY <1>1, InstrIs
<1>3. c \in Builder /\ c.cur = b.cur /\ c.regs = b.regs /\ c.vars = b.vars
  BY <1>2, InsertIs
<1>4. r.b = [c EXCEPT !.regs = b.regs + 1] /\ r.v = Reg(b.regs + 1)
  BY DEF Define, Result
<1>5. r.v \in IRValue /\ r.v # NoValue
  BY <1>1, <1>4 DEF Reg, IRValue, NoValue
<1> HIDE DEF c, r, instr
<1>6. [c EXCEPT !.regs = b.regs + 1] \in Builder
  BY <1>1, <1>3 DEF Builder
<1>7. /\ [c EXCEPT !.regs = b.regs + 1].blocks = c.blocks
      /\ [c EXCEPT !.regs = b.regs + 1].cur = c.cur
      /\ [c EXCEPT !.regs = b.regs + 1].vars = c.vars
      /\ [c EXCEPT !.regs = b.regs + 1].regs = b.regs + 1
  BY <1>3 DEF Builder
<1> QED BY <1>2, <1>3, <1>4, <1>5, <1>6, <1>7 DEF c, r, instr

LEMMA NewBlockIs ==
  ASSUME NEW b \in Builder
  PROVE  LET c == NewBlock(b)
         IN  /\ c \in Builder /\ c.cur = b.cur /\ c.regs = b.regs /\ c.vars = b.vars
             /\ c.blocks = Append(b.blocks, <<>>)
             /\ Len(c.blocks) = Len(b.blocks) + 1 /\ Newest(c) = Len(b.blocks) + 1
             /\ Newest(c) \in Nat
<1>1. b.blocks \in Seq(Seq(Instruction)) /\ <<>> \in Seq(Instruction)
  BY DEF Builder
<1>2. Append(b.blocks, <<>>) \in Seq(Seq(Instruction)) /\ Len(Append(b.blocks, <<>>)) = Len(b.blocks) + 1
  BY <1>1
<1> DEFINE t == Append(b.blocks, <<>>)
<1>3. NewBlock(b) = [b EXCEPT !.blocks = t]
  BY DEF NewBlock
<1>4. t \in Seq(Seq(Instruction)) /\ Len(t) = Len(b.blocks) + 1 /\ Len(t) \in Nat
  BY <1>1, <1>2
<1> HIDE DEF t
<1>5. LET c == [b EXCEPT !.blocks = t]
      IN  c \in Builder /\ c.cur = b.cur /\ c.regs = b.regs /\ c.vars = b.vars /\ c.blocks = t
  BY <1>4 DEF Builder
<1>6. NewBlock(b).blocks = t
  BY <1>3, <1>5
<1> QED BY <1>3, <1>4, <1>5, <1>6 DEF t, Newest

LEMMA SetInsertPointIs ==
  ASSUME NEW b \in Builder, NEW q \in Nat
  PROVE  LET c == SetInsertPoint(b, q)
         IN  /\ c \in Builder /\ c.cur = q /\ c.blocks = b.blocks
             /\ c.regs = b.regs /\ c.vars = b.vars
BY DEF SetInsertPoint, Builder

LEMMA BranchIs ==
  ASSUME NEW b \in Builder, NEW op \in Op, NEW args \in Seq(IRValue), NEW on \in Seq(Nat),
         NEW q \in Nat
  PROVE  LET instr == Instr(op, "", 0, args, on)
             c == Branch(b, op, args, on, q)
         IN  /\ instr \in Instruction /\ instr.op = op /\ instr.at = on
             /\ c \in Builder /\ c.cur = q /\ c.blocks = Insert(b, instr).blocks
<1> DEFINE e == Effect(b, op, args, on)
           instr == Instr(op, "", 0, args, on)
<1>1. instr \in Instruction /\ instr.op = op /\ instr.at = on
  BY DEF Instr, Instruction, Label
<1>4. e = Insert(b, instr)
  BY DEF Effect
<1>5. e \in Builder
  BY <1>1, <1>4, InsertIs
<1>2. Branch(b, op, args, on, q) = SetInsertPoint(e, q)
  BY DEF Branch
<1>3. SetInsertPoint(e, q) \in Builder /\ SetInsertPoint(e, q).cur = q
      /\ SetInsertPoint(e, q).blocks = e.blocks
  BY <1>5, SetInsertPointIs
<1> QED BY <1>1, <1>2, <1>3, <1>4

LEMMA AllocaIs ==
  ASSUME NEW b \in Builder
  PROVE  LET c == Alloca(b)
         IN  /\ c \in Builder /\ c.cur = b.cur /\ c.blocks = b.blocks /\ c.regs = b.regs
             /\ c.vars = b.vars + 1 /\ b.vars + 1 \in Nat
BY DEF Alloca, Builder

-----------------------------------------------------------------------------
(* Blocks under construction.                                              *)

LEMMA BlocksTyped ==
  ASSUME NEW b \in Builder
  PROVE  /\ Len(b.blocks) \in Nat /\ DOMAIN b.blocks = 1..Len(b.blocks)
         /\ \A q \in DOMAIN b.blocks : b.blocks[q] \in Seq(Instruction)
BY DEF Builder

\* The block in which an instruction is put.
LEMMA Inserted ==
  ASSUME NEW b \in Builder, NEW instr \in Instruction, NEW c \in Builder,
         c.blocks = Insert(b, instr).blocks
  PROVE  /\ DOMAIN c.blocks = DOMAIN b.blocks
         /\ \A q \in DOMAIN b.blocks : q # b.cur => c.blocks[q] = b.blocks[q]
         /\ b.cur \in DOMAIN b.blocks =>
              LET s == b.blocks[b.cur]
                  t == c.blocks[b.cur]
              IN  /\ s \in Seq(Instruction) /\ t \in Seq(Instruction)
                  /\ Len(s) \in Nat /\ Len(t) = Len(s) + 1 /\ t # <<>>
                  /\ DOMAIN s = 1..Len(s) /\ DOMAIN t = DOMAIN s \cup {Len(s) + 1}
                  /\ \A i \in DOMAIN s : t[i] = s[i]
                  /\ t[Len(s) + 1] = instr
<1>1. /\ Len(c.blocks) = Len(b.blocks)
      /\ \A q \in DOMAIN b.blocks :
           c.blocks[q] = IF q = b.cur THEN Append(b.blocks[q], instr) ELSE b.blocks[q]
  BY InsertIs
<1>2. DOMAIN c.blocks = DOMAIN b.blocks
  BY <1>1, BlocksTyped
<1>3. ASSUME b.cur \in DOMAIN b.blocks
      PROVE  /\ b.blocks[b.cur] \in Seq(Instruction)
             /\ c.blocks[b.cur] = Append(b.blocks[b.cur], instr)
  BY <1>1, <1>3, BlocksTyped
<1>4. ASSUME NEW s \in Seq(Instruction)
      PROVE  LET t == Append(s, instr)
             IN  /\ t \in Seq(Instruction)
                 /\ Len(s) \in Nat /\ Len(t) = Len(s) + 1 /\ t # <<>>
                 /\ DOMAIN s = 1..Len(s) /\ DOMAIN t = DOMAIN s \cup {Len(s) + 1}
                 /\ \A i \in DOMAIN s : t[i] = s[i]
                 /\ t[Len(s) + 1] = instr
  OBVIOUS
<1>5. \A q \in DOMAIN b.blocks : q # b.cur => c.blocks[q] = b.blocks[q]
  BY <1>1
<1>6. ASSUME b.cur \in DOMAIN b.blocks
      PROVE  LET s == b.blocks[b.cur]
                 t == c.blocks[b.cur]
             IN  /\ s \in Seq(Instruction) /\ t \in Seq(Instruction)
                 /\ Len(s) \in Nat /\ Len(t) = Len(s) + 1 /\ t # <<>>
                 /\ DOMAIN s = 1..Len(s) /\ DOMAIN t = DOMAIN s \cup {Len(s) + 1}
                 /\ \A i \in DOMAIN s : t[i] = s[i]
                 /\ t[Len(s) + 1] = instr
  <2> DEFINE s == b.blocks[b.cur]
             t == c.blocks[b.cur]
  <2>1. s \in Seq(Instruction) /\ t = Append(s, instr)
    BY <1>3, <1>6
  <2> HIDE DEF s, t
  <2> QED BY <2>1, <1>4 DEF s, t
<1> QED BY <1>2, <1>5, <1>6

\* An instruction that is neither a branch nor a phi.
LEMMA PlainKeeps ==
  ASSUME NEW W, NEW b, Shape(b, W), NEW instr \in Instruction,
         instr.op \notin {"br", "condbr", "ret", "phi"},
         NEW c \in Builder, c.cur = b.cur, c.blocks = Insert(b, instr).blocks
  PROVE  /\ Shape(c, W) /\ DOMAIN c.blocks = DOMAIN b.blocks /\ Phis(c) = Phis(b)
         /\ \A q : Preds(c, q) = Preds(b, q)
<1> DEFINE s == b.blocks[b.cur]
           t == c.blocks[b.cur]
<1>0. b \in Builder /\ b.cur \in DOMAIN b.blocks
  BY DEF Shape
<1>1. /\ DOMAIN c.blocks = DOMAIN b.blocks
      /\ \A q \in DOMAIN b.blocks : q # b.cur => c.blocks[q] = b.blocks[q]
      /\ DOMAIN t = DOMAIN s \cup {Len(s) + 1}
      /\ \A i \in DOMAIN s : t[i] = s[i]
      /\ t[Len(s) + 1] = instr
  BY <1>0, Inserted
<1>2. ASSUME NEW q PROVE Preds(c, q) = Preds(b, q)
  BY <1>1 DEF Preds
<1>3. Terminators(t) = {}
  <2>1. Terminators(s) = {}
    BY DEF Shape
  <2> QED BY <1>1, <2>1 DEF Terminators
<1>4. ASSUME NEW q \in DOMAIN b.blocks PROVE PhisOK(c, q)
  <2>1. PhisOK(b, q)
    BY DEF Shape
  <2>2. CASE q # b.cur
    BY <1>1, <1>2, <2>1, <2>2 DEF PhisOK
  <2>3. CASE q = b.cur
    BY <1>1, <1>2, <2>1, <2>3 DEF PhisOK
  <2> QED BY <2>2, <2>3
<1>5. \A q \in W : c.blocks[q] = <<>>
  BY <1>1 DEF Shape
<1>6. \A q \in DOMAIN c.blocks \ W : q = c.cur \/ Closed(c, q)
  BY <1>1 DEF Shape, Closed
<1>7. Phis(c) = Phis(b)
  BY <1>1 DEF Phis
<1> QED BY <1>0, <1>1, <1>2, <1>3, <1>4, <1>5, <1>6, <1>7 DEF Shape

\* The same blocks.
LEMMA SameKeeps ==
  ASSUME NEW W, NEW b, Shape(b, W), NEW c \in Builder, c.cur = b.cur, c.blocks = b.blocks
  PROVE  /\ Shape(c, W) /\ DOMAIN c.blocks = DOMAIN b.blocks /\ Phis(c) = Phis(b)
         /\ \A q : Preds(c, q) = Preds(b, q)
<1>1. Phis(c) = Phis(b)
  BY DEF Phis
<1>2. ASSUME NEW q PROVE Preds(c, q) = Preds(b, q)
  BY DEF Preds
<1>3. ASSUME NEW q \in DOMAIN b.blocks PROVE PhisOK(c, q)
  BY <1>2 DEF Shape, PhisOK
<1> QED BY <1>1, <1>2, <1>3 DEF Shape, Closed

\* A new block waits to be filled.
LEMMA NewBlockKeeps ==
  ASSUME NEW W, NEW b, Shape(b, W)
  PROVE  LET c == NewBlock(b)
             new == Len(b.blocks) + 1
         IN  /\ Shape(c, W \cup {new}) /\ DOMAIN c.blocks = DOMAIN b.blocks \cup {new}
             /\ Phis(c) = Phis(b) /\ new \notin DOMAIN b.blocks /\ Preds(c, new) = {}
             /\ \A q : Preds(c, q) = Preds(b, q)
             /\ c.cur = b.cur /\ new \in Nat /\ Newest(c) = new
<1> DEFINE c == NewBlock(b)
           new == Len(b.blocks) + 1
<1>0. b \in Builder /\ b.cur \in DOMAIN b.blocks /\ W \subseteq DOMAIN b.blocks
  BY DEF Shape
<1>1. /\ c \in Builder /\ c.cur = b.cur /\ c.blocks = Append(b.blocks, <<>>) /\ Newest(c) = new
      /\ new \in Nat
  BY <1>0, NewBlockIs
<1>2. /\ b.blocks \in Seq(Seq(Instruction)) /\ <<>> \in Seq(Instruction)
  BY <1>0 DEF Builder
<1>3. /\ DOMAIN c.blocks = DOMAIN b.blocks \cup {new} /\ new \notin DOMAIN b.blocks
      /\ \A q \in DOMAIN b.blocks : c.blocks[q] = b.blocks[q]
      /\ c.blocks[new] = <<>>
  BY <1>1, <1>2
<1> HIDE DEF c, new
<1>4. ASSUME NEW q PROVE Preds(c, q) = Preds(b, q)
  BY <1>1, <1>3 DEF Preds
<1>5. Preds(b, new) = {}
  <2> SUFFICES ASSUME NEW p \in DOMAIN b.blocks, b.blocks[p] # <<>>, p # b.cur,
                      new \in Successors(b.blocks[p])
               PROVE  FALSE
    BY DEF Preds
  <2>1. p \notin W
    BY DEF Shape
  <2>2. Closed(b, p)
    BY <2>1 DEF Shape
  <2> QED BY <1>3, <2>2 DEF Closed
<1>6. ASSUME NEW q \in DOMAIN c.blocks PROVE PhisOK(c, q)
  <2>1. CASE q = new
    BY <1>3, <2>1 DEF PhisOK
  <2>2. CASE q \in DOMAIN b.blocks
    <3>1. PhisOK(b, q)
      BY <2>2 DEF Shape
    <3> QED BY <1>3, <1>4, <2>2, <3>1 DEF PhisOK
  <2> QED BY <1>3, <2>1, <2>2
<1>7. \A q \in DOMAIN c.blocks \ (W \cup {new}) : q = c.cur \/ Closed(c, q)
  BY <1>1, <1>3 DEF Shape, Closed
<1>8. \A q \in W \cup {new} : c.blocks[q] = <<>>
  BY <1>3 DEF Shape
<1>9. Terminators(c.blocks[c.cur]) = {} /\ c.cur \notin W \cup {new}
  BY <1>0, <1>1, <1>3 DEF Shape
<1>10. Shape(c, W \cup {new})
  BY <1>0, <1>1, <1>3, <1>6, <1>7, <1>8, <1>9 DEF Shape
<1>11. Phis(c) = Phis(b)
  BY <1>3 DEF Phis
<1> QED BY <1>1, <1>3, <1>4, <1>5, <1>10, <1>11 DEF c, new

\* Blocks without a phi.
Aims(b, on) == ToSet(on) \subseteq DOMAIN b.blocks \ Phis(b)

\* From b to c there is one more branch, from the current block to these.
Leads(b, c, on) ==
  /\ DOMAIN c.blocks = DOMAIN b.blocks /\ Phis(c) = Phis(b)
  /\ \A q : Preds(c, q) = Preds(b, q) \cup {p \in {b.cur} : q \in ToSet(on)}

\* V is W without next.
Without(W, next, V) == V = W \ {next}

IsBranch(instr) == instr.op \in {"br", "condbr"}

\* A branch to blocks without a phi ends the current block; a waiting one is next.
LEMMA BranchKeeps ==
  ASSUME NEW W, NEW b, Shape(b, W), NEW instr \in Instruction, IsBranch(instr), Aims(b, instr.at),
         NEW next \in W, NEW c \in Builder, c.cur = next, c.blocks = Insert(b, instr).blocks,
         NEW V, Without(W, next, V)
  PROVE  Shape(c, V) /\ Leads(b, c, instr.at) /\ c.blocks[next] = <<>> /\ b.cur # next
<1> USE DEF Aims, Leads, IsBranch, Without
<1> DEFINE s == b.blocks[b.cur]
           t == c.blocks[b.cur]
<1>0. b \in Builder /\ b.cur \in DOMAIN b.blocks /\ b.cur # next /\ next \in DOMAIN b.blocks
  BY DEF Shape
<1>1. /\ DOMAIN c.blocks = DOMAIN b.blocks
      /\ \A q \in DOMAIN b.blocks : q # b.cur => c.blocks[q] = b.blocks[q]
      /\ Len(s) \in Nat /\ Len(t) = Len(s) + 1 /\ t # <<>>
      /\ DOMAIN s = 1..Len(s) /\ DOMAIN t = DOMAIN s \cup {Len(s) + 1}
      /\ \A i \in DOMAIN s : t[i] = s[i]
      /\ t[Len(s) + 1] = instr
  BY <1>0, Inserted
<1>2. Successors(t) = ToSet(instr.at)
  BY <1>1 DEF Successors, Last
<1>3. b.blocks[next] = <<>> /\ c.blocks[next] = <<>>
  BY <1>0, <1>1 DEF Shape
<1>4. ASSUME NEW q PROVE Preds(c, q) = Preds(b, q) \cup {p \in {b.cur} : q \in ToSet(instr.at)}
  BY <1>0, <1>1, <1>2, <1>3 DEF Preds
<1>5. Terminators(s) = {}
  BY DEF Shape
<1>6. Terminators(t) = {Len(t)}
  BY <1>1, <1>5 DEF Terminators
<1>7. Closed(c, b.cur)
  BY <1>1, <1>2, <1>6 DEF Closed
<1>8. Phis(c) = Phis(b)
  BY <1>0, <1>1 DEF Phis
<1>9. ASSUME NEW q \in DOMAIN b.blocks PROVE PhisOK(c, q)
  <2>1. PhisOK(b, q)
    BY DEF Shape
  <2>2. CASE q \in Phis(b)
    <3>1. Preds(c, q) = Preds(b, q)
      BY <1>4, <2>2
    <3>2. CASE q # b.cur
      BY <1>1, <2>1, <3>1, <3>2 DEF PhisOK
    <3>3. CASE q = b.cur
      BY <1>1, <2>1, <3>1, <3>3 DEF PhisOK
    <3> QED BY <3>2, <3>3
  <2>3. CASE q \notin Phis(b)
    BY <1>1, <1>8, <2>3 DEF PhisOK, Phis
  <2> QED BY <2>2, <2>3
<1>10. \A q \in DOMAIN c.blocks \ (W \ {next}) : q = c.cur \/ Closed(c, q)
  <2> SUFFICES ASSUME NEW q \in DOMAIN c.blocks, q \notin W, q # b.cur
               PROVE  Closed(c, q)
    BY <1>7
  <2>1. Closed(b, q)
    BY <1>1 DEF Shape
  <2> QED BY <1>1, <2>1 DEF Closed
<1>11. \A q \in W \ {next} : c.blocks[q] = <<>>
  BY <1>0, <1>1 DEF Shape
<1>12. Terminators(c.blocks[c.cur]) = {}
  BY <1>3 DEF Terminators
<1>13. Shape(c, W \ {next})
  BY <1>0, <1>1, <1>9, <1>10, <1>11, <1>12 DEF Shape
<1> QED BY <1>0, <1>1, <1>3, <1>4, <1>8, <1>13

\* A phi of the blocks that lead to the current one.
LEMMA PhiKeeps ==
  ASSUME NEW W, NEW b, Shape(b, W), b.blocks[b.cur] = <<>>,
         NEW instr \in Instruction, instr.op = "phi",
         IsInjective(instr.at), ToSet(instr.at) = Preds(b, b.cur),
         NEW c \in Builder, c.cur = b.cur, c.blocks = Insert(b, instr).blocks
  PROVE  /\ Shape(c, W) /\ DOMAIN c.blocks = DOMAIN b.blocks /\ Phis(c) = Phis(b) \cup {b.cur}
         /\ \A q : Preds(c, q) = Preds(b, q)
<1> DEFINE t == c.blocks[b.cur]
<1>0. b \in Builder /\ b.cur \in DOMAIN b.blocks
  BY DEF Shape
<1>1. /\ DOMAIN c.blocks = DOMAIN b.blocks
      /\ \A q \in DOMAIN b.blocks : q # b.cur => c.blocks[q] = b.blocks[q]
      /\ DOMAIN t = {1} /\ t[1] = instr
  <2>1. Len(b.blocks[b.cur]) = 0 /\ DOMAIN b.blocks[b.cur] = {}
    OBVIOUS
  <2>2. /\ DOMAIN c.blocks = DOMAIN b.blocks
        /\ \A q \in DOMAIN b.blocks : q # b.cur => c.blocks[q] = b.blocks[q]
        /\ DOMAIN t = DOMAIN b.blocks[b.cur] \cup {Len(b.blocks[b.cur]) + 1}
        /\ t[Len(b.blocks[b.cur]) + 1] = instr
    BY <1>0, Inserted
  <2> QED BY <2>1, <2>2
<1>2. ASSUME NEW q PROVE Preds(c, q) = Preds(b, q)
  BY <1>1 DEF Preds
<1>3. Terminators(t) = {}
  BY <1>1 DEF Terminators
<1>4. ASSUME NEW q \in DOMAIN b.blocks PROVE PhisOK(c, q)
  <2>1. PhisOK(b, q)
    BY DEF Shape
  <2>2. CASE q # b.cur
    BY <1>1, <1>2, <2>1, <2>2 DEF PhisOK
  <2>3. CASE q = b.cur
    BY <1>1, <1>2, <2>3 DEF PhisOK
  <2> QED BY <2>2, <2>3
<1>5. \A q \in W : c.blocks[q] = <<>>
  BY <1>1 DEF Shape
<1>6. \A q \in DOMAIN c.blocks \ W : q = c.cur \/ Closed(c, q)
  BY <1>1 DEF Shape, Closed
<1>7. Phis(c) = Phis(b) \cup {b.cur}
  BY <1>0, <1>1 DEF Phis
<1> QED BY <1>0, <1>1, <1>2, <1>3, <1>4, <1>5, <1>6, <1>7 DEF Shape

\* The return at the end of the last block.
LEMMA ReturnCloses ==
  ASSUME NEW b, Shape(b, {}), NEW instr \in Instruction, instr.op = "ret",
         NEW c \in Builder, c.cur = b.cur, c.blocks = Insert(b, instr).blocks,
         NEW q \in DOMAIN c.blocks
  PROVE  /\ c.blocks[q] # <<>> /\ Terminators(c.blocks[q]) = {Len(c.blocks[q])}
         /\ \A i \in DOMAIN c.blocks[q] :
              c.blocks[q][i].op = "phi" =>
                /\ i = 1 /\ IsInjective(c.blocks[q][i].at)
                /\ ToSet(c.blocks[q][i].at) =
                     {p \in DOMAIN c.blocks : q \in Successors(c.blocks[p])}
<1> DEFINE s == b.blocks[b.cur]
           t == c.blocks[b.cur]
<1>0. b \in Builder /\ b.cur \in DOMAIN b.blocks
  BY DEF Shape
<1>1. /\ DOMAIN c.blocks = DOMAIN b.blocks
      /\ \A p \in DOMAIN b.blocks : p # b.cur => c.blocks[p] = b.blocks[p]
      /\ Len(s) \in Nat /\ Len(t) = Len(s) + 1 /\ t # <<>>
      /\ DOMAIN s = 1..Len(s) /\ DOMAIN t = DOMAIN s \cup {Len(s) + 1}
      /\ \A i \in DOMAIN s : t[i] = s[i]
      /\ t[Len(s) + 1] = instr
  BY <1>0, Inserted
<1>2. Successors(t) = {}
  BY <1>1 DEF Successors, Last
<1>3. \A p \in DOMAIN b.blocks : p # b.cur => Closed(b, p)
  BY DEF Shape
<1>4. {p \in DOMAIN c.blocks : q \in Successors(c.blocks[p])} = Preds(b, q)
  BY <1>1, <1>2, <1>3 DEF Preds, Closed
<1>5. Terminators(s) = {}
  BY DEF Shape
<1>6. Terminators(t) = {Len(t)}
  <2>1. \A i \in DOMAIN t : t[i].op \in {"br", "condbr", "ret"} <=> i = Len(t)
    <3> SUFFICES ASSUME NEW i \in DOMAIN t PROVE t[i].op \in {"br", "condbr", "ret"} <=> i = Len(t)
      OBVIOUS
    <3>1. CASE i \in DOMAIN s
      <4>1. i # Len(t) /\ t[i] = s[i]
        BY <1>1, <3>1
      <4>2. s[i].op \notin {"br", "condbr", "ret"}
        BY <1>5, <3>1 DEF Terminators
      <4> QED BY <4>1, <4>2
    <3>2. CASE i = Len(s) + 1
      BY <1>1, <3>2
    <3> QED BY <1>1, <3>1, <3>2
  <2>2. Len(t) \in DOMAIN t
    BY <1>1
  <2> QED BY <2>1, <2>2 DEF Terminators
<1>7. PhisOK(b, q)
  BY <1>1 DEF Shape
<1>8. CASE q = b.cur
  BY <1>1, <1>4, <1>6, <1>7, <1>8 DEF PhisOK
<1>9. CASE q # b.cur
  BY <1>1, <1>3, <1>4, <1>7, <1>9 DEF PhisOK, Closed
<1> QED BY <1>8, <1>9

-----------------------------------------------------------------------------
(* The blocks that the activations hold.                                   *)

Alike(f, g) == g.node = f.node /\ g.blocks = f.blocks /\ g.from = f.from

\* An activation without blocks makes no difference.
LEMMA SameBlocks ==
  ASSUME NEW b, NEW fs, NEW gs, Blocks(b, fs),
         \A k \in DOMAIN gs : gs[k].blocks = <<>> \/ (k \in DOMAIN fs /\ Alike(fs[k], gs[k])),
         \A k \in DOMAIN fs : fs[k].blocks = <<>> \/ (k \in DOMAIN gs /\ Alike(fs[k], gs[k]))
  PROVE  Blocks(b, gs)
<1>1. ASSUME NEW f, f.blocks = <<>> PROVE Held(f) = {} /\ Waits(f) = {} /\ HeldOK(b, f)
  <2>1. Held(f) = {}
    BY <1>1 DEF Held, ToSet
  <2>2. IsInjective(f.blocks)
    BY <1>1 DEF IsInjective
  <2> QED BY <1>1, <2>1, <2>2 DEF Waits, HeldOK
<1>2. ASSUME NEW f, NEW g, Alike(f, g)
      PROVE  Held(g) = Held(f) /\ Waits(g) = Waits(f) /\ (HeldOK(b, f) => HeldOK(b, g))
  BY <1>2 DEF Alike, Held, Waits, HeldOK
<1>3. Awaited(gs) = Awaited(fs)
  <2>1. ASSUME NEW k \in DOMAIN gs PROVE Waits(gs[k]) \subseteq Awaited(fs)
    BY <1>1, <1>2, <2>1 DEF Awaited
  <2>2. ASSUME NEW k \in DOMAIN fs PROVE Waits(fs[k]) \subseteq Awaited(gs)
    BY <1>1, <1>2, <2>2 DEF Awaited
  <2> QED BY <2>1, <2>2 DEF Awaited
<1>4. ASSUME NEW k \in DOMAIN gs PROVE HeldOK(b, gs[k])
  BY <1>1, <1>2, <1>4 DEF Blocks
<1>5. ASSUME NEW k \in DOMAIN gs, NEW l \in DOMAIN gs, k # l
      PROVE  Held(gs[k]) \cap Held(gs[l]) = {}
  BY <1>1, <1>2, <1>5 DEF Blocks
<1> QED BY <1>3, <1>4, <1>5 DEF Blocks

\* fs with g on top is gs.
Turned(fs, gs, g) ==
  DOMAIN gs = DOMAIN fs /\ \A k \in DOMAIN fs : gs[k] = IF k = Len(fs) THEN g ELSE fs[k]

\* From b to c, the blocks that the activations below hold stay as they are.
Apart(b, c, fs, g) ==
  \A k \in 1..(Len(fs) - 1) : \A q \in Held(fs[k]) :
    q \notin Phis(c) /\ Preds(c, q) = Preds(b, q) /\ q \notin Held(g)

\* The activation on top changes and so do the blocks, those that the others hold apart.
LEMMA TopChanges ==
  ASSUME NEW b, NEW c, NEW fs, fs \in Seq(FrameType), fs # <<>>,
         NEW g, Blocks(b, fs), NEW gs, Turned(fs, gs, g),
         Shape(c, (Awaited(fs) \ Waits(fs[Len(fs)])) \cup Waits(g)),
         DOMAIN b.blocks \subseteq DOMAIN c.blocks, Apart(b, c, fs, g), HeldOK(c, g)
  PROVE  Blocks(c, gs)
<1> USE DEF Turned, Apart
<1> DEFINE n == Len(fs)
<1>1. n \in Nat /\ n > 0 /\ DOMAIN fs = 1..n
  OBVIOUS
<1> HIDE DEF n
<1>2. \A k, l \in DOMAIN fs : k # l => Held(fs[k]) \cap Held(fs[l]) = {}
  BY DEF Blocks
<1>3. Awaited(gs) = (Awaited(fs) \ Waits(fs[n])) \cup Waits(g)
  <2>1. \A k \in DOMAIN fs : k # n => Waits(fs[k]) \cap Waits(fs[n]) = {}
    BY <1>1, <1>2 DEF Waits
  <2>2. \A k \in DOMAIN fs : gs[k] = IF k = n THEN g ELSE fs[k]
    BY DEF n
  <2>3. n \in DOMAIN fs
    BY <1>1
  <2> QED BY <2>1, <2>2, <2>3 DEF Awaited
<1>4. ASSUME NEW k \in DOMAIN fs, k # n PROVE HeldOK(c, fs[k])
  <2>1. HeldOK(b, fs[k])
    BY DEF Blocks
  <2>2. \A q \in Held(fs[k]) : q \notin Phis(c) /\ Preds(c, q) = Preds(b, q)
    BY <1>1, <1>4 DEF n
  <2>3. fs[k].blocks # <<>> => Last(fs[k].blocks) \in Held(fs[k])
    <3>1. fs[k].blocks \in Seq(Nat)
      <4>1. fs[k] \in FrameType
        BY <1>1
      <4> QED BY <4>1 DEF FrameType
    <3>2. fs[k].blocks # <<>> => Len(fs[k].blocks) \in DOMAIN fs[k].blocks
      BY <3>1
    <3> QED BY <3>2 DEF Held, ToSet, Last
  <2> QED BY <2>1, <2>2, <2>3 DEF HeldOK
<1>5. \A k \in DOMAIN gs : HeldOK(c, gs[k])
  BY <1>1, <1>4 DEF n
<1>6. ASSUME NEW k \in DOMAIN fs, NEW l \in DOMAIN fs, k # l
      PROVE  Held(gs[k]) \cap Held(gs[l]) = {}
  <2>1. ASSUME NEW i \in DOMAIN fs, i # n PROVE Held(g) \cap Held(fs[i]) = {} /\ gs[i] = fs[i]
    BY <1>1, <2>1 DEF n
  <2>2. gs[n] = g
    BY <1>1 DEF n
  <2>3. CASE k = n
    BY <1>6, <2>1, <2>2, <2>3
  <2>4. CASE l = n
    BY <1>6, <2>1, <2>2, <2>4
  <2>5. CASE k # n /\ l # n
    BY <1>2, <1>6, <2>1, <2>5
  <2> QED BY <2>3, <2>4, <2>5
<1> QED BY <1>3, <1>5, <1>6 DEF Blocks, n

\* The blocks change in nothing that the activations see.
LEMMA LikeKeeps ==
  ASSUME NEW b, NEW c, NEW fs, Blocks(b, fs), Shape(c, Awaited(fs)),
         DOMAIN b.blocks \subseteq DOMAIN c.blocks, Phis(c) = Phis(b), \A q : Preds(c, q) = Preds(b, q)
  PROVE  Blocks(c, fs)
<1>1. ASSUME NEW k \in DOMAIN fs PROVE HeldOK(c, fs[k])
  <2>1. HeldOK(b, fs[k])
    BY DEF Blocks
  <2> QED BY <2>1 DEF HeldOK
<1> QED BY <1>1 DEF Blocks

-----------------------------------------------------------------------------
(* Activations.                                                            *)

LEMMA TopIs ==
  ASSUME FramesOK
  PROVE  /\ Len(frames) \in Nat /\ Len(frames) > 0 /\ DOMAIN frames = 1..Len(frames)
         /\ Top = frames[Len(frames)] /\ Top \in FrameType /\ LocalsOK(Top)
         /\ Len(Top.vals) = Place(Top.node, Top.part)
         /\ Top.node \in Expr /\ Top.part \in Nat /\ Top.vals \in Seq(IRValue)
         /\ Top.blocks \in Seq(Nat) /\ Top.from \in Seq(Nat) /\ Top.variable \in Nat
         /\ Top.old \in Seq(Nat)
         /\ \A k \in DOMAIN frames : frames[k] \in FrameType
<1>1. frames \in Seq(FrameType) /\ frames # <<>>
  BY DEF FramesOK
<1>2. Len(frames) \in Nat /\ Len(frames) > 0 /\ DOMAIN frames = 1..Len(frames)
  BY <1>1
<1>3. \A k \in DOMAIN frames : frames[k] \in FrameType
  BY <1>1
<1>4. Top = frames[Len(frames)] /\ Len(frames) \in DOMAIN frames
  BY <1>2 DEF Top
<1>5. Top \in FrameType /\ LocalsOK(Top) /\ Len(Top.vals) = Place(Top.node, Top.part)
  BY <1>3, <1>4 DEF FramesOK
<1> QED BY <1>2, <1>3, <1>4, <1>5 DEF FrameType

\* The function is at the bottom and nowhere else.
LEMMA BottomIs ==
  ASSUME FramesOK, fn.body \in Bodies, NEW k \in DOMAIN frames
  PROVE  /\ k = 1 <=> frames[k].node = Function(fn.body)
         /\ k = 1 <=> frames[k].node.type = "function"
         /\ k # 1 => frames[k].node \in Nodes(fn.body)
<1>1. frames[1].node = Function(fn.body)
  BY DEF FramesOK
<1>2. k # 1 => frames[k].node \in Nodes(fn.body)
  BY DEF FramesOK
<1>3. Function(fn.body).type = "function"
  BY FunctionIs
<1>4. k # 1 => frames[k].node # Function(fn.body) /\ frames[k].node.type # "function"
  BY <1>2, <1>3, NodeShape
<1> QED BY <1>1, <1>2, <1>3, <1>4

LEMMA PartIs ==
  ASSUME NEW f \in FrameType, NEW i \in Nat
  PROVE  LET g == [f EXCEPT !.part = i]
         IN  /\ g \in FrameType /\ g.node = f.node /\ g.part = i /\ g.vals = f.vals
             /\ g.blocks = f.blocks /\ g.from = f.from /\ g.variable = f.variable /\ g.old = f.old
BY DEF FrameType

LEMMA ActivationIs ==
  ASSUME NEW node \in Expr
  PROVE  LET g == Activation(node)
         IN  /\ g \in FrameType /\ g.node = node /\ g.part = 0 /\ g.vals = <<>>
             /\ g.blocks = <<>> /\ g.from = <<>> /\ g.variable = 0 /\ g.old = <<>>
BY DEF FrameType, Activation

LEMMA Unstarted ==
  ASSUME NEW node, node.type # "function"
  PROVE  /\ LocalsOK(Activation(node)) /\ Place(node, 0) = 0
<1>1. /\ Activation(node).node = node /\ Activation(node).part = 0
      /\ Activation(node).old = <<>> /\ Activation(node).blocks = <<>>
      /\ Activation(node).from = <<>>
  BY DEF Activation
<1>2. Place(node, 0) = 0
  BY DEF Place
<1>3. LocalsOK(Activation(node))
  BY <1>1 DEF LocalsOK
<1> QED BY <1>2, <1>3

LEMMA VisitIs ==
  ASSUME FramesOK, fn.body \in Bodies, NEW f \in FrameType, f.node = Top.node,
         NEW i \in Parts(f.node), Visit(f, i)
  PROVE  /\ frames' \in Seq(FrameType) /\ Len(frames') = Len(frames) + 1
         /\ DOMAIN frames' = 1..(Len(frames) + 1)
         /\ \A k \in 1..(Len(frames) - 1) : frames'[k] = frames[k]
         /\ frames'[Len(frames)] = [f EXCEPT !.part = i]
         /\ frames'[Len(frames) + 1] = Activation(f.node.of[i])
         /\ f.node.of[i] \in Nodes(fn.body) /\ i \in Nat
<1>1. frames \in Seq(FrameType) /\ Len(frames) \in Nat /\ Len(frames) > 0 /\ f.node \in Expr
  BY TopIs DEF FramesOK
<1>2. i \in Nat /\ f.node.of[i] \in Nodes(fn.body)
  BY <1>1, NodeShape DEF Expr
<1> DEFINE g == [f EXCEPT !.part = i]
           h == Activation(f.node.of[i])
           fs == [frames EXCEPT ![Len(frames)] = g]
<1>3. g \in FrameType
  BY <1>2, PartIs
<1>4. h \in FrameType
  BY <1>2, ActivationIs DEF Expr
<1>5. frames' = Append(fs, h)
  BY DEF Visit
<1> HIDE DEF g, h
<1>6. /\ fs \in Seq(FrameType) /\ Len(fs) = Len(frames) /\ fs[Len(frames)] = g
      /\ \A k \in 1..(Len(frames) - 1) : fs[k] = frames[k]
  BY <1>1, <1>3
<1> HIDE DEF fs
<1>7. /\ Append(fs, h) \in Seq(FrameType) /\ Len(Append(fs, h)) = Len(frames) + 1
      /\ DOMAIN Append(fs, h) = 1..(Len(frames) + 1)
      /\ \A k \in 1..Len(frames) : Append(fs, h)[k] = fs[k]
      /\ Append(fs, h)[Len(frames) + 1] = h
  BY <1>1, <1>4, <1>6
<1>8. Len(frames) \in 1..Len(frames) /\ \A k \in 1..(Len(frames) - 1) : k \in 1..Len(frames)
  BY <1>1
<1> QED BY <1>2, <1>5, <1>6, <1>7, <1>8 DEF g, h

LEMMA VisitKeeps ==
  ASSUME FramesOK, fn.body \in Bodies, UNCHANGED fn, NEW f \in FrameType, f.node = Top.node,
         NEW i \in Parts(f.node), Visit(f, i),
         LocalsOK([f EXCEPT !.part = i]), Len(f.vals) = Place(f.node, i) - 1
  PROVE  FramesOK'
<1> DEFINE n == Len(frames)
           g == [f EXCEPT !.part = i]
           h == Activation(f.node.of[i])
<1>1. /\ frames' \in Seq(FrameType) /\ Len(frames') = n + 1
      /\ DOMAIN frames' = 1..(n + 1)
      /\ \A k \in 1..(n - 1) : frames'[k] = frames[k]
      /\ frames'[n] = g /\ frames'[n + 1] = h
      /\ f.node.of[i] \in Nodes(fn.body) /\ i \in Nat
  BY VisitIs
<1>2. n \in Nat /\ n > 0 /\ DOMAIN frames = 1..n /\ Top = frames[n]
  BY TopIs
<1>3. g.node = f.node /\ g.part = i /\ g.vals = f.vals
  BY <1>1, PartIs
<1>4. f.node.of[i] \in Expr /\ f.node.of[i].type # "function"
  BY <1>1, NodeShape DEF Expr
<1>5. h.node = f.node.of[i] /\ h.part = 0 /\ h.vals = <<>>
  BY <1>4, ActivationIs
<1>6. LocalsOK(h) /\ Place(h.node, h.part) = 0
  BY <1>4, <1>5, Unstarted
<1> HIDE DEF n, g, h
<1>7. frames'[1].node = Function(fn.body)
  <2>1. CASE n = 1
    BY <1>1, <1>2, <1>3, <2>1 DEF FramesOK
  <2>2. CASE n > 1
    BY <1>1, <1>2, <2>2 DEF FramesOK
  <2> QED BY <1>2, <2>1, <2>2
<1>8. ASSUME NEW k \in DOMAIN frames'
      PROVE  /\ LocalsOK(frames'[k])
             /\ Len(frames'[k].vals) = IF k = n + 1 THEN Place(frames'[k].node, frames'[k].part)
                                       ELSE Place(frames'[k].node, frames'[k].part) - 1
  <2>1. CASE k = n + 1
    BY <1>1, <1>5, <1>6, <2>1
  <2>2. CASE k = n
    <3>1. LocalsOK(g) /\ Len(g.vals) = Place(g.node, g.part) - 1
      BY <1>3 DEF g
    <3> QED BY <1>1, <1>2, <2>2, <3>1
  <2>3. CASE k \in 1..(n - 1)
    <3>1. /\ LocalsOK(frames[k])
          /\ Len(frames[k].vals) = Place(frames[k].node, frames[k].part) - 1
      BY <1>2, <2>3 DEF FramesOK, n
    <3> QED BY <1>1, <1>2, <2>3, <3>1
  <2> QED BY <1>1, <1>2, <2>1, <2>2, <2>3
<1>9. ASSUME NEW k \in DOMAIN frames' \ {1}
      PROVE  /\ frames'[k].node \in Nodes(fn.body)
             /\ frames'[k - 1].part \in Parts(frames'[k - 1].node)
             /\ frames'[k].node = frames'[k - 1].node.of[frames'[k - 1].part]
  <2>1. CASE k = n + 1
    BY <1>1, <1>2, <1>3, <1>5, <2>1
  <2>2. CASE k = n
    <3>1. /\ frames[k].node \in Nodes(fn.body)
          /\ frames[k - 1].part \in Parts(frames[k - 1].node)
          /\ frames[k].node = frames[k - 1].node.of[frames[k - 1].part]
      BY <1>2, <1>9, <2>2 DEF FramesOK
    <3>2. frames'[k - 1] = frames[k - 1] /\ frames'[k].node = frames[k].node
      BY <1>1, <1>2, <1>3, <1>9, <2>2
    <3> QED BY <3>1, <3>2
  <2>3. CASE k \in 1..(n - 1)
    <3>1. /\ frames[k].node \in Nodes(fn.body)
          /\ frames[k - 1].part \in Parts(frames[k - 1].node)
          /\ frames[k].node = frames[k - 1].node.of[frames[k - 1].part]
      BY <1>2, <1>9, <2>3 DEF FramesOK
    <3>2. frames'[k - 1] = frames[k - 1] /\ frames'[k] = frames[k]
      BY <1>1, <1>2, <1>9, <2>3
    <3> QED BY <3>1, <3>2
  <2> QED BY <1>1, <1>2, <2>1, <2>2, <2>3
<1>10. frames' # <<>> /\ frames' \in Seq(FrameType)'
  BY <1>1, <1>2 DEF FrameType, Expr
<1> QED BY <1>1, <1>7, <1>8, <1>9, <1>10 DEF FramesOK, Expr

LEMMA PlaceIs ==
  ASSUME NEW node, NEW i \in Int
  PROVE  Place(node, i) \in Int
<1>1. (i + 1) \div 2 \in Int /\ 3 - i \in Int
  OBVIOUS
<1>2. i \in 1..4 => <<1, 4, 3, 2>>[i] \in Int
  OBVIOUS
<1> QED BY <1>1, <1>2 DEF Place

LEMMA LocalsAlike ==
  ASSUME NEW f, NEW g, LocalsOK(f), g.node = f.node, g.part = f.part, g.old = f.old,
         g.blocks = f.blocks, g.from = f.from
  PROVE  LocalsOK(g)
BY DEF LocalsOK

LEMMA ValsIs ==
  ASSUME NEW f \in FrameType, NEW v \in IRValue
  PROVE  LET g == [f EXCEPT !.vals = Append(@, v)]
         IN  /\ g \in FrameType /\ g.node = f.node /\ g.part = f.part /\ g.vals = Append(f.vals, v)
             /\ g.blocks = f.blocks /\ g.from = f.from /\ g.variable = f.variable /\ g.old = f.old
             /\ Len(g.vals) = Len(f.vals) + 1 /\ Len(f.vals) \in Nat
             /\ ToSet(g.vals) = ToSet(f.vals) \cup {v}
<1>1. f.vals \in Seq(IRValue)
  BY DEF FrameType
<1> DEFINE t == Append(f.vals, v)
<1>2. t \in Seq(IRValue) /\ Len(t) = Len(f.vals) + 1 /\ ToSet(t) = ToSet(f.vals) \cup {v} /\ Len(f.vals) \in Nat
  BY <1>1, AppendSeq
<1> HIDE DEF t
<1>3. LET g == [f EXCEPT !.vals = t]
      IN  /\ g \in FrameType /\ g.node = f.node /\ g.part = f.part /\ g.vals = t
          /\ g.blocks = f.blocks /\ g.from = f.from /\ g.variable = f.variable /\ g.old = f.old
  BY <1>2 DEF FrameType
<1> QED BY <1>2, <1>3 DEF t

\* A part that is left out.
LEMMA DefaultIs ==
  ASSUME FramesOK, NEW f \in FrameType, NEW i \in Nat, f.node.of[i] = Absent,
         NEW default \in Int, VisitOr(f, i, default)
  PROVE  LET g == frames'[Len(frames)]
         IN  /\ frames' \in Seq(FrameType) /\ Len(frames') = Len(frames)
             /\ DOMAIN frames' = DOMAIN frames
             /\ \A k \in 1..(Len(frames) - 1) : frames'[k] = frames[k]
             /\ g \in FrameType /\ g.node = f.node /\ g.part = i
             /\ g.vals = Append(f.vals, Const(default))
             /\ g.blocks = f.blocks /\ g.from = f.from /\ g.variable = f.variable /\ g.old = f.old
             /\ Len(g.vals) = Len(f.vals) + 1 /\ ToSet(g.vals) = ToSet(f.vals) \cup {Const(default)}
<1>1. frames \in Seq(FrameType) /\ Len(frames) \in Nat /\ Len(frames) > 0
  BY TopIs DEF FramesOK
<1> DEFINE h == [f EXCEPT !.part = i]
           g == [h EXCEPT !.vals = Append(@, Const(default))]
<1>2. /\ h \in FrameType /\ h.node = f.node /\ h.part = i /\ h.vals = f.vals
      /\ h.blocks = f.blocks /\ h.from = f.from /\ h.variable = f.variable /\ h.old = f.old
  BY PartIs
<1>3. Const(default) \in IRValue
  BY ConstIs
<1>4. frames' = [frames EXCEPT ![Len(frames)] = g]
  BY <1>2 DEF VisitOr
<1> HIDE DEF h
<1>5. /\ g \in FrameType /\ g.node = h.node /\ g.part = h.part /\ g.vals = Append(h.vals, Const(default))
      /\ g.blocks = h.blocks /\ g.from = h.from /\ g.variable = h.variable /\ g.old = h.old
      /\ Len(g.vals) = Len(h.vals) + 1 /\ ToSet(g.vals) = ToSet(h.vals) \cup {Const(default)}
  BY <1>2, <1>3, ValsIs
<1> HIDE DEF g
<1>6. /\ frames' \in Seq(FrameType) /\ Len(frames') = Len(frames)
      /\ DOMAIN frames' = DOMAIN frames
      /\ \A k \in 1..(Len(frames) - 1) : frames'[k] = frames[k]
      /\ frames'[Len(frames)] = g
  BY <1>1, <1>4, <1>5
<1> QED BY <1>2, <1>5, <1>6

LEMMA DefaultKeeps ==
  ASSUME FramesOK, UNCHANGED fn, NEW f \in FrameType, f.node = Top.node,
         NEW i \in Nat, f.node.of[i] = Absent, NEW default \in Int, VisitOr(f, i, default),
         LocalsOK([f EXCEPT !.part = i]), Len(f.vals) = Place(f.node, i) - 1
  PROVE  FramesOK'
<1> DEFINE n == Len(frames)
           g == frames'[n]
           h == [f EXCEPT !.part = i]
<1>1. /\ frames' \in Seq(FrameType) /\ Len(frames') = n
      /\ DOMAIN frames' = DOMAIN frames
      /\ \A k \in 1..(n - 1) : frames'[k] = frames[k]
      /\ g.node = f.node /\ g.part = i
      /\ g.blocks = f.blocks /\ g.from = f.from /\ g.old = f.old
      /\ Len(g.vals) = Len(f.vals) + 1
  BY DefaultIs
<1>2. n \in Nat /\ n > 0 /\ DOMAIN frames = 1..n /\ Top = frames[n]
  BY TopIs
<1>3. h.node = f.node /\ h.part = i /\ h.blocks = f.blocks /\ h.from = f.from /\ h.old = f.old
  BY PartIs
<1>4. LocalsOK(g)
  BY <1>1, <1>3, LocalsAlike
<1>5. Len(g.vals) = Place(g.node, g.part)
  <2>1. Len(f.vals) \in Nat
    BY DEF FrameType
  <2>2. Place(f.node, i) \in Int
    BY PlaceIs
  <2> HIDE DEF g
  <2> QED BY <1>1, <2>1, <2>2
<1> HIDE DEF n, g
<1>6. frames'[1].node = Function(fn.body)
  BY <1>1, <1>2 DEF FramesOK, g
<1>7. ASSUME NEW k \in DOMAIN frames'
      PROVE  /\ LocalsOK(frames'[k])
             /\ Len(frames'[k].vals) = IF k = n THEN Place(frames'[k].node, frames'[k].part)
                                       ELSE Place(frames'[k].node, frames'[k].part) - 1
  <2>1. CASE k = n
    BY <1>4, <1>5, <2>1 DEF g
  <2>2. CASE k \in 1..(n - 1)
    <3>1. /\ LocalsOK(frames[k])
          /\ Len(frames[k].vals) = Place(frames[k].node, frames[k].part) - 1
      BY <1>2, <2>2 DEF FramesOK, n
    <3> QED BY <1>1, <1>2, <2>2, <3>1
  <2> QED BY <1>1, <1>2, <2>1, <2>2
<1>8. ASSUME NEW k \in DOMAIN frames' \ {1}
      PROVE  /\ frames'[k].node \in Nodes(fn.body)
             /\ frames'[k - 1].part \in Parts(frames'[k - 1].node)
             /\ frames'[k].node = frames'[k - 1].node.of[frames'[k - 1].part]
  <2>1. /\ frames[k].node \in Nodes(fn.body)
        /\ frames[k - 1].part \in Parts(frames[k - 1].node)
        /\ frames[k].node = frames[k - 1].node.of[frames[k - 1].part]
    BY <1>1, <1>8 DEF FramesOK
  <2>2. frames'[k - 1] = frames[k - 1] /\ frames'[k].node = frames[k].node
    BY <1>1, <1>2, <1>8 DEF g
  <2> QED BY <2>1, <2>2
<1>9. frames' # <<>> /\ frames' \in Seq(FrameType)'
  BY <1>1, <1>2 DEF FrameType, Expr
<1> QED BY <1>1, <1>6, <1>7, <1>8, <1>9 DEF FramesOK, Expr

\* A method returns to the one below.
LEMMA GivesIs ==
  ASSUME FramesOK, fn.body \in Bodies, Top.node.type # "function", NEW v \in IRValue, Gives(v)
  PROVE  LET n == Len(frames)
             f == frames[n - 1]
             g == frames'[n - 1]
         IN  /\ n > 1 /\ frames' \in Seq(FrameType) /\ Len(frames') = n - 1
             /\ DOMAIN frames' = 1..(n - 1)
             /\ \A k \in 1..(n - 2) : frames'[k] = frames[k]
             /\ f \in FrameType
             /\ g \in FrameType /\ g.node = f.node /\ g.part = f.part /\ g.vals = Append(f.vals, v)
             /\ g.blocks = f.blocks /\ g.from = f.from /\ g.variable = f.variable /\ g.old = f.old
             /\ Len(g.vals) = Len(f.vals) + 1 /\ Len(f.vals) \in Nat
             /\ ToSet(g.vals) = ToSet(f.vals) \cup {v}
<1> DEFINE n == Len(frames)
           f == frames[n - 1]
           g == [f EXCEPT !.vals = Append(@, v)]
           r == SubSeq(frames, 1, n - 1)
<1>1. frames \in Seq(FrameType) /\ n \in Nat /\ n > 0 /\ DOMAIN frames = 1..n /\ Top = frames[n]
  BY TopIs DEF FramesOK
<1>2. n > 1
  BY <1>1, BottomIs
<1>3. f \in FrameType
  BY <1>1, <1>2
<1>4. r \in Seq(FrameType) /\ Len(r) = n - 1 /\ DOMAIN r = 1..(n - 1) /\ r[n - 1] = f
  BY <1>1, <1>2
<1>5. frames' = [r EXCEPT ![n - 1] = g]
  <2>1. frames' = [r EXCEPT ![n - 1] = [r[n - 1] EXCEPT !.vals = Append(r[n - 1].vals, v)]]
    BY <1>4 DEF Gives
  <2>2. g = [f EXCEPT !.vals = Append(f.vals, v)]
    OBVIOUS
  <2> HIDE DEF r, g, f
  <2> QED BY <1>4, <2>1, <2>2
<1> HIDE DEF f
<1>6. /\ g \in FrameType /\ g.node = f.node /\ g.part = f.part /\ g.vals = Append(f.vals, v)
      /\ g.blocks = f.blocks /\ g.from = f.from /\ g.variable = f.variable /\ g.old = f.old
      /\ Len(g.vals) = Len(f.vals) + 1 /\ Len(f.vals) \in Nat
      /\ ToSet(g.vals) = ToSet(f.vals) \cup {v}
  BY <1>3, ValsIs
<1> HIDE DEF g
<1>7. LET t == [SubSeq(frames, 1, Len(frames) - 1) EXCEPT ![Len(frames) - 1] = g]
      IN  /\ t \in Seq(FrameType) /\ Len(t) = Len(frames) - 1
          /\ \A j \in 1..(Len(frames) - 2) : t[j] = frames[j]
          /\ t[Len(frames) - 1] = g
  <2>1. Len(frames) > 1 /\ frames \in Seq(FrameType) /\ g \in FrameType
    BY <1>1, <1>2, <1>6
  <2> HIDE DEF n
  <2> QED BY <2>1, FrontExcept
<1>8. /\ frames' \in Seq(FrameType) /\ Len(frames') = n - 1
      /\ \A j \in 1..(n - 2) : frames'[j] = frames[j]
      /\ frames'[n - 1] = g
  BY <1>5, <1>7
<1>9. DOMAIN frames' = 1..(n - 1)
  BY <1>8
<1> QED BY <1>2, <1>3, <1>6, <1>8, <1>9 DEF f

LEMMA GivesKeeps ==
  ASSUME FramesOK, fn.body \in Bodies, UNCHANGED fn, Top.node.type # "function",
         NEW v \in IRValue, Gives(v)
  PROVE  FramesOK'
<1> DEFINE n == Len(frames)
           f == frames[n - 1]
           g == frames'[n - 1]
<1>1. /\ n > 1 /\ frames' \in Seq(FrameType) /\ Len(frames') = n - 1
      /\ DOMAIN frames' = 1..(n - 1)
      /\ \A k \in 1..(n - 2) : frames'[k] = frames[k]
      /\ g.node = f.node /\ g.part = f.part
      /\ g.blocks = f.blocks /\ g.from = f.from /\ g.old = f.old
      /\ Len(g.vals) = Len(f.vals) + 1 /\ Len(f.vals) \in Nat
  BY GivesIs
<1>2. n \in Nat /\ DOMAIN frames = 1..n
  BY TopIs
<1>3. ASSUME NEW k \in 1..(n - 1)
      PROVE  frames'[k].node = frames[k].node /\ frames'[k].part = frames[k].part
  <2>1. CASE k = n - 1
    BY <1>1, <2>1
  <2>2. CASE k \in 1..(n - 2)
    BY <1>1, <2>2
  <2> QED BY <1>1, <1>2, <2>1, <2>2
<1>4. /\ LocalsOK(f) /\ Len(f.vals) = Place(f.node, f.part) - 1
  BY <1>1, <1>2 DEF FramesOK
<1>5. LocalsOK(g) /\ Len(g.vals) = Place(g.node, g.part)
  <2>1. LocalsOK(g)
    BY <1>1, <1>4, LocalsAlike
  <2>2. Place(f.node, f.part) \in Int
    <3>1. f \in FrameType
      BY GivesIs
    <3> QED BY <3>1, PlaceIs DEF FrameType
  <2> HIDE DEF f, g, n
  <2> QED BY <1>1, <1>4, <2>1, <2>2
<1> HIDE DEF n, g, f
<1>6. frames'[1].node = Function(fn.body)
  BY <1>1, <1>2, <1>3 DEF FramesOK
<1>7. ASSUME NEW k \in DOMAIN frames'
      PROVE  /\ LocalsOK(frames'[k])
             /\ Len(frames'[k].vals) = IF k = n - 1 THEN Place(frames'[k].node, frames'[k].part)
                                       ELSE Place(frames'[k].node, frames'[k].part) - 1
  <2>1. CASE k = n - 1
    BY <1>5, <2>1 DEF g
  <2>2. CASE k \in 1..(n - 2)
    <3>1. /\ LocalsOK(frames[k])
          /\ Len(frames[k].vals) = Place(frames[k].node, frames[k].part) - 1
      BY <1>2, <2>2 DEF FramesOK, n
    <3> QED BY <1>1, <1>2, <2>2, <3>1
  <2> QED BY <1>1, <1>2, <2>1, <2>2
<1>8. ASSUME NEW k \in DOMAIN frames' \ {1}
      PROVE  /\ frames'[k].node \in Nodes(fn.body)
             /\ frames'[k - 1].part \in Parts(frames'[k - 1].node)
             /\ frames'[k].node = frames'[k - 1].node.of[frames'[k - 1].part]
  <2>1. /\ frames[k].node \in Nodes(fn.body)
        /\ frames[k - 1].part \in Parts(frames[k - 1].node)
        /\ frames[k].node = frames[k - 1].node.of[frames[k - 1].part]
    BY <1>1, <1>2, <1>8 DEF FramesOK
  <2>2. k \in 1..(n - 1) /\ k - 1 \in 1..(n - 1)
    BY <1>1, <1>2, <1>8
  <2> QED BY <1>3, <2>1, <2>2
<1>9. frames' # <<>> /\ frames' \in Seq(FrameType)'
  BY <1>1, <1>2 DEF FrameType, Expr
<1> QED BY <1>1, <1>6, <1>7, <1>8, <1>9 DEF FramesOK, Expr

-----------------------------------------------------------------------------
(* The parts of a node.                                                    *)

LEMMA OddHalf ==
  ASSUME NEW L \in Nat, L % 2 = 1, NEW i \in 1..(L \div 2)
  PROVE  2 * i - 1 \in 1..L /\ 2 * i - 1 < L /\ (2 * i - 1) % 2 = 1
         /\ 2 * i \in 1..L /\ 2 * i < L /\ (2 * i) % 2 = 0
OBVIOUS

LEMMA NodeKinds ==
  ASSUME NEW body \in Bodies, NEW n \in Nodes(body)
  PROVE  /\ n.type \in {"call", "unary", "binary", "if"} => Parts(n) = 1..Len(n.of)
         /\ n.type \in {"number", "variable"} => Len(n.of) = 0
         /\ n.type = "number" => n.name \in DOMAIN Val
         /\ n.type = "variable" => n.name \in Name
         /\ n.type = "unary" => Len(n.of) = 1
         /\ n.type = "binary" => Len(n.of) = 2
         /\ n.type = "binary" /\ n.name = "=" => n.of[1].type = "variable" /\ n.of[1].name \in Name
         /\ n.type = "if" => Len(n.of) = 3
         /\ n.type = "for" =>
              /\ Len(n.of) = 4 /\ n.name \in Name /\ {1, 2, 4} \subseteq Parts(n)
              /\ 3 \in Parts(n) \/ n.of[3] = Absent
         /\ n.type = "var" =>
              /\ Len(n.of) % 2 = 1 /\ Len(n.of) > 1 /\ Len(n.of) \in Parts(n)
              /\ \A i \in 1..Len(n.of) : i % 2 = 0 => i \in Parts(n) \/ n.of[i] = Absent
              /\ \A i \in 1..Len(n.of) : i % 2 = 1 /\ i < Len(n.of) =>
                   i \notin Parts(n) /\ n.of[i].name \in Name
         /\ n.name \in Label
<1>1. IsNode(body, n) /\ Len(n.of) \in Nat /\ DOMAIN n.of = 1..Len(n.of) /\ Parts(n) \subseteq 1..Len(n.of)
      /\ \A i \in Parts(n) : n.of[i] \in Nodes(body)
  BY NodesAssumption, NodeShape
<1>2. n.type \in {"call", "unary", "binary", "if"} => Parts(n) = 1..Len(n.of)
  BY <1>1 DEF IsNode
<1>3. /\ n.type \in {"number", "variable"} => Len(n.of) = 0
      /\ n.type = "number" => n.name \in DOMAIN Val
      /\ n.type = "variable" => n.name \in Name
      /\ n.type = "unary" => Len(n.of) = 1
      /\ n.type = "binary" => Len(n.of) = 2
      /\ n.type = "if" => Len(n.of) = 3
      /\ n.type = "for" => Len(n.of) = 4 /\ n.name \in Name
      /\ n.type = "var" => Len(n.of) % 2 = 1 /\ Len(n.of) > 1 /\ \A i \in Parts(n) : i = Len(n.of) \/ i % 2 = 0
      /\ n.type = "binary" /\ n.name = "=" => n.of[1].type = "variable"
  BY <1>1 DEF IsNode
<1>4. ASSUME n.type = "binary", n.name = "=" PROVE n.of[1].name \in Name
  <2>1. n.of[1] \in Nodes(body) /\ n.of[1].type = "variable"
    BY <1>1, <1>2, <1>3, <1>4
  <2>2. IsNode(body, n.of[1])
    BY <2>1, NodesAssumption
  <2> QED BY <2>1, <2>2 DEF IsNode
<1>5. ASSUME n.type = "for"
      PROVE  {1, 2, 4} \subseteq Parts(n) /\ (3 \in Parts(n) \/ n.of[3] = Absent)
  <2>1. \A i \in DOMAIN n.of \ Parts(n) : i = 3 /\ n.of[i] = Absent
    BY <1>1, <1>5 DEF IsNode
  <2>2. DOMAIN n.of = 1..4
    BY <1>1, <1>3, <1>5
  <2> QED BY <2>1, <2>2
<1>6. ASSUME n.type = "var", NEW i \in 1..Len(n.of)
      PROVE  /\ i = Len(n.of) => i \in Parts(n)
             /\ i % 2 = 0 => i \in Parts(n) \/ n.of[i] = Absent
             /\ i % 2 = 1 /\ i < Len(n.of) => i \notin Parts(n) /\ n.of[i].name \in Name
  <2>1. i \notin Parts(n) =>
          \/ i < Len(n.of) /\ i % 2 = 0 /\ n.of[i] = Absent
          \/ i < Len(n.of) /\ i % 2 = 1 /\ n.of[i].name \in Name
    BY <1>1, <1>6 DEF IsNode
  <2>2. i \in Parts(n) => i = Len(n.of) \/ i % 2 = 0
    BY <1>3, <1>6
  <2> QED BY <1>1, <1>3, <2>1, <2>2
<1>7. n.name \in Label
  <2>1. n.name \in {m.name : m \in Nodes(body)}
    OBVIOUS
  <2> QED BY <2>1, Zenon DEF Label
<1>8. n.type = "var" => Len(n.of) \in 1..Len(n.of)
  BY <1>1, <1>3
<1> QED BY <1>1, <1>2, <1>3, <1>4, <1>5, <1>6, <1>7, <1>8

\* What the methods know of the parts they are at.
LEMMA NamesIs ==
  ASSUME NEW body \in Bodies, NEW n \in Nodes(body) \cup {Function(body)}
  PROVE  /\ n.type = "for" => Names(n) = <<n.name>>
         /\ n.type = "var" =>
              /\ DOMAIN Names(n) = 1..(Len(n.of) \div 2)
              /\ \A i \in 1..(Len(n.of) \div 2) : Names(n)[i] = n.of[2 * i - 1].name
         /\ n.type \notin {"for", "var"} => Names(n) = <<>>
         /\ \A i \in DOMAIN Names(n) : Names(n)[i] \in Name
         /\ DOMAIN Names(n) \subseteq Nat
<1>1. /\ n.type = "for" => Names(n) = <<n.name>>
      /\ n.type = "var" =>
           /\ DOMAIN Names(n) = 1..(Len(n.of) \div 2)
           /\ \A i \in 1..(Len(n.of) \div 2) : Names(n)[i] = n.of[2 * i - 1].name
      /\ n.type \notin {"for", "var"} => Names(n) = <<>>
  BY DEF Names
<1>2. ASSUME NEW i \in DOMAIN Names(n) PROVE Names(n)[i] \in Name /\ i \in Nat
  <2>1. n \in Nodes(body) \/ n.type = "function"
    BY NodeShape
  <2>2. CASE n.type = "for"
    <3>1. Names(n) = <<n.name>> /\ n.name \in Name
      BY <1>1, <2>1, <2>2, NodeKinds
    <3> QED BY <1>2, <3>1
  <2>3. CASE n.type = "var"
    <3>1. i \in 1..(Len(n.of) \div 2) /\ Names(n)[i] = n.of[2 * i - 1].name
      BY <1>1, <1>2, <2>3
    <3>2. n \in Nodes(body) /\ Len(n.of) \in Nat /\ Len(n.of) % 2 = 1
      BY <2>1, <2>3, NodeKinds, NodeShape
    <3>3. 2 * i - 1 \in 1..Len(n.of) /\ 2 * i - 1 < Len(n.of) /\ (2 * i - 1) % 2 = 1
      BY <3>1, <3>2, OddHalf
    <3>4. \A j \in 1..Len(n.of) : j % 2 = 1 /\ j < Len(n.of) => n.of[j].name \in Name
      BY <2>3, <3>2, NodeKinds
    <3> QED BY <3>1, <3>3, <3>4
  <2>4. CASE n.type \notin {"for", "var"}
    BY <1>1, <1>2, <2>4
  <2> QED BY <2>2, <2>3, <2>4
<1> QED BY <1>1, <1>2

-----------------------------------------------------------------------------
(* Types.                                                                  *)

LEMMA PlaceOf ==
  ASSUME NEW n, NEW i \in Int
  PROVE  /\ n.type = "for" => /\ Place(n, 0) = 0 /\ Place(n, 1) = 1 /\ Place(n, 4) = 2
                              /\ Place(n, 3) = 3 /\ Place(n, 2) = 4
         /\ n.type = "var" => Place(n, i) = (i + 1) \div 2
         /\ n.type = "binary" /\ n.name = "=" => Place(n, 0) = 0 /\ Place(n, 2) = 1 /\ Place(n, 1) = 2
         /\ n.type \notin {"for", "var"} /\ ~(n.type = "binary" /\ n.name = "=") => Place(n, i) = i
BY DEF Place

\* While a body is generated.
Ready ==
  /\ phase = "generating" /\ UNCHANGED fn /\ fn.body \in Bodies
  /\ ir \in Builder /\ NamedValues \in [Name -> Nat] /\ FramesOK

Typed == (ir \in Builder)' /\ (NamedValues \in [Name -> Nat])' /\ FramesOK'

LEMMA ReadyTop ==
  ASSUME Ready, Top.node.type # "function"
  PROVE  Top.node \in Nodes(fn.body) /\ Len(frames) > 1
<1>1. Len(frames) \in DOMAIN frames /\ Top = frames[Len(frames)] /\ Len(frames) \in Nat
      /\ Len(frames) > 0 /\ FramesOK /\ fn.body \in Bodies
  BY TopIs DEF Ready
<1>2. Len(frames) # 1 /\ Top.node \in Nodes(fn.body)
  BY <1>1, BottomIs
<1>3. \A n \in Nat : n > 0 /\ n # 1 => n > 1
  OBVIOUS
<1>4. Len(frames) > 1
  <2>1. Len(frames) \in Nat /\ Len(frames) > 0 /\ Len(frames) # 1
    BY <1>1, <1>2
  <2> QED BY <1>3, <2>1
<1> QED BY <1>2, <1>4

LEMMA DeliversTyped ==
  ASSUME Ready, Top.node.type # "function", NEW r, r.b \in Builder, r.v \in IRValue, Delivers(r)
  PROVE  FramesOK' /\ (ir \in Builder)'
<1>1. Gives(r.v) /\ ir' = r.b
  BY DEF Delivers
<1>2. FramesOK'
  BY <1>1, GivesKeeps DEF Ready
<1>3. Builder' = Builder
  BY DEF Builder, Instruction, Label, Op, IRValue
<1> QED BY <1>1, <1>2, <1>3

LEMMA FailedTyped ==
  ASSUME Ready, Top.node.type # "function", Failed
  PROVE  FramesOK' /\ (ir \in Builder)'
<1>1. NoValue \in IRValue
  BY DEF NoValue, IRValue
<1>2. FramesOK'
  BY <1>1, GivesKeeps DEF Ready, Failed
<1> QED BY <1>2 DEF Ready, Failed

LEMMA Labels ==
  /\ "" \in Label
  /\ {"load", "store", "+", "-", "*", "<", "call", "phi", "br", "condbr", "ret"} = Op
  /\ <<>> \in Seq(Nat) /\ <<>> \in Seq(IRValue) /\ \A n \in Nat : <<n>> \in Seq(Nat)
  /\ \A v \in IRValue : <<v>> \in Seq(IRValue)
BY DEF Label, Op

LEMMA NumberTyped ==
  ASSUME Ready, GenNumber
  PROVE  Typed
<1>1. Top.node.type = "number"
  BY DEF GenNumber, Reaches, Generating
<1>2. Top.node \in Nodes(fn.body)
  BY <1>1, ReadyTop
<1>3. Val[Top.node.name] \in Int
  BY <1>1, <1>2, NodeKinds, CodeGenAssumption DEF Ready
<1>4. FramesOK'
  BY <1>1, <1>3, ConstIs, GivesKeeps DEF Ready, GenNumber
<1> QED BY <1>4 DEF Typed, Ready, GenNumber

LEMMA VariableTyped ==
  ASSUME Ready, GenVariable
  PROVE  Typed
<1> DEFINE variable == NamedValues[Top.node.name]
           r == Define(ir, "load", "", <<>>, <<variable>>)
<1>1. Top.node.type = "variable"
  BY DEF GenVariable, Reaches, Generating
<1>2. Top.node \in Nodes(fn.body)
  BY <1>1, ReadyTop
<1>3. variable \in Nat
  BY <1>1, <1>2, NodeKinds DEF Ready
<1>4. r.b \in Builder /\ r.v \in IRValue
  <2>1. "load" \in Op /\ "" \in Label /\ <<variable>> \in Seq(Nat) /\ <<>> \in Seq(IRValue) /\ ir \in Builder
    BY <1>3, Labels DEF Op, Ready
  <2> HIDE DEF variable
  <2> QED BY <2>1, DefineIs
<1>5. Failed \/ Delivers(r)
  BY DEF GenVariable
<1>6. FramesOK' /\ (ir \in Builder)'
  BY <1>1, <1>4, <1>5, FailedTyped, DeliversTyped
<1> QED BY <1>6 DEF Typed, Ready, GenVariable

\* Nodes whose parts are generated in their order.
LEMMA NextPart ==
  ASSUME Ready, Top.node.type \in {"call", "unary", "binary"},
         NEW i \in Parts(Top.node), Visit(Top, i),
         Top.node.type = "binary" /\ Top.node.name = "=" => i = 2 /\ Top.part = 0,
         ~(Top.node.type = "binary" /\ Top.node.name = "=") => i = Top.part + 1
  PROVE  FramesOK'
<1> DEFINE g == [Top EXCEPT !.part = i]
<1>1. /\ Top \in FrameType /\ LocalsOK(Top) /\ Len(Top.vals) = Place(Top.node, Top.part)
      /\ Top.part \in Nat /\ Top.node \in Expr
  BY TopIs DEF Ready
<1>2. Top.node \in Nodes(fn.body)
  BY ReadyTop
<1>3. i \in Nat /\ i \in DOMAIN Top.node.of
  BY <1>2, NodeShape DEF Ready, Parts
<1>4. /\ g.node = Top.node /\ g.part = i /\ g.blocks = Top.blocks /\ g.from = Top.from /\ g.old = Top.old
  BY <1>1, <1>3, PartIs
<1>5. InScope(Top.node, i) = 0 /\ InScope(Top.node, Top.part) = 0
  BY DEF InScope
<1> HIDE DEF g
<1>6. LocalsOK(g)
  BY <1>1, <1>3, <1>4, <1>5 DEF LocalsOK
<1>7. Place(Top.node, Top.part) = Place(Top.node, i) - 1
  BY <1>1, <1>3, PlaceOf
<1> QED BY <1>1, <1>6, <1>7, VisitKeeps DEF g, Ready

LEMMA CallTyped ==
  ASSUME Ready, GenCall
  PROVE  Typed
<1> DEFINE arity == Len(Top.node.of)
           r == Define(ir, "call", Top.node.name, Top.vals, <<>>)
<1>1. Top.node.type \in {"call", "unary"}
  BY DEF GenCall, Reaches, Generating
<1>2. Top.node \in Nodes(fn.body)
  BY <1>1, ReadyTop
<1>3. Top.node.name \in Label /\ Parts(Top.node) = 1..arity /\ Top.vals \in Seq(IRValue) /\ Top.part \in Nat
      /\ arity \in Nat
  BY <1>1, <1>2, NodeKinds, NodeShape, TopIs DEF Ready
<1>4. r.b \in Builder /\ r.v \in IRValue
  <2>1. "call" \in Op /\ <<>> \in Seq(Nat) /\ ir \in Builder
    BY Labels DEF Op, Ready
  <2> QED BY <1>3, <2>1, DefineIs
<1>5. \/ Failed \/ Delivers(r)
      \/ Top.part < arity /\ Visit(Top, Top.part + 1) /\ UNCHANGED ir
  BY DEF GenCall
<1>6. CASE Top.part < arity /\ Visit(Top, Top.part + 1) /\ UNCHANGED ir
  <2>1. FramesOK'
    BY <1>1, <1>3, <1>6, NextPart
  <2> QED BY <1>6, <2>1 DEF Typed, Ready, GenCall
<1>7. CASE Failed \/ Delivers(r)
  <2>1. FramesOK' /\ (ir \in Builder)'
    BY <1>1, <1>4, <1>7, FailedTyped, DeliversTyped
  <2> QED BY <2>1 DEF Typed, Ready, GenCall
<1> QED BY <1>5, <1>6, <1>7

LEMMA AssignmentTyped ==
  ASSUME Ready, GenAssignment
  PROVE  Typed
<1> DEFINE variable == NamedValues[Top.node.of[1].name]
           e == Effect(ir, "store", Top.vals, <<variable>>)
           r == Result(e, Top.vals[1])
<1>1. Top.node.type = "binary" /\ Top.node.name = "="
  BY DEF GenAssignment, Reaches, Generating
<1>2. Top.node \in Nodes(fn.body)
  BY <1>1, ReadyTop
<1>3. /\ Parts(Top.node) = 1..2 /\ Top.vals \in Seq(IRValue) /\ Top.node.of[1].name \in Name
      /\ Len(Top.vals) = Place(Top.node, Top.part)
  BY <1>1, <1>2, NodeKinds, TopIs DEF Ready
<1>4. CASE Top.part = 0 /\ Visit(Top, 2) /\ UNCHANGED ir
  <2>1. FramesOK'
    BY <1>1, <1>3, <1>4, NextPart
  <2> QED BY <1>4, <2>1 DEF Typed, Ready, GenAssignment
<1>5. CASE Top.part = 2 /\ (Failed \/ Delivers(r))
  <2>1. Len(Top.vals) = 1
    BY <1>1, <1>3, <1>5, PlaceOf
  <2>2. Top.vals[1] \in IRValue
    BY <1>3, <2>1
  <2>3. "store" \in Op /\ <<variable>> \in Seq(Nat) /\ ir \in Builder
    BY <1>3, Labels DEF Op, Ready
  <2>4. e \in Builder
    BY <1>3, <2>3, EffectIs
  <2>5. r.b = e /\ r.v = Top.vals[1]
    BY DEF Result
  <2>6. FramesOK' /\ (ir \in Builder)'
    BY <1>1, <1>5, <2>2, <2>4, <2>5, FailedTyped, DeliversTyped
  <2> QED BY <2>6 DEF Typed, Ready, GenAssignment
<1> QED BY <1>4, <1>5 DEF GenAssignment

LEMMA BinaryTyped ==
  ASSUME Ready, GenBinary
  PROVE  Typed
<1> DEFINE op == Top.node.name
           r == Define(ir, op, "", Top.vals, <<>>)
           s == Define(ir, "call", op, Top.vals, <<>>)
<1>1. Top.node.type = "binary" /\ Top.node.name # "="
  BY DEF GenBinary, Generating
<1>2. Top.node \in Nodes(fn.body)
  BY <1>1, ReadyTop
<1>3. /\ Parts(Top.node) = 1..2 /\ Top.vals \in Seq(IRValue) /\ op \in Label /\ Top.part \in Nat
  BY <1>1, <1>2, NodeKinds, TopIs DEF Ready
<1>4. "call" \in Op /\ "" \in Label /\ <<>> \in Seq(Nat) /\ ir \in Builder
  BY Labels DEF Op, Ready
<1>5. CASE Top.part < 2 /\ Visit(Top, Top.part + 1) /\ UNCHANGED ir
  <2>1. Top.part + 1 \in Parts(Top.node)
    BY <1>3, <1>5
  <2>2. FramesOK'
    BY <1>1, <1>5, <2>1, NextPart
  <2> QED BY <1>5, <2>2 DEF Typed, Ready, GenBinary
<1>6. CASE Failed \/ (op \in {"+", "-", "*", "<"} /\ Delivers(r)) \/ Delivers(s)
  <2>1. op \in {"+", "-", "*", "<"} => op \in Op
    BY DEF Op
  <2>2. op \in Op => r.b \in Builder /\ r.v \in IRValue
    BY <1>3, <1>4, DefineIs
  <2>3. s.b \in Builder /\ s.v \in IRValue
    BY <1>3, <1>4, DefineIs
  <2> HIDE DEF r, s, op
  <2>4. FramesOK' /\ (ir \in Builder)'
    BY <1>1, <1>6, <2>1, <2>2, <2>3, FailedTyped, DeliversTyped
  <2> QED BY <2>4 DEF Typed, Ready, GenBinary
<1> QED BY <1>5, <1>6 DEF GenBinary

LEMMA TailSeq ==
  ASSUME NEW S, NEW s \in Seq(S), Len(s) > 0
  PROVE  Tail(s) \in Seq(S)
OBVIOUS

LEMMA IfIs ==
  ASSUME FramesOK, fn.body \in Bodies, Top.node.type = "if", Top.node \in Nodes(fn.body)
  PROVE  /\ Parts(Top.node) = 1..3 /\ Top.vals \in Seq(IRValue) /\ Top.part \in 0..3
         /\ Top.blocks \in Seq(Nat) /\ Top.from \in Seq(Nat) /\ Top \in FrameType /\ LocalsOK(Top)
         /\ Len(Top.vals) = Top.part /\ DOMAIN Top.node.of = 1..3
         /\ \A i \in 0..3 : InScope(Top.node, i) = 0 /\ Place(Top.node, i) = i
         /\ Len(Top.old) = 0
         /\ Top.part \in {0, 1} => Len(Top.blocks) = 0 /\ Len(Top.from) = 0
         /\ Top.part = 2 => Len(Top.blocks) = 2 /\ Len(Top.from) = 0
         /\ Top.part = 3 => Len(Top.blocks) = 1 /\ Len(Top.from) = 1
<1>1. /\ Top.vals \in Seq(IRValue) /\ Top.part \in Nat
      /\ Top.blocks \in Seq(Nat) /\ Top.from \in Seq(Nat) /\ Top \in FrameType /\ LocalsOK(Top)
      /\ Len(Top.vals) = Place(Top.node, Top.part)
  BY TopIs
<1>2. Parts(Top.node) = 1..Len(Top.node.of) /\ Len(Top.node.of) = 3
  BY NodeKinds
<1>3. DOMAIN Top.node.of = 1..3
  BY <1>2, NodeShape
<1>4. \A i \in 0..3 : InScope(Top.node, i) = 0 /\ Place(Top.node, i) = i
  BY DEF InScope, Place
<1>5. Top.part \in 0..3
  BY <1>1, <1>3 DEF LocalsOK
<1>6. /\ Len(Top.old) = 0
      /\ Len(Top.blocks) = IF Top.part < 2 THEN 0 ELSE 4 - Top.part
      /\ Len(Top.from) = IF Top.part = 3 THEN 1 ELSE 0
  BY <1>1, <1>4, <1>5 DEF LocalsOK
<1> QED BY <1>1, <1>2, <1>3, <1>4, <1>5, <1>6

LEMMA IfTyped ==
  ASSUME Ready, GenIf
  PROVE  Typed
<1> DEFINE new == Newest(ir) + 1
           blocks == NewBlock(NewBlock(NewBlock(ir)))
           next == Top.blocks[1]
           merge == Last(Top.blocks)
           ended == Append(Top.from, LastBlock(next - 1))
           closed == Branch(ir, "br", <<>>, <<merge>>, next)
           opened == Branch(blocks, "condbr", Top.vals, <<new, new + 1>>, new)
           r == Define(closed, "phi", "", Tail(Top.vals), ended)
           f2 == [Top EXCEPT !.blocks = <<new + 1, new + 2>>]
           f3 == [Top EXCEPT !.blocks = <<merge>>, !.from = ended]
<1>1. Top.node.type = "if"
  BY DEF GenIf, Reaches, Generating
<1>2. Top.node \in Nodes(fn.body)
  BY <1>1, ReadyTop
<1>3. /\ Parts(Top.node) = 1..3 /\ Top.vals \in Seq(IRValue) /\ Top.part \in 0..3
      /\ Top.blocks \in Seq(Nat) /\ Top.from \in Seq(Nat) /\ Top \in FrameType /\ LocalsOK(Top)
      /\ Len(Top.vals) = Top.part /\ DOMAIN Top.node.of = 1..3
  BY <1>1, <1>2, IfIs DEF Ready
<1>4. /\ \A i \in 0..3 : InScope(Top.node, i) = 0 /\ Place(Top.node, i) = i
      /\ Len(Top.old) = 0
      /\ Top.part \in {0, 1} => Len(Top.blocks) = 0 /\ Len(Top.from) = 0
      /\ Top.part = 2 => Len(Top.blocks) = 2 /\ Len(Top.from) = 0
      /\ Top.part = 3 => Len(Top.blocks) = 1 /\ Len(Top.from) = 1
  BY <1>1, <1>2, IfIs DEF Ready
<1>5. ir \in Builder /\ ir.cur \in Nat /\ Op \subseteq Op /\ Builder' = Builder
  BY DEF Ready, Builder, Instruction, Label, Op, IRValue
<1>6. ASSUME NEW f \in FrameType, f.node = Top.node, f.vals = Top.vals, f.old = Top.old,
             NEW i \in 1..3, i = Top.part + 1, Visit(f, i),
             Len(f.blocks) = IF i = 1 THEN 0 ELSE 4 - i, Len(f.from) = IF i = 3 THEN 1 ELSE 0
      PROVE  FramesOK'
  <2> DEFINE g == [f EXCEPT !.part = i]
  <2>1. g.node = f.node /\ g.part = i /\ g.blocks = f.blocks /\ g.from = f.from /\ g.old = f.old
    BY <1>6, PartIs
  <2> HIDE DEF g
  <2>2. LocalsOK(g)
    <3>1. g.node.type = "if" /\ InScope(g.node, g.part) = 0 /\ Len(g.old) = 0
      BY <1>1, <1>4, <1>6, <2>1
    <3>2. g.part \in DOMAIN g.node.of /\ g.part \in 1..3
      BY <1>3, <1>6, <2>1
    <3>3. /\ Len(g.blocks) = IF g.part < 2 THEN 0 ELSE 4 - g.part
          /\ Len(g.from) = IF g.part = 3 THEN 1 ELSE 0
      BY <1>6, <2>1
    <3> QED BY <3>1, <3>2, <3>3 DEF LocalsOK
  <2>3. Len(f.vals) = Place(f.node, i) - 1
    BY <1>3, <1>4, <1>6
  <2> QED BY <1>3, <1>6, <2>2, <2>3, VisitKeeps DEF g, Ready
<1>7. CASE Top.part = 0 /\ Visit(Top, 1) /\ UNCHANGED ir
  <2>1. FramesOK'
    BY <1>3, <1>4, <1>6, <1>7
  <2> QED BY <1>7, <2>1 DEF Typed, Ready, GenIf
<1>8. CASE Top.part = 1 /\ ir' = opened /\ Visit(f2, 2)
  <2>1. new \in Nat /\ blocks \in Builder
    <3>1. Newest(ir) \in Nat
      BY <1>5 DEF Newest, Builder
    <3> QED BY <1>5, <3>1, NewBlockIs
  <2>2. <<new + 1, new + 2>> \in Seq(Nat) /\ <<new, new + 1>> \in Seq(Nat) /\ Len(<<new + 1, new + 2>>) = 2
    BY <2>1
  <2>3. f2 \in FrameType /\ f2.node = Top.node /\ f2.vals = Top.vals /\ f2.old = Top.old
        /\ f2.from = Top.from /\ f2.blocks = <<new + 1, new + 2>>
    <3> DEFINE bs == <<new + 1, new + 2>>
    <3>1. bs \in Seq(Nat)
      BY <2>2
    <3> HIDE DEF bs
    <3>2. LET g == [Top EXCEPT !.blocks = bs]
          IN g \in FrameType /\ g.node = Top.node /\ g.vals = Top.vals /\ g.old = Top.old
             /\ g.from = Top.from /\ g.blocks = bs
      BY <1>3, <3>1 DEF FrameType
    <3> QED BY <3>2 DEF bs
  <2>4. opened \in Builder
    <3> DEFINE to == <<new, new + 1>>
    <3>1. to \in Seq(Nat) /\ "condbr" \in Op /\ new \in Nat /\ Top.vals \in Seq(IRValue)
      BY <1>3, <2>1, <2>2 DEF Op
    <3> HIDE DEF blocks, new, to
    <3>2. Branch(blocks, "condbr", Top.vals, to, new) \in Builder
      BY <2>1, <3>1, BranchIs
    <3> QED BY <3>2 DEF to
  <2> HIDE DEF f2, opened
  <2>5. FramesOK'
    <3>1. Len(f2.blocks) = 2 /\ Len(f2.from) = 0 /\ 2 \in 1..3 /\ 2 = Top.part + 1
      BY <1>4, <1>8, <2>2, <2>3
    <3>2. Len(f2.blocks) = (IF 2 = 1 THEN 0 ELSE 4 - 2) /\ Len(f2.from) = (IF 2 = 3 THEN 1 ELSE 0)
      BY <3>1
    <3> QED BY <1>6, <1>8, <2>3, <3>1, <3>2
  <2> QED BY <1>5, <1>8, <2>4, <2>5 DEF Typed, Ready, GenIf
<1>9. Top.part \in {2, 3} => next \in Nat /\ merge \in Nat /\ closed \in Builder /\ ended \in Seq(Nat)
                             /\ Len(ended) = Len(Top.from) + 1
  <2> SUFFICES ASSUME Top.part \in {2, 3} PROVE next \in Nat /\ merge \in Nat /\ closed \in Builder
                             /\ ended \in Seq(Nat) /\ Len(ended) = Len(Top.from) + 1
    OBVIOUS
  <2>1. next \in Nat /\ merge \in Nat
    <3> HIDE DEF merge, ended, closed, opened, r, f2, f3, next, blocks, new
    <3>1. Top.blocks \in Seq(Nat) /\ Len(Top.blocks) > 0
      <4>1. Len(Top.blocks) = 2 \/ Len(Top.blocks) = 1
        BY <1>4
      <4>2. Top.blocks \in Seq(Nat)
        BY <1>3
      <4>3. Len(Top.blocks) > 0
        BY <4>1
      <4> QED BY <4>2, <4>3
    <3>2. Last(Top.blocks) \in Nat
      BY <3>1, LastIn
    <3> QED BY <3>1, <3>2 DEF merge, next
  <2>2. ended \in Seq(Nat) /\ Len(ended) = Len(Top.from) + 1
    BY <1>3, <1>5 DEF LastBlock
  <2>3. "br" \in Op /\ <<merge>> \in Seq(Nat) /\ <<>> \in Seq(IRValue)
    BY <2>1, Labels DEF Op
  <2> HIDE DEF next, merge
  <2> QED BY <1>5, <2>1, <2>2, <2>3, BranchIs
<1>10. CASE Top.part = 2 /\ ir' = closed /\ Visit(f3, 3)
  <2>1. <<merge>> \in Seq(Nat) /\ Len(<<merge>>) = 1 /\ ended \in Seq(Nat) /\ Len(ended) = 1
        /\ closed \in Builder
    BY <1>4, <1>9, <1>10
  <2> HIDE DEF merge, ended, closed
  <2>2. f3 \in FrameType /\ f3.node = Top.node /\ f3.vals = Top.vals /\ f3.old = Top.old
        /\ f3.from = ended /\ f3.blocks = <<merge>>
    <3> DEFINE bs == <<merge>>
    <3>1. bs \in Seq(Nat)
      BY <2>1
    <3> HIDE DEF bs
    <3>2. LET g == [Top EXCEPT !.blocks = bs, !.from = ended]
          IN g \in FrameType /\ g.node = Top.node /\ g.vals = Top.vals /\ g.old = Top.old
             /\ g.from = ended /\ g.blocks = bs
      BY <1>3, <2>1, <3>1 DEF FrameType
    <3> QED BY <3>2 DEF bs
  <2> HIDE DEF f3
  <2>3. FramesOK'
    <3>1. Len(f3.blocks) = 1 /\ Len(f3.from) = 1 /\ 3 \in 1..3 /\ 3 = Top.part + 1
      BY <1>10, <2>1, <2>2
    <3>2. Len(f3.blocks) = (IF 3 = 1 THEN 0 ELSE 4 - 3) /\ Len(f3.from) = (IF 3 = 3 THEN 1 ELSE 0)
      BY <3>1
    <3> QED BY <1>6, <1>10, <2>2, <3>1, <3>2
  <2> QED BY <1>5, <1>10, <2>1, <2>3 DEF Typed, Ready, GenIf
<1>11. CASE Top.part = 3 /\ Delivers(r)
  <2> HIDE DEF r, closed, ended, next, merge
  <2>1. closed \in Builder /\ ended \in Seq(Nat) /\ Tail(Top.vals) \in Seq(IRValue)
    <3>1. Len(Top.vals) = 3 /\ Top.vals \in Seq(IRValue)
      BY <1>3, <1>11
    <3>2. Tail(Top.vals) \in Seq(IRValue)
      BY <3>1, TailSeq
    <3> QED BY <1>9, <1>11, <3>2
  <2>2. "phi" \in Op /\ "" \in Label
    BY Labels DEF Op
  <2>3. r.b \in Builder /\ r.v \in IRValue
    BY <2>1, <2>2, DefineIs DEF r
  <2> HIDE DEF r
  <2>4. FramesOK' /\ (ir \in Builder)'
    BY <1>1, <1>11, <2>3, DeliversTyped
  <2> QED BY <2>4 DEF Typed, Ready, GenIf
<1> QED BY <1>7, <1>8, <1>10, <1>11 DEF GenIf

LEMMA Least ==
  ASSUME NEW T \in SUBSET Nat, T # {}
  PROVE  \E n \in T : \A m \in T : n <= m
<1> DEFINE R == OpToRel(<, Nat)
<1>1. \E n \in T : \A m \in T : ~(<<m, n>> \in R)
  <2> HIDE DEF R
  <2> QED BY NatLessThanWellFounded, WFMin DEF R
<1>2. PICK n \in T : \A m \in T : ~(<<m, n>> \in R)
  BY <1>1
<1>3. \A m \in T : ~(m < n) /\ m \in Nat /\ n \in Nat
  BY <1>2 DEF OpToRel
<1> QED BY <1>3

LEMMA Greatest ==
  ASSUME NEW N \in Nat, NEW T \in SUBSET (1..N), T # {}
  PROVE  \E n \in T : \A m \in T : m <= n
<1> DEFINE U == {N - n : n \in T}
<1>1. PICK u \in U : \A w \in U : u <= w
  <2>1. \A n \in T : N - n \in Nat
    OBVIOUS
  <2>2. U \subseteq Nat /\ U # {}
    BY <2>1, Zenon
  <2> HIDE DEF U
  <2> QED BY <2>2, Least
<1>2. PICK n \in T : u = N - n
  OBVIOUS
<1>3. \A m \in T : N - m \in U
  OBVIOUS
<1> HIDE DEF U
<1> QED BY <1>1, <1>2, <1>3

LEMMA ForIs ==
  ASSUME FramesOK, fn.body \in Bodies, Top.node.type = "for", Top.node \in Nodes(fn.body)
  PROVE  /\ {1, 2, 4} \subseteq Parts(Top.node) /\ Parts(Top.node) \subseteq 1..4
         /\ 3 \in Parts(Top.node) \/ Top.node.of[3] = Absent
         /\ DOMAIN Top.node.of = 1..4 /\ Top.node.name \in Name
         /\ Names(Top.node) = <<Top.node.name>>
         /\ Top.vals \in Seq(IRValue) /\ Top.part \in 0..4
         /\ Top.blocks \in Seq(Nat) /\ Top.from \in Seq(Nat) /\ Top.old \in Seq(Nat)
         /\ Top.variable \in Nat /\ Top \in FrameType /\ LocalsOK(Top)
         /\ Place(Top.node, 0) = 0 /\ Place(Top.node, 1) = 1 /\ Place(Top.node, 4) = 2
         /\ Place(Top.node, 3) = 3 /\ Place(Top.node, 2) = 4
         /\ Len(Top.vals) = Place(Top.node, Top.part)
         /\ \A i \in 0..4 : InScope(Top.node, i) = IF i < 2 THEN 0 ELSE 1
         /\ Len(Top.old) = IF Top.part < 2 THEN 0 ELSE 1
         /\ Len(Top.blocks) = IF Top.part < 2 THEN 0 ELSE 1
<1>1. /\ Top.vals \in Seq(IRValue) /\ Top.part \in Nat /\ Top.old \in Seq(Nat) /\ Top.variable \in Nat
      /\ Top.blocks \in Seq(Nat) /\ Top.from \in Seq(Nat) /\ Top \in FrameType /\ LocalsOK(Top)
      /\ Len(Top.vals) = Place(Top.node, Top.part)
  BY TopIs
<1>2. /\ Len(Top.node.of) = 4 /\ Top.node.name \in Name /\ {1, 2, 4} \subseteq Parts(Top.node)
      /\ 3 \in Parts(Top.node) \/ Top.node.of[3] = Absent
  BY NodeKinds
<1>3. DOMAIN Top.node.of = 1..4 /\ Parts(Top.node) \subseteq 1..4
  BY <1>2, NodeShape
<1>4. Names(Top.node) = <<Top.node.name>>
  BY NamesIs
<1>5. \A i \in 0..4 : InScope(Top.node, i) = IF i < 2 THEN 0 ELSE 1
  BY DEF InScope
<1>6. Top.part \in 0..4
  BY <1>1, <1>3 DEF LocalsOK
<1>7. /\ Len(Top.old) = IF Top.part < 2 THEN 0 ELSE 1
      /\ Len(Top.blocks) = IF Top.part < 2 THEN 0 ELSE 1
  BY <1>1, <1>5, <1>6 DEF LocalsOK
<1>8. /\ Place(Top.node, 0) = 0 /\ Place(Top.node, 1) = 1 /\ Place(Top.node, 4) = 2
      /\ Place(Top.node, 3) = 3 /\ Place(Top.node, 2) = 4
  BY PlaceOf
<1> QED BY <1>1, <1>2, <1>3, <1>4, <1>5, <1>6, <1>7, <1>8

LEMMA UnshadowIs ==
  ASSUME NamedValues \in [Name -> Nat], NEW old \in Seq(Nat), NEW names,
         DOMAIN names = DOMAIN old
  PROVE  /\ Unshadow(names, old) \in [Name -> Nat]
         /\ \A n \in Name \ ToSet(names) : Unshadow(names, old)[n] = NamedValues[n]
         /\ \A n \in Name \cap ToSet(names) :
              \E i \in DOMAIN names : names[i] = n /\ Unshadow(names, old)[n] = old[i]
<1>1. \A n \in Name \ ToSet(names) : Unshadow(names, old)[n] = NamedValues[n]
  BY DEF Unshadow
<1>2. ASSUME NEW n \in Name, n \in ToSet(names)
      PROVE  \E i \in DOMAIN names : names[i] = n /\ Unshadow(names, old)[n] = old[i]
  <2> DEFINE P(i) == names[i] = n
             Last1(i) == P(i) /\ \A j \in DOMAIN names : P(j) => j <= i
  <2>1. DOMAIN names = 1..Len(old) /\ Len(old) \in Nat
    OBVIOUS
  <2>2. \E i \in DOMAIN names : P(i)
    BY <1>2 DEF ToSet
  <2>3. \E i \in DOMAIN names : Last1(i)
    <3>1. PICK i \in {j \in DOMAIN names : P(j)} : \A j \in {j \in DOMAIN names : P(j)} : j <= i
      BY <2>1, <2>2, Greatest
    <3> QED BY <3>1
  <2>4. PICK i \in DOMAIN names : Last1(i)
    BY <2>3
  <2>5. Unshadow(names, old)[n] = old[CHOOSE k \in DOMAIN names : Last1(k)]
    BY <1>2 DEF Unshadow
  <2> HIDE DEF Last1
  <2>6. Last1(CHOOSE k \in DOMAIN names : Last1(k)) /\ (CHOOSE k \in DOMAIN names : Last1(k)) \in DOMAIN names
    BY <2>4
  <2> QED BY <2>5, <2>6 DEF Last1
<1>3. ASSUME NEW n \in Name PROVE Unshadow(names, old)[n] \in Nat
  <2>1. CASE n \in ToSet(names)
    <3>1. PICK i \in DOMAIN old : Unshadow(names, old)[n] = old[i]
      BY <1>2, <2>1
    <3> QED BY <3>1
  <2>2. CASE n \notin ToSet(names)
    BY <1>1, <2>2
  <2> QED BY <2>1, <2>2
<1>4. Unshadow(names, old) = [n \in Name |-> Unshadow(names, old)[n]]
  BY DEF Unshadow
<1> QED BY <1>1, <1>2, <1>3, <1>4

\* What the loop is made of: the blocks and instructions of one for.
LEMMA ForBuilders ==
  ASSUME NEW b \in Builder, NEW vals \in Seq(IRValue), NEW variable \in Nat
  PROVE  LET stored == NewBlock(Effect(b, "store", vals, <<variable>>))
             loop == Newest(stored)
         IN  /\ Effect(b, "store", vals, <<variable>>) \in Builder
             /\ stored \in Builder /\ loop \in Nat
             /\ Branch(stored, "br", <<>>, <<loop>>, loop) \in Builder
<1> DEFINE e == Effect(b, "store", vals, <<variable>>)
           stored == NewBlock(e)
           loop == Newest(stored)
<1>1. "store" \in Op /\ "br" \in Op /\ <<variable>> \in Seq(Nat) /\ <<>> \in Seq(IRValue)
  BY Labels DEF Op
<1>2. e \in Builder
  BY <1>1, EffectIs
<1> HIDE DEF e
<1>3. stored \in Builder /\ loop \in Nat
  BY <1>2, NewBlockIs
<1> HIDE DEF stored, loop
<1>4. <<loop>> \in Seq(Nat)
  BY <1>3
<1>5. Branch(stored, "br", <<>>, <<loop>>, loop) \in Builder
  <2> DEFINE to == <<loop>>
             none == <<>>
  <2>1. to \in Seq(Nat) /\ none \in Seq(IRValue)
    BY <1>1, <1>4
  <2> HIDE DEF to, none
  <2>2. Branch(stored, "br", none, to, loop) \in Builder
    BY <1>1, <1>3, <2>1, BranchIs
  <2> QED BY <2>2 DEF to, none
<1> QED BY <1>2, <1>3, <1>5 DEF stored, e, loop

LEMMA LoopBuilders ==
  ASSUME NEW b \in Builder, NEW v3 \in IRValue, NEW v4 \in IRValue, NEW first \in Nat,
         NEW variable \in Nat
  PROVE  LET cur == Define(b, "load", "", <<>>, <<variable>>)
             next == Define(cur.b, "+", "", <<cur.v, v3>>, <<>>)
             stored == Effect(next.b, "store", <<next.v>>, <<variable>>)
             kept == NewBlock(stored)
         IN  /\ cur.b \in Builder /\ next.b \in Builder /\ stored \in Builder /\ kept \in Builder
             /\ cur.v \in IRValue /\ next.v \in IRValue /\ Newest(kept) \in Nat
             /\ Branch(kept, "condbr", <<v4>>, <<first, Newest(kept)>>, Newest(kept)) \in Builder
<1> DEFINE cur == Define(b, "load", "", <<>>, <<variable>>)
           next == Define(cur.b, "+", "", <<cur.v, v3>>, <<>>)
           stored == Effect(next.b, "store", <<next.v>>, <<variable>>)
           kept == NewBlock(stored)
           args == <<cur.v, v3>>
           one == <<next.v>>
           on == <<variable>>
           noValues == <<>>
           nowhere == <<>>
           none == ""
<1>1. /\ "load" \in Op /\ "+" \in Op /\ "store" \in Op /\ "condbr" \in Op /\ none \in Label
      /\ on \in Seq(Nat) /\ noValues \in Seq(IRValue) /\ nowhere \in Seq(Nat)
  BY Labels DEF Op
<1> HIDE DEF on, noValues, nowhere, none
<1>2. Define(b, "load", none, noValues, on).b \in Builder /\ Define(b, "load", none, noValues, on).v \in IRValue
  BY <1>1, DefineIs
<1>3. cur.b \in Builder /\ cur.v \in IRValue
  BY <1>2 DEF noValues, on, none
<1> HIDE DEF cur
<1>4. args \in Seq(IRValue)
  BY <1>3
<1> HIDE DEF args
<1>5. /\ Define(cur.b, "+", none, args, nowhere).b \in Builder
      /\ Define(cur.b, "+", none, args, nowhere).v \in IRValue
  BY <1>1, <1>3, <1>4, DefineIs
<1>6. next.b \in Builder /\ next.v \in IRValue
  BY <1>5 DEF args, nowhere, none
<1> HIDE DEF next
<1>7. one \in Seq(IRValue)
  BY <1>6
<1> HIDE DEF one
<1>8. Effect(next.b, "store", one, on) \in Builder
  BY <1>1, <1>6, <1>7, EffectIs
<1>9. stored \in Builder
  BY <1>8 DEF one, on
<1> HIDE DEF stored
<1>10. kept \in Builder /\ Newest(kept) \in Nat
  BY <1>9, NewBlockIs
<1> HIDE DEF kept
<1> DEFINE test == <<v4>>
           to == <<first, Newest(kept)>>
<1>11. test \in Seq(IRValue) /\ to \in Seq(Nat)
  BY <1>10
<1> HIDE DEF test, to
<1>12. Branch(kept, "condbr", test, to, Newest(kept)) \in Builder
  BY <1>1, <1>10, <1>11, BranchIs
<1>13. Branch(kept, "condbr", <<v4>>, <<first, Newest(kept)>>, Newest(kept)) \in Builder
  BY <1>12 DEF test, to
<1> QED BY <1>3, <1>6, <1>9, <1>10, <1>13 DEF cur, next, stored, kept

LEMMA SameTypes == UNCHANGED fn => Builder' = Builder /\ FrameType' = FrameType
BY DEF FrameType, Expr, Builder, Instruction, Label, Op, IRValue

LEMMA ForTyped ==
  ASSUME Ready, GenFor
  PROVE  Typed
<1> DEFINE node == Top.node
           vals == Top.vals
           stored == NewBlock(Effect(ir, "store", vals, <<Top.variable>>))
           loop == Newest(stored)
           cur == Define(ir, "load", "", <<>>, <<Top.variable>>)
           next == Define(cur.b, "+", "", <<cur.v, vals[3]>>, <<>>)
           kept == NewBlock(Effect(next.b, "store", <<next.v>>, <<Top.variable>>))
           start == Branch(stored, "br", <<>>, <<loop>>, loop)
           test == Branch(kept, "condbr", <<vals[4]>>, <<Top.blocks[1], Newest(kept)>>, Newest(kept))
           f1 == [Top EXCEPT !.variable = ir.vars + 1]
           f4 == [Top EXCEPT !.blocks = <<loop>>, !.old = <<NamedValues[node.name]>>]
<1>1. node.type = "for"
  BY DEF GenFor, Reaches, Generating
<1>2. node \in Nodes(fn.body)
  BY <1>1, ReadyTop
<1>3. /\ {1, 2, 4} \subseteq Parts(node) /\ Parts(node) \subseteq 1..4
      /\ 3 \in Parts(node) \/ node.of[3] = Absent
      /\ DOMAIN node.of = 1..4 /\ node.name \in Name /\ Names(node) = <<node.name>>
      /\ vals \in Seq(IRValue) /\ Top.part \in 0..4
      /\ Top.blocks \in Seq(Nat) /\ Top.from \in Seq(Nat) /\ Top.old \in Seq(Nat)
      /\ Top.variable \in Nat /\ Top \in FrameType /\ LocalsOK(Top)
      /\ Place(node, 0) = 0 /\ Place(node, 1) = 1 /\ Place(node, 4) = 2
      /\ Place(node, 3) = 3 /\ Place(node, 2) = 4
      /\ Len(vals) = Place(node, Top.part)
  BY <1>1, <1>2, ForIs DEF Ready
<1>4. /\ \A i \in 0..4 : InScope(node, i) = IF i < 2 THEN 0 ELSE 1
      /\ Len(Top.old) = IF Top.part < 2 THEN 0 ELSE 1
      /\ Len(Top.blocks) = IF Top.part < 2 THEN 0 ELSE 1
  BY <1>1, <1>2, ForIs DEF Ready
<1>5. ir \in Builder /\ FramesOK /\ fn.body \in Bodies /\ UNCHANGED fn /\ NamedValues \in [Name -> Nat]
  BY DEF Ready
<1>6. ASSUME NEW f \in FrameType, f.node = node, f.vals = vals, NEW i \in 1..4,
             Place(node, i) = Place(node, Top.part) + 1,
             i = 1 => Len(f.blocks) = 0 /\ Len(f.old) = 0,
             i # 1 => Len(f.blocks) = 1 /\ Len(f.old) = 1
      PROVE  LocalsOK([f EXCEPT !.part = i]) /\ Len(f.vals) = Place(f.node, i) - 1
  <2> DEFINE g == [f EXCEPT !.part = i]
  <2>1. g.node = f.node /\ g.part = i /\ g.blocks = f.blocks /\ g.from = f.from /\ g.old = f.old
    BY <1>6, PartIs
  <2> HIDE DEF g
  <2>2. LocalsOK(g)
    <3>1. i # 0 /\ i \in 0..4 /\ i \in DOMAIN node.of
      BY <1>3
    <3> HIDE DEF node
    <3>2. Len(g.old) = InScope(g.node, g.part) /\ Len(g.blocks) = IF g.part \in {0, 1} THEN 0 ELSE 1
      <4>1. InScope(node, i) = IF i < 2 THEN 0 ELSE 1
        BY <1>4, <3>1
      <4>2. Len(f.old) = InScope(node, i)
        <5>1. CASE i = 1
          BY <1>6, <4>1, <5>1
        <5>2. CASE i # 1
          <6>1. ~(i < 2)
            BY <5>2, <3>1
          <6>2. Len(f.old) = 1
            BY <1>6, <5>2
          <6> QED BY <4>1, <6>1, <6>2
        <5> QED BY <5>1, <5>2
      <4>3. Len(f.blocks) = IF i \in {0, 1} THEN 0 ELSE 1
        <5>1. CASE i = 1
          BY <1>6, <5>1
        <5>2. CASE i # 1
          <6>1. i \notin {0, 1}
            BY <5>2, <3>1
          <6>2. Len(f.blocks) = 1
            BY <1>6, <5>2
          <6> QED BY <6>1, <6>2
        <5> QED BY <5>1, <5>2
      <4> QED BY <1>6, <2>1, <4>2, <4>3
    <3> QED BY <1>1, <1>6, <2>1, <3>1, <3>2 DEF LocalsOK
  <2>3. Len(f.vals) = Place(f.node, i) - 1
    BY <1>3, <1>6
  <2> QED BY <2>2, <2>3 DEF g
<1> HIDE DEF node, vals
<1>7. CASE /\ Top.part = 0 /\ ir' = Alloca(ir) /\ Visit(f1, 1) /\ UNCHANGED NamedValues
  <2>1. Alloca(ir) \in Builder /\ ir.vars + 1 \in Nat
    BY <1>5, AllocaIs
  <2>2. f1 \in FrameType /\ f1.node = node /\ f1.vals = vals /\ f1.blocks = Top.blocks /\ f1.old = Top.old
    BY <1>3, <2>1 DEF FrameType, node, vals
  <2> HIDE DEF f1
  <2>3. LocalsOK([f1 EXCEPT !.part = 1]) /\ Len(f1.vals) = Place(f1.node, 1) - 1
    <3>1. Len(f1.blocks) = 0 /\ Len(f1.old) = 0 /\ Place(node, 1) = Place(node, Top.part) + 1
      BY <1>3, <1>4, <1>7, <2>2
    <3>9. /\ 1 \in 1..4 /\ Place(node, 1) = Place(node, Top.part) + 1
          /\ 1 = 1 => Len(f1.blocks) = 0 /\ Len(f1.old) = 0
          /\ 1 # 1 => Len(f1.blocks) = 1 /\ Len(f1.old) = 1
          /\ f1 \in FrameType /\ f1.node = node /\ f1.vals = vals
      BY <1>3, <2>2, <3>1
    <3> QED BY <1>6, <3>9, Zenon
  <2>4. FramesOK'
    BY <1>3, <1>5, <1>7, <2>2, <2>3, VisitKeeps DEF node
  <2> QED BY <1>5, <1>7, <2>1, <2>4, SameTypes DEF Typed
<1>8. CASE /\ Top.part = 1 /\ ir' = start /\ NamedValues' = [NamedValues EXCEPT ![node.name] = Top.variable]
           /\ Visit(f4, 4)
  <2>1. start \in Builder /\ loop \in Nat
    BY <1>3, <1>5, ForBuilders
  <2> HIDE DEF start, loop
  <2>2. f4 \in FrameType /\ f4.node = node /\ f4.vals = vals /\ Len(f4.blocks) = 1 /\ Len(f4.old) = 1
    <3> DEFINE bs == <<loop>>
               o == <<NamedValues[node.name]>>
    <3>1. bs \in Seq(Nat) /\ Len(bs) = 1 /\ o \in Seq(Nat) /\ Len(o) = 1
      BY <1>3, <1>5, <2>1
    <3> HIDE DEF bs, o
    <3>2. LET g == [Top EXCEPT !.blocks = bs, !.old = o]
          IN g \in FrameType /\ g.node = Top.node /\ g.vals = Top.vals /\ g.old = o /\ g.blocks = bs
      BY <1>3, <3>1 DEF FrameType
    <3> QED BY <3>1, <3>2 DEF bs, o, node, vals
  <2> HIDE DEF f4
  <2>3. LocalsOK([f4 EXCEPT !.part = 4]) /\ Len(f4.vals) = Place(f4.node, 4) - 1
    <3>1. Place(node, 4) = Place(node, Top.part) + 1
      BY <1>3, <1>8
    <3>9. /\ 4 \in 1..4 /\ Place(node, 4) = Place(node, Top.part) + 1
          /\ 4 = 1 => Len(f4.blocks) = 0 /\ Len(f4.old) = 0
          /\ 4 # 1 => Len(f4.blocks) = 1 /\ Len(f4.old) = 1
          /\ f4 \in FrameType /\ f4.node = node /\ f4.vals = vals
      BY <1>3, <2>2, <3>1
    <3> QED BY <1>6, <3>9, Zenon
  <2>4. FramesOK'
    BY <1>3, <1>5, <1>8, <2>2, <2>3, VisitKeeps DEF node
  <2>5. (NamedValues \in [Name -> Nat])'
    BY <1>3, <1>5, <1>8
  <2> QED BY <1>5, <1>8, <2>1, <2>4, <2>5, SameTypes DEF Typed
<1>9. CASE Top.part = 4 /\ VisitOr(Top, 3, 1) /\ UNCHANGED <<ir, NamedValues>>
  <2>1. LocalsOK([Top EXCEPT !.part = 3]) /\ Len(Top.vals) = Place(Top.node, 3) - 1
    <3>1. Len(Top.blocks) = 1 /\ Len(Top.old) = 1 /\ Place(node, 3) = Place(node, Top.part) + 1
      BY <1>3, <1>4, <1>9
    <3>2. Top.node = node /\ Top.vals = vals
      BY DEF node, vals
    <3>9. /\ 3 \in 1..4 /\ Place(node, 3) = Place(node, Top.part) + 1
          /\ 3 = 1 => Len(Top.blocks) = 0 /\ Len(Top.old) = 0
          /\ 3 # 1 => Len(Top.blocks) = 1 /\ Len(Top.old) = 1
          /\ Top \in FrameType /\ Top.node = node /\ Top.vals = vals
      BY <1>3, <3>1, <3>2
    <3> QED BY <1>6, <3>9, Zenon
  <2>2. FramesOK'
    <3>1. CASE node.of[3] = Absent
      <4>1. Top.node.of[3] = Absent /\ 1 \in Int /\ 3 \in Nat
        BY <3>1 DEF node
      <4> QED BY <1>3, <1>5, <1>9, <2>1, <4>1, DefaultKeeps
    <3>2. CASE node.of[3] # Absent
      <4>1. 3 \in Parts(Top.node) /\ Visit(Top, 3)
        BY <1>3, <1>9, <3>2 DEF VisitOr, node
      <4> QED BY <1>3, <1>5, <2>1, <4>1, VisitKeeps
    <3> QED BY <3>1, <3>2
  <2> QED BY <1>5, <1>9, <2>2, SameTypes DEF Typed
<1>10. CASE Top.part = 3 /\ Visit(Top, 2) /\ UNCHANGED <<ir, NamedValues>>
  <2>1. LocalsOK([Top EXCEPT !.part = 2]) /\ Len(Top.vals) = Place(Top.node, 2) - 1
    <3>1. Len(Top.blocks) = 1 /\ Len(Top.old) = 1 /\ Place(node, 2) = Place(node, Top.part) + 1
      BY <1>3, <1>4, <1>10
    <3>2. Top.node = node /\ Top.vals = vals
      BY DEF node, vals
    <3>9. /\ 2 \in 1..4 /\ Place(node, 2) = Place(node, Top.part) + 1
          /\ 2 = 1 => Len(Top.blocks) = 0 /\ Len(Top.old) = 0
          /\ 2 # 1 => Len(Top.blocks) = 1 /\ Len(Top.old) = 1
          /\ Top \in FrameType /\ Top.node = node /\ Top.vals = vals
      BY <1>3, <3>1, <3>2
    <3> QED BY <1>6, <3>9, Zenon
  <2>2. FramesOK'
    BY <1>3, <1>5, <1>10, <2>1, VisitKeeps DEF node
  <2> QED BY <1>5, <1>10, <2>2, SameTypes DEF Typed
<1>11. CASE Top.part = 2 /\ Delivers(Result(test, Const(0))) /\ NamedValues' = Unshadow(Names(node), Top.old)
  <2> HIDE DEF test, cur, next, kept
  <2>1. vals[3] \in IRValue /\ vals[4] \in IRValue /\ Top.blocks[1] \in Nat /\ Len(Top.old) = 1
    <3>1. Len(vals) = 4 /\ Len(Top.blocks) = 1 /\ Len(Top.old) = 1
      BY <1>3, <1>4, <1>11
    <3>2. Len(vals) \in Nat /\ DOMAIN vals = 1..Len(vals) /\ \A i \in 1..Len(vals) : vals[i] \in IRValue
      BY <1>3
    <3>3. \A i \in 1..Len(Top.blocks) : Top.blocks[i] \in Nat
      <4>1. Top.blocks \in Seq(Nat)
        BY <1>3
      <4> QED BY <4>1
    <3>4. 3 \in 1..4 /\ 4 \in 1..4 /\ 1 \in 1..1
      OBVIOUS
    <3> QED BY <3>1, <3>2, <3>3, <3>4
  <2>2. test \in Builder
    BY <1>3, <1>5, <2>1, LoopBuilders DEF test, cur, next, kept
  <2>3. Result(test, Const(0)).b = test /\ Result(test, Const(0)).v = Const(0) /\ Const(0) \in IRValue
    BY ConstIs DEF Result
  <2>4. FramesOK' /\ (ir \in Builder)'
    BY <1>1, <1>11, <2>2, <2>3, DeliversTyped DEF node
  <2>5. (NamedValues \in [Name -> Nat])'
    <3>1. DOMAIN Names(node) = DOMAIN Top.old
      BY <1>3, <2>1
    <3> QED BY <1>3, <1>5, <1>11, <3>1, UnshadowIs
  <2> QED BY <2>4, <2>5 DEF Typed
<1> QED BY <1>7, <1>8, <1>9, <1>10, <1>11 DEF GenFor, node, vals

LEMMA EvenStep ==
  ASSUME NEW L \in Nat, L % 2 = 1, L > 1, NEW p \in 1..L, p < L, p % 2 = 0
  PROVE  /\ (p - 1) \div 2 = p \div 2 - 1 /\ (p + 1) \div 2 = p \div 2 /\ p \div 2 \in Nat /\ p > 1
         /\ p - 1 \in 1..L /\ p - 1 < L /\ (p - 1) % 2 = 1 /\ p = 2 * (p \div 2)
         /\ p + 1 = L => (L - 1) \div 2 = p \div 2 /\ (L + 1) \div 2 = p \div 2 + 1
         /\ p + 1 # L => /\ p + 2 \in 1..L /\ p + 2 < L /\ (p + 2) % 2 = 0
                         /\ (p + 2 - 1) \div 2 = p \div 2 /\ (p + 2 + 1) \div 2 = p \div 2 + 1
OBVIOUS

LEMMA VarIs ==
  ASSUME FramesOK, fn.body \in Bodies, Top.node.type = "var", Top.node \in Nodes(fn.body)
  PROVE  LET L == Len(Top.node.of)
         IN  /\ L \in Nat /\ L % 2 = 1 /\ L > 1 /\ L \in Parts(Top.node) /\ DOMAIN Top.node.of = 1..L
             /\ Parts(Top.node) \subseteq 1..L
             /\ \A i \in 1..L : i % 2 = 0 => i \in Parts(Top.node) \/ Top.node.of[i] = Absent
             /\ \A i \in 1..L : i % 2 = 1 /\ i < L => i \notin Parts(Top.node) /\ Top.node.of[i].name \in Name
             /\ DOMAIN Names(Top.node) = 1..(L \div 2)
             /\ \A i \in 1..(L \div 2) : Names(Top.node)[i] = Top.node.of[2 * i - 1].name
             /\ Top.vals \in Seq(IRValue) /\ Top.part \in 0..L /\ (Top.part = L \/ Top.part % 2 = 0)
             /\ Top.old \in Seq(Nat) /\ Top \in FrameType /\ LocalsOK(Top) /\ Top.blocks = <<>>
             /\ \A i \in 0..L : Place(Top.node, i) = (i + 1) \div 2 /\ InScope(Top.node, i) = (i - 1) \div 2
             /\ Len(Top.vals) = (Top.part + 1) \div 2
             /\ Len(Top.old) = IF Top.part = 0 THEN 0 ELSE (Top.part - 1) \div 2
<1> DEFINE L == Len(Top.node.of)
<1>1. /\ Top.vals \in Seq(IRValue) /\ Top.part \in Nat /\ Top.old \in Seq(Nat)
      /\ Top \in FrameType /\ LocalsOK(Top)
      /\ Len(Top.vals) = Place(Top.node, Top.part)
  BY TopIs
<1>2. /\ L % 2 = 1 /\ L > 1 /\ L \in Parts(Top.node)
      /\ \A i \in 1..L : i % 2 = 0 => i \in Parts(Top.node) \/ Top.node.of[i] = Absent
      /\ \A i \in 1..L : i % 2 = 1 /\ i < L => i \notin Parts(Top.node) /\ Top.node.of[i].name \in Name
  BY NodeKinds
<1>3. L \in Nat /\ DOMAIN Top.node.of = 1..L /\ Parts(Top.node) \subseteq 1..L
  BY NodeShape
<1>4. /\ DOMAIN Names(Top.node) = 1..(L \div 2)
      /\ \A i \in 1..(L \div 2) : Names(Top.node)[i] = Top.node.of[2 * i - 1].name
  BY NamesIs
<1>5. \A i \in 0..L : Place(Top.node, i) = (i + 1) \div 2 /\ InScope(Top.node, i) = (i - 1) \div 2
  BY <1>3 DEF InScope, Place
<1>6. Top.part \in 0..L /\ (Top.part = L \/ Top.part % 2 = 0) /\ Top.blocks = <<>>
  BY <1>1, <1>3 DEF LocalsOK
<1> HIDE DEF L
<1>7. Len(Top.old) = IF Top.part = 0 THEN 0 ELSE (Top.part - 1) \div 2
  BY <1>1, <1>5, <1>6 DEF LocalsOK
<1>8. Len(Top.vals) = (Top.part + 1) \div 2
  BY <1>1, <1>5, <1>6
<1> QED BY <1>1, <1>2, <1>3, <1>4, <1>5, <1>6, <1>7, <1>8 DEF L

LEMMA VarTyped ==
  ASSUME Ready, GenVar
  PROVE  Typed
<1> DEFINE node == Top.node
           L == Len(node.of)
           p == Top.part
           name == node.of[p - 1].name
           variable == ir.vars + 1
           bound == [Top EXCEPT !.old = Append(@, NamedValues[name])]
           stored == Effect(Alloca(ir), "store", <<Last(Top.vals)>>, <<variable>>)
<1>1. node.type = "var"
  BY DEF GenVar, Reaches, Generating
<1>2. node \in Nodes(fn.body)
  BY <1>1, ReadyTop
<1>3. /\ L \in Nat /\ L % 2 = 1 /\ L > 1 /\ L \in Parts(node) /\ DOMAIN node.of = 1..L
      /\ \A i \in 1..L : i % 2 = 0 => i \in Parts(node) \/ node.of[i] = Absent
      /\ \A i \in 1..L : i % 2 = 1 /\ i < L => node.of[i].name \in Name
      /\ DOMAIN Names(node) = 1..(L \div 2)
  BY <1>1, <1>2, VarIs DEF Ready
<1>4. /\ Top.vals \in Seq(IRValue) /\ p \in 0..L /\ (p = L \/ p % 2 = 0)
      /\ Top.old \in Seq(Nat) /\ Top \in FrameType /\ Top.blocks = <<>>
      /\ \A i \in 0..L : Place(node, i) = (i + 1) \div 2 /\ InScope(node, i) = (i - 1) \div 2
      /\ Len(Top.vals) = (p + 1) \div 2
      /\ Len(Top.old) = IF p = 0 THEN 0 ELSE (p - 1) \div 2
  BY <1>1, <1>2, VarIs DEF Ready
<1>5. ir \in Builder /\ FramesOK /\ fn.body \in Bodies /\ UNCHANGED fn /\ NamedValues \in [Name -> Nat]
  BY DEF Ready
<1> HIDE DEF L, node, p, bound, name, stored
<1>6. ASSUME NEW f \in FrameType, f.node = node, f.vals = Top.vals, f.blocks = <<>>,
             NEW i \in 1..L, i = L \/ i % 2 = 0,
             (i + 1) \div 2 = Len(Top.vals) + 1, Len(f.old) = (i - 1) \div 2
      PROVE  LocalsOK([f EXCEPT !.part = i]) /\ Len(f.vals) = Place(f.node, i) - 1
  <2> DEFINE g == [f EXCEPT !.part = i]
  <2>1. g.node = f.node /\ g.part = i /\ g.blocks = f.blocks /\ g.from = f.from /\ g.old = f.old
    BY <1>6, PartIs
  <2> HIDE DEF g
  <2>2. i # 0 /\ i \in 0..L
    BY <1>3
  <2>3. InScope(node, i) = (i - 1) \div 2 /\ Place(node, i) = (i + 1) \div 2
    BY <1>4, <2>2
  <2>4. LocalsOK(g)
    BY <1>1, <1>3, <1>6, <2>1, <2>2, <2>3 DEF LocalsOK, L
  <2>5. Len(f.vals) = Place(f.node, i) - 1
    <3>1. Len(Top.vals) \in Nat
      BY <1>4
    <3> QED BY <1>6, <2>3, <3>1
  <2> QED BY <2>4, <2>5 DEF g
<1>7. ASSUME NEW f \in FrameType, f.node = node, f.vals = Top.vals, f.blocks = <<>>,
             NEW i \in 1..L, i < L, i % 2 = 0,
             (i + 1) \div 2 = Len(Top.vals) + 1, Len(f.old) = (i - 1) \div 2, VisitOr(f, i, 0)
      PROVE  FramesOK'
  <2>1. LocalsOK([f EXCEPT !.part = i]) /\ Len(f.vals) = Place(f.node, i) - 1
    BY <1>6, <1>7
  <2>2. f.node = Top.node /\ i \in Nat
    BY <1>7, <1>3 DEF node
  <2>3. CASE f.node.of[i] = Absent
    <3>1. 0 \in Int
      OBVIOUS
    <3> QED BY <1>5, <1>7, <2>1, <2>2, <2>3, <3>1, DefaultKeeps
  <2>4. CASE f.node.of[i] # Absent
    <3>1. i \in Parts(f.node) /\ Visit(f, i)
      BY <1>3, <1>7, <2>4 DEF VisitOr
    <3> QED BY <1>5, <1>7, <2>1, <2>2, <3>1, VisitKeeps
  <2> QED BY <2>3, <2>4
<1>8. CASE p = 0 /\ VisitOr(Top, 2, 0) /\ UNCHANGED <<ir, NamedValues>>
  <2> DEFINE two == 2
  <2>1. two \in 1..L /\ two < L /\ two % 2 = 0 /\ (two + 1) \div 2 = 1 /\ (two - 1) \div 2 = 0
    BY <1>3
  <2>2. Len(Top.vals) = 0 /\ Len(Top.old) = 0
    BY <1>4, <1>8
  <2>3. VisitOr(Top, two, 0)
    BY <1>8
  <2> HIDE DEF two
  <2>4. FramesOK'
    BY <1>4, <1>7, <2>1, <2>2, <2>3 DEF node
  <2> QED BY <1>5, <1>8, <2>4, SameTypes DEF Typed
<1>9. CASE /\ p > 0 /\ p < L /\ ir' = stored /\ NamedValues' = [NamedValues EXCEPT ![name] = variable]
           /\ IF p + 1 = L THEN Visit(bound, L) ELSE VisitOr(bound, p + 2, 0)
  <2>1. p \in 1..L /\ p % 2 = 0
    BY <1>3, <1>4, <1>9
  <2>2. /\ (p - 1) \div 2 = p \div 2 - 1 /\ (p + 1) \div 2 = p \div 2 /\ p \div 2 \in Nat
        /\ p - 1 \in 1..L /\ p - 1 < L /\ (p - 1) % 2 = 1
        /\ p + 1 = L => (L - 1) \div 2 = p \div 2 /\ (L + 1) \div 2 = p \div 2 + 1
        /\ p + 1 # L => /\ p + 2 \in 1..L /\ p + 2 < L /\ (p + 2) % 2 = 0
                        /\ (p + 2 - 1) \div 2 = p \div 2 /\ (p + 2 + 1) \div 2 = p \div 2 + 1
    BY <1>3, <1>9, <2>1, EvenStep
  <2>3. name \in Name
    BY <1>3, <2>2 DEF name
  <2>4. Alloca(ir) \in Builder /\ variable \in Nat
    BY <1>5, AllocaIs
  <2> HIDE DEF variable
  <2>5. Len(Top.vals) = p \div 2 /\ Len(Top.old) = p \div 2 - 1 /\ Len(Top.vals) > 0
    <3>1. Len(Top.vals) = p \div 2 /\ Len(Top.old) = p \div 2 - 1
      BY <1>4, <1>9, <2>2
    <3>2. Len(Top.old) \in Nat
      BY <1>4
    <3> QED BY <2>2, <3>1, <3>2
  <2>6. stored \in Builder
    <3> DEFINE args == <<Last(Top.vals)>>
               on == <<variable>>
    <3>1. Last(Top.vals) \in IRValue
      BY <1>4, <2>5 DEF Last
    <3>2. args \in Seq(IRValue) /\ on \in Seq(Nat) /\ "store" \in Op
      BY <2>4, <3>1 DEF Op
    <3> HIDE DEF args, on
    <3>3. Effect(Alloca(ir), "store", args, on) \in Builder
      BY <2>4, <3>2, EffectIs
    <3> QED BY <3>3 DEF args, on, stored, variable
  <2>7. /\ bound \in FrameType /\ bound.node = node /\ bound.vals = Top.vals /\ bound.blocks = <<>>
        /\ Len(bound.old) = p \div 2
    <3> DEFINE o == Append(Top.old, NamedValues[name])
    <3>1. NamedValues[name] \in Nat
      BY <1>5, <2>3
    <3>2. o \in Seq(Nat) /\ Len(o) = Len(Top.old) + 1
      BY <1>4, <3>1
    <3>3. bound = [Top EXCEPT !.old = o]
      BY DEF bound
    <3> HIDE DEF o
    <3>4. /\ bound \in FrameType /\ bound.node = node /\ bound.vals = Top.vals /\ bound.blocks = Top.blocks
          /\ bound.old = o
      BY <1>4, <3>2, <3>3 DEF FrameType, node
    <3> QED BY <1>4, <2>2, <2>5, <3>2, <3>4
  <2>8. FramesOK'
    <3>1. CASE p + 1 = L
      <4>1. L \in 1..L /\ (L + 1) \div 2 = Len(Top.vals) + 1 /\ Len(bound.old) = (L - 1) \div 2
        <5>1. L \in 1..L /\ (L + 1) \div 2 = p \div 2 + 1 /\ (L - 1) \div 2 = p \div 2
          BY <1>3, <2>2, <3>1
        <5> QED BY <2>5, <2>7, <5>1
      <4>2. LocalsOK([bound EXCEPT !.part = L]) /\ Len(bound.vals) = Place(bound.node, L) - 1
        BY <1>6, <2>7, <4>1
      <4>3. bound.node = Top.node /\ L \in Parts(bound.node) /\ Visit(bound, L)
        BY <1>3, <1>9, <2>7, <3>1 DEF node
      <4> QED BY <1>5, <2>7, <4>2, <4>3, VisitKeeps
    <3>2. CASE p + 1 # L
      <4> DEFINE q == p + 2
      <4>1. /\ q \in 1..L /\ q < L /\ q % 2 = 0 /\ (q + 1) \div 2 = Len(Top.vals) + 1
            /\ Len(bound.old) = (q - 1) \div 2 /\ VisitOr(bound, q, 0)
        <5>1. /\ q \in 1..L /\ q < L /\ q % 2 = 0 /\ (q + 1) \div 2 = p \div 2 + 1
              /\ (q - 1) \div 2 = p \div 2
          BY <2>2, <3>2
        <5>2. VisitOr(bound, q, 0)
          BY <1>9, <3>2
        <5> HIDE DEF q
        <5> QED BY <2>5, <2>7, <5>1, <5>2
      <4> HIDE DEF q
      <4> QED BY <1>7, <2>7, <4>1
    <3> QED BY <3>1, <3>2
  <2>9. (NamedValues \in [Name -> Nat])'
    BY <1>5, <1>9, <2>3, <2>4
  <2> QED BY <1>5, <1>9, <2>6, <2>8, <2>9, SameTypes DEF Typed
<1>10. CASE p = L /\ Gives(Last(Top.vals)) /\ UNCHANGED ir /\ NamedValues' = Unshadow(Names(node), Top.old)
  <2>0. (L - 1) \div 2 = L \div 2 /\ (L + 1) \div 2 > 0 /\ L # 0
    BY <1>3, OddParts
  <2>1. Last(Top.vals) \in IRValue
    <3>1. Len(Top.vals) > 0
      BY <1>4, <1>10, <2>0
    <3> QED BY <1>4, <3>1, LastIn
  <2>2. FramesOK'
    <3>1. Top.node.type # "function"
      BY <1>1 DEF node
    <3> QED BY <1>5, <1>10, <2>1, <3>1, GivesKeeps
  <2>3. (NamedValues \in [Name -> Nat])'
    <3>1. Len(Top.old) = L \div 2
      BY <1>4, <1>10, <2>0
    <3>2. DOMAIN Names(node) = DOMAIN Top.old
      <4>1. DOMAIN Top.old = 1..Len(Top.old)
        BY <1>4
      <4>2. DOMAIN Names(node) = 1..(L \div 2)
        BY <1>3
      <4> QED BY <3>1, <4>1, <4>2
    <3> QED BY <1>4, <1>5, <1>10, <3>2, UnshadowIs
  <2> QED BY <1>5, <1>10, <2>2, <2>3, SameTypes DEF Typed
<1> QED BY <1>8, <1>9, <1>10 DEF GenVar, node, p, L, name, bound, stored

LEMMA NullTyped ==
  ASSUME Ready, ReturnNullptr
  PROVE  Typed
<1>1. FramesOK' /\ (ir \in Builder)'
  BY FailedTyped DEF ReturnNullptr
<1> QED BY <1>1 DEF Typed, ReturnNullptr, Ready

LEMMA CodegenTyped ==
  ASSUME Ready, Codegen
  PROVE  Typed
BY NumberTyped, VariableTyped, CallTyped, AssignmentTyped, BinaryTyped, IfTyped, ForTyped, VarTyped,
   NullTyped DEF Codegen

\* The table at the start of a function.
LEMMA ClearedIs ==
  ASSUME NEW params \in Params
  PROVE  /\ Cleared(params) \in [Name -> Nat] /\ params \in Seq(Name)
         /\ \A n \in Name : Cleared(params)[n] # 0 <=> n \in ToSet(params)
<1>1. params \in Seq(Name)
  BY CodeGenAssumption
<1>2. ASSUME NEW n \in Name, n \in ToSet(params)
      PROVE  Cleared(params)[n] \in Nat /\ Cleared(params)[n] # 0
  <2> DEFINE T == {i \in DOMAIN params : params[i] = n}
             First1(i) == params[i] = n /\ \A j \in 1..(i - 1) : params[j] # n
             c == CHOOSE i \in DOMAIN params : First1(i)
  <2>1. DOMAIN params = 1..Len(params) /\ Len(params) \in Nat
    BY <1>1
  <2>2. PICK i \in T : \A j \in T : i <= j
    <3>1. T \in SUBSET Nat
      BY <2>1
    <3>2. T # {}
      BY <1>2 DEF ToSet
    <3> HIDE DEF T
    <3> QED BY <3>1, <3>2, Least
  <2>3. i \in DOMAIN params /\ First1(i)
    BY <2>1, <2>2
  <2> HIDE DEF First1
  <2>4. c \in DOMAIN params
    BY <2>3
  <2>5. Cleared(params)[n] = c
    BY <1>2 DEF Cleared, First1
  <2> HIDE DEF c
  <2> QED BY <2>1, <2>4, <2>5
<1>3. \A n \in Name : n \notin ToSet(params) => Cleared(params)[n] = 0
  BY DEF Cleared
<1>4. Cleared(params) = [n \in Name |-> Cleared(params)[n]]
  BY DEF Cleared
<1>5. \A n \in Name : Cleared(params)[n] \in Nat
  BY <1>2, <1>3
<1> QED BY <1>1, <1>2, <1>3, <1>4, <1>5

\* The activations and the block at the start of a function.
LEMMA GenerateIs ==
  ASSUME Generate
  PROVE  /\ phase' = "generating" /\ phase = "idle" /\ fn'.params \in Params /\ fn'.body \in Bodies
         /\ NamedValues' = Cleared(fn'.params)
         /\ ir' = [blocks |-> <<<<>>>>, cur |-> 1, regs |-> 0, vars |-> Len(fn'.params)]
         /\ frames' = <<[Activation(Function(fn'.body)) EXCEPT !.part = 1], Activation(fn'.body)>>
BY DEF Generate

LEMMA GenerateTyped ==
  ASSUME Generate
  PROVE  Typed
<1> DEFINE params == fn'.params
           body == fn'.body
           root == Function(body)
           bottom == [Activation(root) EXCEPT !.part = 1]
           top == Activation(body)
<1>1. /\ params \in Params /\ body \in Bodies /\ NamedValues' = Cleared(params)
      /\ ir' = [blocks |-> <<<<>>>>, cur |-> 1, regs |-> 0, vars |-> Len(params)]
      /\ frames' = <<bottom, top>>
  BY GenerateIs
<1> HIDE DEF params
<1>2. (NamedValues \in [Name -> Nat])' /\ params \in Seq(Name)
  BY <1>1, ClearedIs
<1>3. (ir \in Builder)'
  <2>1. <<<<>>>> \in Seq(Seq(Instruction)) /\ Len(params) \in Nat
    BY <1>2
  <2>2. ir' \in Builder
    BY <1>1, <2>1 DEF Builder
  <2> QED BY <2>2 DEF Builder, Instruction, Label, Op, IRValue
<1> HIDE DEF body
<1>4. body \in Nodes(body) /\ body.type # "function"
  BY <1>1, NodesAssumption, NodeShape
<1>5. /\ root.type = "function" /\ root.of = <<body>> /\ root.of[1] = body /\ DOMAIN root.of = {1}
      /\ 1 \in Parts(root)
  <2>1. root.type = "function" /\ root.of = <<body>>
    BY FunctionIs
  <2>2. body.type \notin {"name", "absent"}
    BY <1>1, <1>4, NodeShape
  <2> HIDE DEF root
  <2> QED BY <2>1, <2>2 DEF Parts
<1> HIDE DEF root
<1> DEFINE X == Nodes(body) \cup {root}
           F == [node : X, part : Nat, vals : Seq(IRValue), blocks : Seq(Nat), from : Seq(Nat),
                 variable : Nat, old : Seq(Nat)]
<1>6. /\ bottom \in F /\ bottom.node = root /\ bottom.part = 1 /\ bottom.vals = <<>> /\ bottom.blocks = <<>>
      /\ bottom.from = <<>> /\ bottom.old = <<>>
      /\ top \in F /\ top.node = body /\ top.part = 0 /\ top.vals = <<>> /\ top.blocks = <<>>
      /\ top.from = <<>> /\ top.old = <<>>
  <2>1. body \in X /\ root \in X
    BY <1>4
  <2> HIDE DEF X
  <2>2. <<>> \in Seq(IRValue) /\ <<>> \in Seq(Nat)
    OBVIOUS
  <2>3. /\ top \in F /\ top.node = body /\ top.part = 0 /\ top.vals = <<>> /\ top.blocks = <<>>
        /\ top.from = <<>> /\ top.old = <<>>
    BY <2>1, <2>2 DEF Activation
  <2> DEFINE a == Activation(root)
  <2>4. /\ a \in F /\ a.node = root /\ a.part = 0 /\ a.vals = <<>> /\ a.blocks = <<>>
        /\ a.from = <<>> /\ a.old = <<>>
    BY <2>1, <2>2 DEF Activation
  <2> HIDE DEF a, top
  <2>5. LET g == [a EXCEPT !.part = 1]
        IN  /\ g \in F /\ g.node = a.node /\ g.part = 1 /\ g.vals = a.vals /\ g.blocks = a.blocks
            /\ g.from = a.from /\ g.old = a.old
    BY <2>4
  <2> QED BY <2>3, <2>4, <2>5 DEF a
<1>7. LocalsOK(bottom) /\ LocalsOK(top) /\ Place(root, 1) = 1 /\ Place(body, 0) = 0
  <2>1. InScope(root, 1) = 0 /\ Place(root, 1) = 1 /\ 1 \in DOMAIN root.of
    BY <1>5 DEF InScope, Place
  <2>2. LocalsOK(top) /\ Place(body, 0) = 0
    BY <1>4, Unstarted
  <2> HIDE DEF bottom
  <2>3. LocalsOK(bottom)
    BY <1>5, <1>6, <2>1 DEF LocalsOK
  <2> QED BY <2>1, <2>2, <2>3
<1> HIDE DEF bottom, top
<1>8. /\ Len(frames') = 2 /\ DOMAIN frames' = {1, 2} /\ frames'[1] = bottom /\ frames'[2] = top
      /\ frames' \in Seq(F) /\ frames' # <<>>
  <2>1. <<bottom, top>> \in Seq(F) /\ Len(<<bottom, top>>) = 2 /\ DOMAIN <<bottom, top>> = 1..2
    <3> HIDE DEF F
    <3> QED BY <1>6
  <2>2. 1..2 = {1, 2}
    OBVIOUS
  <2> HIDE DEF F
  <2> QED BY <1>1, <2>1, <2>2
<1>9. FramesOK'
  <2>1. frames'[1].node = Function(fn'.body)
    BY <1>6, <1>8 DEF root, body
  <2>2. ASSUME NEW k \in DOMAIN frames'
        PROVE  /\ LocalsOK(frames'[k])
               /\ Len(frames'[k].vals) = IF k = Len(frames') THEN Place(frames'[k].node, frames'[k].part)
                                         ELSE Place(frames'[k].node, frames'[k].part) - 1
    <3>1. CASE k = 1
      BY <1>6, <1>7, <1>8, <3>1
    <3>2. CASE k = 2
      BY <1>6, <1>7, <1>8, <3>2
    <3> QED BY <1>8, <3>1, <3>2
  <2>3. ASSUME NEW k \in DOMAIN frames' \ {1}
        PROVE  /\ frames'[k].node \in Nodes(fn'.body)
               /\ frames'[k - 1].part \in Parts(frames'[k - 1].node)
               /\ frames'[k].node = frames'[k - 1].node.of[frames'[k - 1].part]
    <3>1. k = 2 /\ k - 1 = 1
      BY <1>8
    <3>2. frames'[k] = top /\ frames'[k - 1] = bottom
      BY <1>8, <3>1
    <3>3. top.node = body /\ bottom.node = root /\ bottom.part = 1
      BY <1>6
    <3>4. body \in Nodes(body) /\ 1 \in Parts(root) /\ root.of[1] = body
      BY <1>4, <1>5
    <3> HIDE DEF body
    <3>5. frames'[k].node \in Nodes(body)
      BY <3>2, <3>3, <3>4
    <3> QED BY <3>2, <3>3, <3>4, <3>5 DEF body
  <2>4. frames' \in Seq(FrameType)'
    BY <1>8 DEF FrameType, Expr, F, X, body, root
  <2> QED BY <1>8, <2>1, <2>2, <2>3, <2>4 DEF FramesOK
<1> QED BY <1>2, <1>3, <1>9 DEF Typed

LEMMA TypeStep ==
  ASSUME TypeInv, [CodeGenNext]_state
  PROVE  TypeInv'
<1>1. CASE Generate
  <2>1. Typed /\ phase' = "generating" /\ fn'.params \in Params /\ fn'.body \in Bodies
    BY <1>1, GenerateTyped, GenerateIs
  <2> QED BY <2>1 DEF TypeInv, Typed
<1>2. CASE Codegen
  <2>1. phase = "generating" /\ UNCHANGED <<fn, phase>>
    BY <1>2 DEF Codegen, GenNumber, GenVariable, GenCall, GenAssignment, GenBinary, GenIf, GenFor, GenVar,
       ReturnNullptr, Reaches, Generating
  <2>2. Ready
    BY <2>1 DEF TypeInv, Ready
  <2>3. Typed
    BY <1>2, <2>2, CodegenTyped
  <2> QED BY <2>1, <2>3 DEF TypeInv, Typed
<1>3. CASE Finish
  <2>1. phase = "generating" /\ phase' \in {"generated", "refused"} /\ UNCHANGED fn
    BY <1>3 DEF Finish, Generating
  <2> QED BY <2>1 DEF TypeInv
<1>4. CASE CallFunction
  BY <1>4 DEF TypeInv, CallFunction
<1>5. CASE Execute
  <2>1. phase' \in {"running", "returned"}
    BY <1>5 DEF Execute
  <2> QED BY <2>1 DEF TypeInv
<1>6. CASE Cut
  BY <1>6 DEF TypeInv, Cut
<1>7. CASE Forget
  BY <1>7 DEF TypeInv, Forget
<1>8. CASE UNCHANGED state
  BY <1>8 DEF TypeInv, state, FramesOK, FrameType, Expr, Builder, Instruction, Label, Op, IRValue
<1> QED BY <1>1, <1>2, <1>3, <1>4, <1>5, <1>6, <1>7, <1>8 DEF CodeGenNext

-----------------------------------------------------------------------------
(* A step of an activation.                                                *)

\* The activations with another one on top.
Put1(g) == [frames EXCEPT ![Len(frames)] = g]

LEMMA TopPut ==
  ASSUME FramesOK, NEW g
  PROVE  /\ DOMAIN Put1(g) = DOMAIN frames
         /\ \A k \in DOMAIN frames : Put1(g)[k] = IF k = Len(frames) THEN g ELSE frames[k]
BY TopIs DEF Put1

LEMMA PutTop ==
  ASSUME FramesOK
  PROVE  Put1(Top) = frames
BY TopIs DEF Put1, FramesOK

LEMMA VisitBlocks ==
  ASSUME FramesOK, fn.body \in Bodies, NEW f \in FrameType, f.node = Top.node,
         NEW i \in Parts(f.node), Visit(f, i), NEW b, Blocks(b, Put1(f))
  PROVE  Blocks(b, frames')
<1> DEFINE n == Len(frames)
<1>1. /\ DOMAIN frames' = 1..(n + 1) /\ \A k \in 1..(n - 1) : frames'[k] = frames[k]
      /\ frames'[n] = [f EXCEPT !.part = i] /\ frames'[n + 1] = Activation(f.node.of[i]) /\ i \in Nat
  BY VisitIs
<1>2. n \in Nat /\ n > 0 /\ DOMAIN frames = 1..n
  BY TopIs
<1>3. Alike(f, frames'[n])
  BY <1>1, PartIs DEF Alike
<1>4. frames'[n + 1].blocks = <<>>
  BY <1>1 DEF Activation
<1>5. DOMAIN Put1(f) = 1..n /\ \A k \in 1..n : Put1(f)[k] = IF k = n THEN f ELSE frames[k]
  BY <1>2, TopPut
<1> DEFINE gs == frames'
           fs == Put1(f)
<1> HIDE DEF n, gs, fs
<1>6. ASSUME NEW k \in DOMAIN gs PROVE gs[k].blocks = <<>> \/ (k \in DOMAIN fs /\ Alike(fs[k], gs[k]))
  <2>1. CASE k \in 1..(n - 1)
    <3>1. gs[k] = fs[k] /\ k \in DOMAIN fs
      BY <1>1, <1>2, <1>5, <2>1 DEF gs, fs
    <3> QED BY <3>1 DEF Alike
  <2>2. CASE k = n
    BY <1>2, <1>3, <1>5, <2>2 DEF gs, fs
  <2>3. CASE k = n + 1
    BY <1>4, <2>3 DEF gs
  <2> QED BY <1>1, <1>2, <2>1, <2>2, <2>3 DEF gs
<1>7. ASSUME NEW k \in DOMAIN fs PROVE k \in DOMAIN gs /\ Alike(fs[k], gs[k])
  <2>1. CASE k \in 1..(n - 1)
    <3>1. gs[k] = fs[k] /\ k \in DOMAIN gs
      BY <1>1, <1>2, <1>5, <2>1 DEF gs, fs
    <3> QED BY <3>1 DEF Alike
  <2>2. CASE k = n
    BY <1>1, <1>2, <1>3, <1>5, <2>2 DEF gs, fs
  <2> QED BY <1>2, <1>5, <2>1, <2>2 DEF fs
<1>8. Blocks(b, fs)
  BY DEF fs
<1>9. Blocks(b, gs)
  BY <1>6, <1>7, <1>8, SameBlocks
<1> QED BY <1>9 DEF gs

LEMMA DefaultBlocks ==
  ASSUME FramesOK, NEW f \in FrameType, NEW i \in Nat, f.node.of[i] = Absent, NEW default \in Int,
         VisitOr(f, i, default), NEW b, Blocks(b, Put1(f))
  PROVE  Blocks(b, frames')
<1> DEFINE n == Len(frames)
           gs == frames'
           fs == Put1(f)
<1>1. /\ DOMAIN gs = DOMAIN frames /\ \A k \in 1..(n - 1) : gs[k] = frames[k] /\ Alike(f, gs[n])
  <2>1. Alike(f, frames'[Len(frames)])
    BY DefaultIs DEF Alike
  <2> QED BY <2>1, DefaultIs
<1>2. n \in Nat /\ n > 0 /\ DOMAIN frames = 1..n
  BY TopIs
<1>3. DOMAIN fs = 1..n /\ \A k \in 1..n : fs[k] = IF k = n THEN f ELSE frames[k]
  BY <1>2, TopPut
<1>4. Alike(f, gs[n])
  BY DefaultIs DEF Alike
<1> HIDE DEF n, gs, fs
<1>5. ASSUME NEW k \in 1..n PROVE Alike(fs[k], gs[k])
  <2>1. CASE k = n
    BY <1>3, <1>4, <2>1
  <2>2. CASE k \in 1..(n - 1)
    <3>1. fs[k] = gs[k]
      BY <1>1, <1>2, <1>3, <2>2
    <3> QED BY <3>1 DEF Alike
  <2> QED BY <1>2, <2>1, <2>2
<1>6. Blocks(b, fs)
  BY DEF fs
<1>7. Blocks(b, gs)
  BY <1>1, <1>2, <1>3, <1>5, <1>6, SameBlocks
<1> QED BY <1>7 DEF gs

LEMMA GivesBlocks ==
  ASSUME FramesOK, fn.body \in Bodies, Top.node.type # "function", NEW v \in IRValue, Gives(v),
         NEW b, NEW g, g.blocks = <<>>, Blocks(b, Put1(g))
  PROVE  Blocks(b, frames')
<1> DEFINE n == Len(frames)
           gs == frames'
           fs == Put1(g)
<1>1. /\ n > 1 /\ DOMAIN gs = 1..(n - 1) /\ \A k \in 1..(n - 2) : gs[k] = frames[k]
      /\ Alike(frames[n - 1], gs[n - 1])
  BY GivesIs DEF Alike
<1>2. n \in Nat /\ n > 0 /\ DOMAIN frames = 1..n
  BY TopIs
<1>3. DOMAIN fs = 1..n /\ \A k \in 1..n : fs[k] = IF k = n THEN g ELSE frames[k]
  BY <1>2, TopPut
<1> HIDE DEF n, gs, fs
<1>4. ASSUME NEW k \in 1..(n - 1) PROVE Alike(fs[k], gs[k])
  <2>1. fs[k] = frames[k]
    BY <1>2, <1>3
  <2>2. CASE k = n - 1
    BY <1>1, <2>1, <2>2
  <2>3. CASE k \in 1..(n - 2)
    BY <1>1, <2>1, <2>3 DEF Alike
  <2> QED BY <1>1, <1>2, <2>2, <2>3
<1>5. \A k \in DOMAIN gs : gs[k].blocks = <<>> \/ (k \in DOMAIN fs /\ Alike(fs[k], gs[k]))
  BY <1>1, <1>2, <1>3, <1>4
<1>6. ASSUME NEW k \in DOMAIN fs
      PROVE  fs[k].blocks = <<>> \/ (k \in DOMAIN gs /\ Alike(fs[k], gs[k]))
  <2>1. k = n \/ k \in 1..(n - 1)
    BY <1>1, <1>2, <1>3
  <2>2. fs[n].blocks = <<>>
    BY <1>1, <1>2, <1>3
  <2> QED BY <1>1, <1>4, <2>1, <2>2
<1>7. Blocks(b, fs)
  BY DEF fs
<1>8. Blocks(b, gs)
  BY <1>5, <1>6, <1>7, SameBlocks
<1> QED BY <1>8 DEF gs

\* The blocks of a step in which the activation on top becomes g.
LEMMA PutBlocks ==
  ASSUME FramesOK, NEW b, NEW c, NEW g, Blocks(b, frames),
         Shape(c, (Awaited(frames) \ Waits(Top)) \cup Waits(g)),
         DOMAIN b.blocks \subseteq DOMAIN c.blocks, Apart(b, c, frames, g), HeldOK(c, g)
  PROVE  Blocks(c, Put1(g))
<1> DEFINE gs == Put1(g)
<1>1. frames \in Seq(FrameType) /\ frames # <<>> /\ Top = frames[Len(frames)]
  BY TopIs DEF FramesOK
<1>2. Turned(frames, gs, g)
  BY TopPut DEF Turned
<1> HIDE DEF gs
<1>3. Shape(c, (Awaited(frames) \ Waits(frames[Len(frames)])) \cup Waits(g))
  BY <1>1
<1>4. Blocks(c, gs)
  BY <1>1, <1>2, <1>3, TopChanges
<1> QED BY <1>4 DEF gs

LEMMA AlikePut ==
  ASSUME FramesOK, NEW b, Blocks(b, frames), NEW g, Alike(Top, g)
  PROVE  Blocks(b, Put1(g))
<1> DEFINE gs == Put1(g)
<1>1. DOMAIN gs = DOMAIN frames /\ \A k \in DOMAIN frames : gs[k] = IF k = Len(frames) THEN g ELSE frames[k]
  BY TopPut
<1>2. Top = frames[Len(frames)]
  BY TopIs
<1> HIDE DEF gs
<1>3. \A k \in DOMAIN frames : Alike(frames[k], gs[k])
  BY <1>1, <1>2 DEF Alike
<1>4. Blocks(b, gs)
  BY <1>1, <1>3, SameBlocks
<1> QED BY <1>4 DEF gs

\* An instruction that is no branch and no phi.
LEMMA PlainBlocks ==
  ASSUME NEW fs, NEW b, Blocks(b, fs), NEW instr \in Instruction,
         instr.op \notin {"br", "condbr", "ret", "phi"},
         NEW c \in Builder, c.cur = b.cur, c.blocks = Insert(b, instr).blocks
  PROVE  Blocks(c, fs)
<1>1. Shape(b, Awaited(fs))
  BY DEF Blocks
<1>2. /\ Shape(c, Awaited(fs)) /\ DOMAIN c.blocks = DOMAIN b.blocks /\ Phis(c) = Phis(b)
      /\ \A q : Preds(c, q) = Preds(b, q)
  BY <1>1, PlainKeeps
<1> QED BY <1>2, LikeKeeps

LEMMA AllocaBlocks ==
  ASSUME NEW fs, NEW b, Blocks(b, fs)
  PROVE  Blocks(Alloca(b), fs)
<1>1. Shape(b, Awaited(fs)) /\ b \in Builder
  BY DEF Blocks, Shape
<1>2. Alloca(b) \in Builder /\ Alloca(b).cur = b.cur /\ Alloca(b).blocks = b.blocks
  BY <1>1, AllocaIs
<1>3. /\ Shape(Alloca(b), Awaited(fs)) /\ DOMAIN Alloca(b).blocks = DOMAIN b.blocks
      /\ Phis(Alloca(b)) = Phis(b) /\ \A q : Preds(Alloca(b), q) = Preds(b, q)
  BY <1>1, <1>2, SameKeeps
<1> QED BY <1>3, LikeKeeps

Plain == {"load", "store", "+", "-", "*", "<", "call"}

LEMMA EffectBlocks ==
  ASSUME NEW fs, NEW b, Blocks(b, fs), NEW op \in Plain, NEW args \in Seq(IRValue), NEW on \in Seq(Nat)
  PROVE  Blocks(Effect(b, op, args, on), fs) /\ Effect(b, op, args, on) \in Builder
<1> DEFINE instr == Instr(op, "", 0, args, on)
           c == Effect(b, op, args, on)
<1>1. b \in Builder /\ op \in Op /\ op \notin {"br", "condbr", "ret", "phi"}
  BY DEF Blocks, Shape, Plain, Op
<1>2. instr \in Instruction /\ instr.op = op /\ c = Insert(b, instr) /\ c \in Builder
  <2>1. b \in Builder /\ op \in Op /\ args \in Seq(IRValue) /\ on \in Seq(Nat)
    BY <1>1
  <2>2. LET i == Instr(op, "", 0, args, on)
        IN  /\ i \in Instruction /\ i.op = op /\ i.at = on
            /\ Effect(b, op, args, on) = Insert(b, i)
            /\ Effect(b, op, args, on) \in Builder
    BY ONLY <2>1, EffectIs
  <2> QED BY <2>2
<1> HIDE DEF instr, c
<1>3. c.cur = b.cur /\ c.blocks = Insert(b, instr).blocks
  BY <1>1, <1>2, InsertIs
<1>4. Blocks(c, fs)
  BY <1>1, <1>2, <1>3, PlainBlocks
<1> QED BY <1>2, <1>4 DEF c

LEMMA DefineBlocks ==
  ASSUME NEW fs, NEW b, Blocks(b, fs), NEW op \in Plain, NEW name \in Label, NEW args \in Seq(IRValue),
         NEW on \in Seq(Nat)
  PROVE  LET r == Define(b, op, name, args, on)
         IN  Blocks(r.b, fs) /\ r.b \in Builder /\ r.v \in IRValue /\ r.v # NoValue
<1> DEFINE instr == Instr(op, name, b.regs + 1, args, on)
           r == Define(b, op, name, args, on)
<1>1. b \in Builder /\ op \in Op /\ op \notin {"br", "condbr", "ret", "phi"}
  BY DEF Blocks, Shape, Plain, Op
<1>2. /\ instr \in Instruction /\ instr.op = op /\ r.b \in Builder /\ r.b.cur = b.cur
      /\ r.b.blocks = Insert(b, instr).blocks /\ r.v \in IRValue /\ r.v # NoValue
  BY <1>1, DefineIs
<1> HIDE DEF instr, r
<1>3. Blocks(r.b, fs)
  BY <1>1, <1>2, PlainBlocks
<1> QED BY <1>2, <1>3 DEF r

LEMMA VisitTop ==
  ASSUME Ready, NEW i \in Parts(Top.node), Visit(Top, i), NEW b, Blocks(b, frames)
  PROVE  Blocks(b, frames')
<1>1. FramesOK /\ fn.body \in Bodies /\ Top \in FrameType
  BY TopIs DEF Ready
<1>2. Blocks(b, Put1(Top))
  BY <1>1, PutTop
<1> QED BY <1>1, <1>2, VisitBlocks

LEMMA GivesTop ==
  ASSUME Ready, Top.node.type \notin {"if", "for", "function"}, NEW v \in IRValue, Gives(v),
         NEW b, Blocks(b, frames)
  PROVE  Blocks(b, frames')
<1>1. FramesOK /\ fn.body \in Bodies /\ Top.blocks = <<>>
  BY TopIs DEF Ready, LocalsOK
<1>2. Blocks(b, Put1(Top))
  BY <1>1, PutTop
<1> QED BY <1>1, <1>2, GivesBlocks

LEMMA NoValueIs == NoValue \in IRValue /\ \A n \in Int : Const(n) # NoValue
BY DEF NoValue, IRValue, Const

LEMMA NumberBlocks ==
  ASSUME Ready, Blocks(ir, frames), GenNumber
  PROVE  Blocks(ir', frames')
<1>1. Top.node.type = "number"
  BY DEF GenNumber, Reaches, Generating
<1>2. Val[Top.node.name] \in Int
  BY <1>1, ReadyTop, NodeKinds, CodeGenAssumption DEF Ready
<1>3. Blocks(ir, frames')
  <2>1. Const(Val[Top.node.name]) \in IRValue /\ Gives(Const(Val[Top.node.name]))
    BY <1>2, ConstIs DEF GenNumber
  <2> QED BY <1>1, <2>1, GivesTop
<1>4. UNCHANGED ir
  BY DEF GenNumber
<1> QED BY <1>3, <1>4

\* A method without blocks returns.
LEMMA ReturnBlocks ==
  ASSUME Ready, Blocks(ir, frames), Top.node.type \notin {"if", "for", "function"},
         \/ Failed
         \/ \E r : Delivers(r) /\ r.v \in IRValue /\ Blocks(r.b, frames)
  PROVE  Blocks(ir', frames')
<1>1. CASE Failed
  <2>1. Blocks(ir, frames')
    BY <1>1, NoValueIs, GivesTop DEF Failed
  <2> QED BY <1>1, <2>1 DEF Failed
<1>2. CASE \E r : Delivers(r) /\ r.v \in IRValue /\ Blocks(r.b, frames)
  <2>1. PICK r : Delivers(r) /\ r.v \in IRValue /\ Blocks(r.b, frames)
    BY <1>2
  <2>2. Gives(r.v) /\ ir' = r.b
    BY <2>1 DEF Delivers
  <2>3. Blocks(r.b, frames')
    BY <2>1, <2>2, GivesTop
  <2> QED BY <2>2, <2>3
<1> QED BY <1>1, <1>2

LEMMA VariableBlocks ==
  ASSUME Ready, Blocks(ir, frames), GenVariable
  PROVE  Blocks(ir', frames')
<1> DEFINE variable == NamedValues[Top.node.name]
           r == Define(ir, "load", "", <<>>, <<variable>>)
<1>1. Top.node.type = "variable"
  BY DEF GenVariable, Reaches, Generating
<1>2. variable \in Nat
  BY <1>1, ReadyTop, NodeKinds DEF Ready
<1>3. Blocks(r.b, frames) /\ r.v \in IRValue
  <2> DEFINE on == <<variable>>
             none == <<>>
             name == ""
  <2>1. "load" \in Plain /\ name \in Label /\ on \in Seq(Nat) /\ none \in Seq(IRValue)
    BY <1>2, Labels DEF Plain
  <2> HIDE DEF on, none, name
  <2>2. LET s == Define(ir, "load", name, none, on) IN Blocks(s.b, frames) /\ s.v \in IRValue
    BY <2>1, DefineBlocks
  <2> QED BY <2>2 DEF on, none, name
<1>4. Failed \/ Delivers(r)
  BY DEF GenVariable
<1> HIDE DEF r
<1> QED BY <1>1, <1>3, <1>4, ReturnBlocks

LEMMA CallBlocks ==
  ASSUME Ready, Blocks(ir, frames), GenCall
  PROVE  Blocks(ir', frames')
<1> DEFINE arity == Len(Top.node.of)
           r == Define(ir, "call", Top.node.name, Top.vals, <<>>)
<1>1. Top.node.type \in {"call", "unary"}
  BY DEF GenCall, Reaches, Generating
<1>2. Top.node.name \in Label /\ Parts(Top.node) = 1..arity /\ Top.vals \in Seq(IRValue) /\ Top.part \in Nat
      /\ arity \in Nat
  BY <1>1, ReadyTop, NodeKinds, NodeShape, TopIs DEF Ready
<1>3. Blocks(r.b, frames) /\ r.v \in IRValue
  <2> DEFINE none == <<>>
  <2>1. "call" \in Plain /\ none \in Seq(Nat)
    BY Labels DEF Plain
  <2> HIDE DEF none
  <2>2. LET s == Define(ir, "call", Top.node.name, Top.vals, none) IN Blocks(s.b, frames) /\ s.v \in IRValue
    BY <1>2, <2>1, DefineBlocks
  <2> QED BY <2>2 DEF none
<1>4. \/ Failed \/ Delivers(r)
      \/ Top.part < arity /\ Visit(Top, Top.part + 1) /\ UNCHANGED ir
  BY DEF GenCall
<1> HIDE DEF r
<1>5. CASE Failed \/ Delivers(r)
  BY <1>1, <1>3, <1>5, ReturnBlocks
<1>6. CASE Top.part < arity /\ Visit(Top, Top.part + 1) /\ UNCHANGED ir
  <2>1. Top.part + 1 \in Parts(Top.node)
    BY <1>2, <1>6
  <2>2. Blocks(ir, frames')
    BY <1>6, <2>1, VisitTop
  <2> QED BY <1>6, <2>2
<1> QED BY <1>4, <1>5, <1>6

LEMMA AssignmentBlocks ==
  ASSUME Ready, Blocks(ir, frames), GenAssignment
  PROVE  Blocks(ir', frames')
<1> DEFINE variable == NamedValues[Top.node.of[1].name]
           e == Effect(ir, "store", Top.vals, <<variable>>)
           r == Result(e, Top.vals[1])
<1>1. Top.node.type = "binary" /\ Top.node.name = "="
  BY DEF GenAssignment, Reaches, Generating
<1>2. Top.node \in Nodes(fn.body)
  BY <1>1, ReadyTop
<1>3. /\ Parts(Top.node) = 1..2 /\ Top.vals \in Seq(IRValue) /\ Top.node.of[1].name \in Name
      /\ Len(Top.vals) = Place(Top.node, Top.part)
  BY <1>1, <1>2, NodeKinds, TopIs DEF Ready
<1>4. CASE Top.part = 0 /\ Visit(Top, 2) /\ UNCHANGED ir
  <2>1. Blocks(ir, frames')
    BY <1>3, <1>4, VisitTop
  <2> QED BY <1>4, <2>1
<1>5. CASE Top.part = 2 /\ (Failed \/ Delivers(r))
  <2>1. Len(Top.vals) = 1
    BY <1>1, <1>3, <1>5, PlaceOf
  <2>2. Top.vals[1] \in IRValue
    BY <1>3, <2>1
  <2>3. Blocks(e, frames)
    <3> DEFINE on == <<variable>>
    <3>1. "store" \in Plain /\ on \in Seq(Nat)
      BY <1>3, Labels DEF Plain, Ready
    <3> HIDE DEF on
    <3>2. Blocks(Effect(ir, "store", Top.vals, on), frames)
      BY <1>3, <3>1, EffectBlocks
    <3> QED BY <3>2 DEF on
  <2> HIDE DEF e
  <2>4. r.b = e /\ r.v = Top.vals[1]
    BY DEF Result
  <2> HIDE DEF r
  <2> QED BY <1>1, <1>5, <2>2, <2>3, <2>4, ReturnBlocks
<1> QED BY <1>4, <1>5 DEF GenAssignment

LEMMA BinaryBlocks ==
  ASSUME Ready, Blocks(ir, frames), GenBinary
  PROVE  Blocks(ir', frames')
<1> DEFINE op == Top.node.name
           r == Define(ir, op, "", Top.vals, <<>>)
           s == Define(ir, "call", op, Top.vals, <<>>)
           none == <<>>
           name == ""
<1>1. Top.node.type = "binary" /\ Top.node.name # "="
  BY DEF GenBinary, Generating
<1>2. Top.node \in Nodes(fn.body)
  BY <1>1, ReadyTop
<1>3. /\ Parts(Top.node) = 1..2 /\ Top.vals \in Seq(IRValue) /\ op \in Label /\ Top.part \in Nat
  BY <1>1, <1>2, NodeKinds, TopIs DEF Ready
<1>4. "call" \in Plain /\ name \in Label /\ none \in Seq(Nat)
  BY Labels DEF Plain
<1>5. CASE Top.part < 2 /\ Visit(Top, Top.part + 1) /\ UNCHANGED ir
  <2>1. Top.part + 1 \in Parts(Top.node)
    BY <1>3, <1>5
  <2>2. Blocks(ir, frames')
    BY <1>5, <2>1, VisitTop
  <2> QED BY <1>5, <2>2
<1>6. CASE Failed \/ (op \in {"+", "-", "*", "<"} /\ Delivers(r)) \/ Delivers(s)
  <2> HIDE DEF none, name, op
  <2>1. op \in {"+", "-", "*", "<"} => op \in Plain
    BY DEF Plain
  <2>2. op \in Plain => LET t == Define(ir, op, name, Top.vals, none) IN Blocks(t.b, frames) /\ t.v \in IRValue
    BY <1>3, <1>4, DefineBlocks
  <2>3. LET t == Define(ir, "call", op, Top.vals, none) IN Blocks(t.b, frames) /\ t.v \in IRValue
    BY <1>3, <1>4, DefineBlocks
  <2>4. op \in Plain => Blocks(r.b, frames) /\ r.v \in IRValue
    BY <2>2 DEF none, name
  <2>5. Blocks(s.b, frames) /\ s.v \in IRValue
    BY <2>3 DEF none
  <2> HIDE DEF r, s
  <2> QED BY <1>1, <1>6, <2>1, <2>4, <2>5, ReturnBlocks
<1> QED BY <1>5, <1>6 DEF GenBinary

LEMMA VarBlocks ==
  ASSUME Ready, Blocks(ir, frames), GenVar
  PROVE  Blocks(ir', frames')
<1> DEFINE node == Top.node
           L == Len(node.of)
           p == Top.part
           name == node.of[p - 1].name
           variable == ir.vars + 1
           bound == [Top EXCEPT !.old = Append(@, NamedValues[name])]
           stored == Effect(Alloca(ir), "store", <<Last(Top.vals)>>, <<variable>>)
<1>1. node.type = "var"
  BY DEF GenVar, Reaches, Generating
<1>2. node \in Nodes(fn.body)
  BY <1>1, ReadyTop
<1>3. /\ L \in Nat /\ L % 2 = 1 /\ L > 1 /\ L \in Parts(node)
      /\ \A i \in 1..L : i % 2 = 0 => i \in Parts(node) \/ node.of[i] = Absent
      /\ \A i \in 1..L : i % 2 = 1 /\ i < L => node.of[i].name \in Name
  BY <1>1, <1>2, VarIs DEF Ready
<1>4. /\ Top.vals \in Seq(IRValue) /\ p \in 0..L /\ (p = L \/ p % 2 = 0)
      /\ Top.old \in Seq(Nat) /\ Top \in FrameType /\ Len(Top.vals) = (p + 1) \div 2
  BY <1>1, <1>2, VarIs DEF Ready
<1>5. ir \in Builder /\ FramesOK /\ fn.body \in Bodies /\ NamedValues \in [Name -> Nat]
  BY DEF Ready
<1> HIDE DEF L, node, p, bound, name, stored
<1>6. ASSUME NEW f \in FrameType, Alike(Top, f), NEW i \in 1..L, i < L, i % 2 = 0, VisitOr(f, i, 0),
             NEW b, Blocks(b, frames)
      PROVE  Blocks(b, frames')
  <2>1. Blocks(b, Put1(f)) /\ f.node = Top.node /\ i \in Nat /\ 0 \in Int
    BY <1>5, <1>6, AlikePut DEF Alike
  <2>2. CASE f.node.of[i] = Absent
    BY <1>5, <1>6, <2>1, <2>2, DefaultBlocks
  <2>3. CASE f.node.of[i] # Absent
    <3>1. i \in Parts(f.node) /\ Visit(f, i)
      BY <1>3, <1>6, <2>1, <2>3 DEF VisitOr, node
    <3> QED BY <1>5, <1>6, <2>1, <3>1, VisitBlocks
  <2> QED BY <2>2, <2>3
<1>7. CASE p = 0 /\ VisitOr(Top, 2, 0) /\ UNCHANGED <<ir, NamedValues>>
  <2> DEFINE two == 2
  <2>1. two \in 1..L /\ two < L /\ two % 2 = 0
    BY <1>3
  <2>2. VisitOr(Top, two, 0) /\ Alike(Top, Top)
    BY <1>7 DEF Alike
  <2> HIDE DEF two
  <2>3. Blocks(ir, frames')
    BY <1>4, <1>6, <2>1, <2>2
  <2> QED BY <1>7, <2>3
<1>8. CASE /\ p > 0 /\ p < L /\ ir' = stored /\ NamedValues' = [NamedValues EXCEPT ![name] = variable]
           /\ IF p + 1 = L THEN Visit(bound, L) ELSE VisitOr(bound, p + 2, 0)
  <2>1. p \in 1..L /\ p % 2 = 0
    BY <1>3, <1>4, <1>8
  <2>2. /\ (p + 1) \div 2 = p \div 2 /\ p \div 2 \in Nat /\ p > 1
        /\ p - 1 \in 1..L /\ p - 1 < L /\ (p - 1) % 2 = 1 /\ p = 2 * (p \div 2)
        /\ p + 1 # L => /\ p + 2 \in 1..L /\ p + 2 < L /\ (p + 2) % 2 = 0
    BY <1>3, <1>8, <2>1, EvenStep
  <2>3. name \in Name
    BY <1>3, <2>2 DEF name
  <2>4. variable \in Nat
    BY <1>5, AllocaIs
  <2> HIDE DEF variable
  <2>5. Last(Top.vals) \in IRValue
    <3>1. Len(Top.vals) > 0
      <4>1. p \div 2 > 0
        BY <2>2
      <4> QED BY <1>4, <2>2, <4>1
    <3> QED BY <1>4, <3>1 DEF Last
  <2>6. Blocks(stored, frames)
    <3> DEFINE args == <<Last(Top.vals)>>
               on == <<variable>>
    <3>1. args \in Seq(IRValue) /\ on \in Seq(Nat) /\ "store" \in Plain
      BY <2>4, <2>5 DEF Plain
    <3>2. Blocks(Alloca(ir), frames)
      BY AllocaBlocks
    <3> HIDE DEF args, on
    <3>3. Blocks(Effect(Alloca(ir), "store", args, on), frames)
      BY <3>1, <3>2, EffectBlocks
    <3> QED BY <3>3 DEF args, on, stored, variable
  <2>7. bound \in FrameType /\ Alike(Top, bound)
    <3> DEFINE o == Append(Top.old, NamedValues[name])
    <3>1. NamedValues[name] \in Nat
      BY <1>5, <2>3
    <3>2. o \in Seq(Nat)
      BY <1>4, <3>1
    <3>3. bound = [Top EXCEPT !.old = o]
      BY DEF bound
    <3> HIDE DEF o
    <3> QED BY <1>4, <3>2, <3>3 DEF FrameType, Alike
  <2>8. Blocks(stored, frames')
    <3>1. CASE p + 1 = L
      <4>1. bound.node = Top.node /\ L \in Parts(bound.node) /\ Visit(bound, L)
        BY <1>3, <1>8, <2>7, <3>1 DEF node, Alike
      <4>2. Blocks(stored, Put1(bound))
        BY <1>5, <2>6, <2>7, AlikePut
      <4> QED BY <1>5, <2>7, <4>1, <4>2, VisitBlocks
    <3>2. CASE p + 1 # L
      <4> DEFINE q == p + 2
      <4>1. q \in 1..L /\ q < L /\ q % 2 = 0
        BY <2>2, <3>2
      <4>2. VisitOr(bound, q, 0)
        BY <1>8, <3>2
      <4> HIDE DEF q
      <4> QED BY <1>6, <2>6, <2>7, <4>1, <4>2
    <3> QED BY <3>1, <3>2
  <2> QED BY <1>8, <2>8
<1>9. CASE p = L /\ Gives(Last(Top.vals)) /\ UNCHANGED ir
  <2>1. Last(Top.vals) \in IRValue
    <3>1. Len(Top.vals) > 0
      BY <1>3, <1>4, <1>9
    <3> QED BY <1>4, <3>1 DEF Last
  <2>2. Blocks(ir, frames')
    <3>1. Top.node.type \notin {"if", "for", "function"}
      BY <1>1 DEF node
    <3> QED BY <1>9, <2>1, <3>1, GivesTop
  <2> QED BY <1>9, <2>2
<1> QED BY <1>7, <1>8, <1>9 DEF GenVar, node, p, L, name, bound, stored

\* A branch to blocks without phis, after which the waiting block next is filled.
LEMMA Branches ==
  ASSUME NEW W, NEW b, Shape(b, W), NEW op \in {"br", "condbr"}, NEW args \in Seq(IRValue),
         NEW on \in Seq(Nat), Aims(b, on), NEW next \in W, NEW V, Without(W, next, V)
  PROVE  LET c == Branch(b, op, args, on, next)
         IN  /\ Shape(c, V) /\ Leads(b, c, on)
             /\ c.blocks[next] = <<>> /\ c.cur = next /\ c \in Builder
<1> DEFINE c == Branch(b, op, args, on, next)
           instr == Instr(op, "", 0, args, on)
<1>1. b \in Builder /\ op \in Op /\ next \in Nat
  <2>1. W \subseteq DOMAIN b.blocks /\ b \in Builder
    BY DEF Shape
  <2> QED BY <2>1, BlocksTyped DEF Op
<1>2. /\ instr \in Instruction /\ instr.op = op /\ instr.at = on /\ c \in Builder /\ c.cur = next
      /\ c.blocks = Insert(b, instr).blocks
  <2> DEFINE e == Effect(b, op, args, on)
  <2>1. instr \in Instruction /\ instr.op = op /\ instr.at = on /\ e = Insert(b, instr) /\ e \in Builder
    <3>1. b \in Builder /\ op \in Op /\ args \in Seq(IRValue) /\ on \in Seq(Nat)
      BY <1>1
    <3>2. LET i == Instr(op, "", 0, args, on)
          IN  /\ i \in Instruction /\ i.op = op /\ i.at = on
              /\ Effect(b, op, args, on) = Insert(b, i)
              /\ Effect(b, op, args, on) \in Builder
      BY ONLY <3>1, EffectIs
    <3> QED BY <3>2
  <2>2. c = SetInsertPoint(e, next)
    BY DEF Branch
  <2> HIDE DEF e, c, instr
  <2>3. c \in Builder /\ c.cur = next /\ c.blocks = e.blocks
    BY <1>1, <2>1, <2>2, SetInsertPointIs
  <2> QED BY <2>1, <2>3
<1> HIDE DEF c, instr
<1>3. IsBranch(instr) /\ Aims(b, instr.at)
  BY <1>2 DEF IsBranch
<1>4. Shape(c, V) /\ Leads(b, c, instr.at) /\ c.blocks[next] = <<>>
  BY <1>2, <1>3, BranchKeeps
<1> QED BY <1>2, <1>4 DEF c

\* The three blocks of an if, and the branch on its condition.
LEMMA IfOpens ==
  ASSUME NEW W, NEW b, Shape(b, W), NEW args \in Seq(IRValue)
  PROVE  LET n == Len(b.blocks)
             new == Newest(b) + 1
             c == Branch(NewBlock(NewBlock(NewBlock(b))), "condbr", args, <<new, new + 1>>, new)
         IN  /\ n \in Nat /\ new = n + 1 /\ DOMAIN b.blocks = 1..n
             /\ Shape(c, W \cup {n + 2, n + 3}) /\ DOMAIN b.blocks \subseteq DOMAIN c.blocks
             /\ n + 2 \in DOMAIN c.blocks /\ n + 3 \in DOMAIN c.blocks /\ Phis(c) = Phis(b)
             /\ Phis(b) \subseteq DOMAIN b.blocks
             /\ \A q \in DOMAIN b.blocks : Preds(c, q) = Preds(b, q)
             /\ Preds(c, n + 3) = {}
<1> DEFINE n == Len(b.blocks)
           new == n + 1
           b1 == NewBlock(b)
           b2 == NewBlock(b1)
           b3 == NewBlock(b2)
           on == <<new, new + 1>>
           c == Branch(b3, "condbr", args, on, new)
<1>1. b \in Builder /\ n \in Nat /\ DOMAIN b.blocks = 1..n /\ Newest(b) = n
  BY BlocksTyped DEF Shape, Newest
<1>2. /\ Shape(b1, W \cup {n + 1}) /\ DOMAIN b1.blocks = DOMAIN b.blocks \cup {n + 1}
      /\ Phis(b1) = Phis(b) /\ \A q : Preds(b1, q) = Preds(b, q)
  BY NewBlockKeeps
<1>3. Len(b1.blocks) = n + 1
  BY <1>1, NewBlockIs
<1> HIDE DEF b1
<1>4. /\ Shape(b2, W \cup {n + 1} \cup {n + 2}) /\ DOMAIN b2.blocks = DOMAIN b1.blocks \cup {n + 2}
      /\ Phis(b2) = Phis(b1) /\ \A q : Preds(b2, q) = Preds(b1, q)
  <2>1. n + 2 = Len(b1.blocks) + 1
    BY <1>1, <1>3
  <2> HIDE DEF n
  <2> QED BY <1>2, <2>1, NewBlockKeeps
<1>5. Len(b2.blocks) = n + 2
  <2>1. b1 \in Builder
    BY <1>2 DEF Shape
  <2>2. Len(b2.blocks) = Len(b1.blocks) + 1
    BY <2>1, NewBlockIs
  <2> HIDE DEF n, b2
  <2> QED BY <1>1, <1>3, <2>2
<1> HIDE DEF b2
<1>6. /\ Shape(b3, W \cup {n + 1} \cup {n + 2} \cup {n + 3}) /\ DOMAIN b3.blocks = DOMAIN b2.blocks \cup {n + 3}
      /\ Phis(b3) = Phis(b2) /\ \A q : Preds(b3, q) = Preds(b2, q)
      /\ Preds(b3, n + 3) = {}
  <2>1. n + 3 = Len(b2.blocks) + 1
    BY <1>1, <1>5
  <2> HIDE DEF n
  <2> QED BY <1>4, <2>1, NewBlockKeeps
<1> HIDE DEF b3
<1>7. b3 \in Builder /\ "condbr" \in Op /\ on \in Seq(Nat) /\ new \in Nat /\ ToSet(on) = {n + 1, n + 2}
  <2>1. b3 \in Builder
    BY <1>6 DEF Shape
  <2>2. on \in Seq(Nat) /\ new \in Nat
    BY <1>1
  <2>3. ToSet(on) = {n + 1, n + 2}
    BY <1>1 DEF ToSet
  <2> HIDE DEF n, on, new
  <2> QED BY <2>1, <2>2, <2>3 DEF Op
<1>8. Phis(b) \subseteq DOMAIN b.blocks
  BY DEF Phis
<1>10. Aims(b3, on)
  <2>1. DOMAIN b3.blocks = DOMAIN b.blocks \cup {n + 1} \cup {n + 2} \cup {n + 3} /\ Phis(b3) = Phis(b)
    BY <1>2, <1>4, <1>6
  <2>2. n + 1 \notin DOMAIN b.blocks /\ n + 2 \notin DOMAIN b.blocks
    BY <1>1
  <2> HIDE DEF n, on
  <2>3. n + 1 \notin Phis(b3) /\ n + 2 \notin Phis(b3)
    BY <1>8, <2>1, <2>2
  <2> QED BY <1>7, <2>1, <2>3 DEF Aims
<1>11. new \in W \cup {n + 1} \cup {n + 2} \cup {n + 3} /\ n + 1 \notin W
  <2>1. W \subseteq DOMAIN b.blocks
    BY DEF Shape
  <2> QED BY <1>1, <2>1
<1> DEFINE V == W \cup {n + 1} \cup {n + 2} \cup {n + 3}
<1> HIDE DEF on
<1> DEFINE U == W \cup {n + 2, n + 3}
<1>13. Without(V, new, U)
  BY <1>1, <1>11 DEF Without
<1>12. Shape(c, U) /\ Leads(b3, c, on)
  <2>1. Shape(b3, V) /\ new \in V
    BY <1>6, <1>11
  <2>2. "condbr" \in {"br", "condbr"}
    OBVIOUS
  <2> HIDE DEF V, new, n, U
  <2> QED BY <1>7, <1>10, <1>13, <2>1, <2>2, Branches DEF c
<1> USE DEF Leads
<1> HIDE DEF c
<1>14. \A q \in DOMAIN b.blocks : Preds(c, q) = Preds(b, q)
  <2>1. \A q \in DOMAIN b.blocks : q \notin ToSet(on)
    BY <1>1, <1>7
  <2> HIDE DEF n, new
  <2>2. \A q \in DOMAIN b.blocks : {p \in {b3.cur} : q \in ToSet(on)} = {}
    BY <2>1
  <2>3. \A q \in DOMAIN b.blocks : Preds(c, q) = Preds(b3, q)
    BY <1>12, <2>2
  <2> QED BY <1>2, <1>4, <1>6, <2>3
<1>15. Preds(c, n + 3) = {}
  <2>1. n + 3 \notin ToSet(on)
    BY <1>1, <1>7
  <2> QED BY <1>6, <1>12, <2>1
<1>16. c = Branch(NewBlock(NewBlock(NewBlock(b))), "condbr", args, <<new, new + 1>>, new)
  BY DEF c, b3, b2, b1, on
<1> QED BY <1>1, <1>2, <1>4, <1>6, <1>8, <1>12, <1>13, <1>14, <1>15, <1>16

\* An activation in the middle holds other blocks than the one on top.
LEMMA OthersHeld ==
  ASSUME FramesOK, NEW b, Blocks(b, frames), NEW k \in 1..(Len(frames) - 1), NEW q \in Held(frames[k])
  PROVE  q \notin Held(Top) /\ q \in DOMAIN b.blocks /\ q \notin Phis(b)
<1>1. Len(frames) \in Nat /\ Len(frames) > 0 /\ DOMAIN frames = 1..Len(frames)
      /\ Top = frames[Len(frames)]
  BY TopIs
<1> DEFINE n == Len(frames)
<1>2. k \in DOMAIN frames /\ Len(frames) \in DOMAIN frames /\ k # Len(frames)
  <2>1. n \in Nat /\ n > 0 /\ k \in 1..(n - 1)
    BY <1>1
  <2> HIDE DEF n
  <2>2. k \in 1..n /\ n \in 1..n /\ k # n
    BY <2>1
  <2> QED BY <1>1, <2>2 DEF n
<1>3. Held(frames[k]) \cap Held(Top) = {} /\ HeldOK(b, frames[k])
  BY <1>1, <1>2 DEF Blocks
<1> QED BY <1>3 DEF HeldOK

LEMMA TopHeld ==
  ASSUME FramesOK, NEW b, Blocks(b, frames)
  PROVE  /\ HeldOK(b, Top) /\ Waits(Top) \subseteq Awaited(frames) /\ Shape(b, Awaited(frames))
         /\ Held(Top) \subseteq DOMAIN b.blocks /\ Held(Top) \cap Phis(b) = {} /\ b \in Builder
<1>1. Len(frames) \in DOMAIN frames /\ Top = frames[Len(frames)]
  BY TopIs
<1>2. HeldOK(b, Top) /\ Shape(b, Awaited(frames))
  BY <1>1 DEF Blocks
<1> QED BY <1>1, <1>2 DEF Awaited, HeldOK, Shape

LEMMA One ==
  ASSUME NEW x
  PROVE  /\ ToSet(<<x>>) = {x} /\ IsInjective(<<x>>) /\ Last(<<x>>) = x /\ <<x>> # <<>> /\ Len(<<x>>) = 1
         /\ ToSet(<<>>) = {} /\ IsInjective(<<>>)
BY DEF ToSet, IsInjective, Last

LEMMA Two ==
  ASSUME NEW x, NEW y, x # y
  PROVE  /\ ToSet(<<x, y>>) = {x, y} /\ IsInjective(<<x, y>>) /\ Last(<<x, y>>) = y /\ <<x, y>> # <<>>
BY DEF ToSet, IsInjective, Last

LEMMA Pair1 ==
  ASSUME NEW s \in Seq(Nat)
  PROVE  /\ Len(s) = 0 => s = <<>>
         /\ Len(s) = 1 => s = <<s[1]>> /\ Last(s) = s[1] /\ s[1] \in Nat
         /\ Len(s) = 2 => s = <<s[1], s[2]>> /\ Last(s) = s[2] /\ s[1] \in Nat /\ s[2] \in Nat
BY DEF Last

\* What an activation that is waiting for a part of an if holds.
LEMMA NoneHeld ==
  ASSUME NEW b, NEW g, g.blocks = <<>>
  PROVE  Held(g) = {} /\ Waits(g) = {} /\ HeldOK(b, g)
BY One DEF Held, Waits, HeldOK

LEMMA IfBegins ==
  ASSUME Ready, Blocks(ir, frames), Top.node.type = "if", Top.blocks = <<>>, Top.from = <<>>,
         NEW args \in Seq(IRValue), NEW f2, f2.node = Top.node, f2.from = Top.from,
         f2.blocks = <<Newest(ir) + 2, Newest(ir) + 3>>
  PROVE  LET new == Newest(ir) + 1
         IN  Blocks(Branch(NewBlock(NewBlock(NewBlock(ir))), "condbr", args, <<new, new + 1>>, new), Put1(f2))
<1> DEFINE W == Awaited(frames)
           n == Len(ir.blocks)
           new == Newest(ir) + 1
           c == Branch(NewBlock(NewBlock(NewBlock(ir))), "condbr", args, <<new, new + 1>>, new)
<1>1. FramesOK /\ Shape(ir, W) /\ ir \in Builder
  BY TopHeld DEF Ready
<1>2. /\ n \in Nat /\ new = n + 1 /\ DOMAIN ir.blocks = 1..n
      /\ Shape(c, W \cup {n + 2, n + 3}) /\ DOMAIN ir.blocks \subseteq DOMAIN c.blocks
      /\ n + 2 \in DOMAIN c.blocks /\ n + 3 \in DOMAIN c.blocks /\ Phis(c) = Phis(ir)
      /\ Phis(ir) \subseteq DOMAIN ir.blocks
      /\ \A q \in DOMAIN ir.blocks : Preds(c, q) = Preds(ir, q)
      /\ Preds(c, n + 3) = {}
  <2> HIDE DEF W
  <2> QED BY <1>1, IfOpens
<1> HIDE DEF W, c
<1>3. f2.blocks = <<n + 2, n + 3>>
  BY DEF Newest
<1>4. ToSet(f2.blocks) = {n + 2, n + 3} /\ IsInjective(f2.blocks) /\ Last(f2.blocks) = n + 3 /\ f2.blocks # <<>>
  <2>1. n + 2 # n + 3
    BY <1>2
  <2> HIDE DEF n
  <2> QED BY <1>3, <2>1, Two
<1> HIDE DEF n, new
<1>5. Held(f2) = {n + 2, n + 3} /\ Waits(f2) = {n + 2, n + 3} /\ Waits(Top) = {}
  BY <1>4, NoneHeld DEF Held, Waits
<1>6. Apart(ir, c, frames, f2)
  <2> SUFFICES ASSUME NEW k \in 1..(Len(frames) - 1), NEW q \in Held(frames[k])
               PROVE  q \notin Phis(c) /\ Preds(c, q) = Preds(ir, q) /\ q \notin Held(f2)
    BY DEF Apart
  <2>1. q \in DOMAIN ir.blocks /\ q \notin Phis(ir)
    BY <1>1, OthersHeld
  <2>2. q # n + 2 /\ q # n + 3
    BY <1>2, <2>1
  <2> QED BY <1>2, <1>5, <2>1, <2>2
<1>7. HeldOK(c, f2)
  <2>1. n + 2 \notin Phis(c) /\ n + 3 \notin Phis(c)
    BY <1>2
  <2>2. ToSet(f2.from) = {}
    BY One
  <2> QED BY <1>2, <1>4, <1>5, <2>1, <2>2 DEF HeldOK
<1>8. Shape(c, (W \ Waits(Top)) \cup Waits(f2))
  <2>1. (W \ Waits(Top)) \cup Waits(f2) = W \cup {n + 2, n + 3}
    BY <1>5
  <2> QED BY <1>2, <2>1
<1>9. Blocks(c, Put1(f2))
  BY <1>1, <1>2, <1>6, <1>7, <1>8, PutBlocks DEF W
<1> QED BY <1>9 DEF c, new

LEMMA IfCloses ==
  ASSUME Ready, Blocks(ir, frames), Top.node.type = "if", NEW next \in Nat, NEW merge \in Nat,
         Top.blocks = <<next, merge>>, Top.from = <<>>,
         NEW f3, f3.node = Top.node, f3.from = <<ir.cur>>, f3.blocks = <<merge>>
  PROVE  Blocks(Branch(ir, "br", <<>>, <<merge>>, next), Put1(f3))
<1> DEFINE W == Awaited(frames)
           c == Branch(ir, "br", <<>>, <<merge>>, next)
           V == (W \ Waits(Top)) \cup {merge}
           on == <<merge>>
<1>1. FramesOK /\ Shape(ir, W) /\ ir \in Builder /\ HeldOK(ir, Top) /\ Waits(Top) \subseteq W
      /\ Held(Top) \subseteq DOMAIN ir.blocks /\ Held(Top) \cap Phis(ir) = {}
  BY TopHeld DEF Ready
<1>2. next # merge
  <2>1. IsInjective(<<next, merge>>)
    BY <1>1 DEF HeldOK
  <2> QED BY <2>1 DEF IsInjective
<1>3. ToSet(Top.blocks) = {next, merge} /\ Last(Top.blocks) = merge /\ Top.blocks # <<>>
  BY <1>2, Two
<1>4. Held(Top) = {next, merge} /\ Waits(Top) = {next, merge}
  BY <1>3 DEF Held, Waits
<1>5. Preds(ir, merge) = {}
  BY <1>1, <1>3, One DEF HeldOK
<1>6. Without(W, next, V) /\ next \in W
  BY <1>1, <1>2, <1>4 DEF Without
<1>7. on \in Seq(Nat) /\ ToSet(on) = {merge} /\ IsInjective(on) /\ Last(on) = merge /\ on # <<>>
  BY One
<1>8. Aims(ir, on)
  BY <1>1, <1>4, <1>7 DEF Aims
<1>9. Shape(c, V) /\ Leads(ir, c, on) /\ c \in Builder
  <2> DEFINE none == <<>>
  <2>1. none \in Seq(IRValue) /\ "br" \in {"br", "condbr"}
    OBVIOUS
  <2> HIDE DEF none, on, V, W, c
  <2>2. LET d == Branch(ir, "br", none, on, next) IN Shape(d, V) /\ Leads(ir, d, on) /\ d \in Builder
    BY <1>1, <1>6, <1>7, <1>8, <2>1, Branches
  <2> QED BY <2>2 DEF none, c, on
<1> HIDE DEF c, V, W
<1>10. Held(f3) = {merge} /\ Waits(f3) = {merge} /\ f3.blocks = on
  BY <1>7 DEF Held, Waits
<1> HIDE DEF on
<1>11. Apart(ir, c, frames, f3)
  <2> SUFFICES ASSUME NEW k \in 1..(Len(frames) - 1), NEW q \in Held(frames[k])
               PROVE  q \notin Phis(c) /\ Preds(c, q) = Preds(ir, q) /\ q \notin Held(f3)
    BY DEF Apart
  <2>1. q \notin Held(Top) /\ q \notin Phis(ir)
    BY <1>1, OthersHeld
  <2>2. q # merge
    BY <1>4, <2>1
  <2>3. q \notin ToSet(on)
    BY <1>7, <2>2
  <2> QED BY <1>9, <1>10, <2>1, <2>2, <2>3 DEF Leads
<1>12. HeldOK(c, f3)
  <2>1. Preds(c, merge) = {ir.cur}
    BY <1>5, <1>7, <1>9 DEF Leads
  <2>2. ToSet(f3.from) = {ir.cur}
    BY One
  <2>3. merge \in DOMAIN c.blocks \ Phis(c)
    BY <1>1, <1>4, <1>9 DEF Leads
  <2> QED BY <1>7, <1>10, <2>1, <2>2, <2>3 DEF HeldOK
<1>13. Shape(c, (W \ Waits(Top)) \cup Waits(f3))
  BY <1>9, <1>10 DEF V
<1>14. DOMAIN ir.blocks \subseteq DOMAIN c.blocks
  BY <1>9 DEF Leads
<1>15. Blocks(c, Put1(f3))
  BY <1>1, <1>11, <1>12, <1>13, <1>14, PutBlocks DEF W
<1> QED BY <1>15 DEF c

LEMMA IfEnds ==
  ASSUME Ready, Blocks(ir, frames), Top.node.type = "if", NEW merge \in Nat, NEW p \in Nat,
         Top.blocks = <<merge>>, Top.from = <<p>>, NEW vals \in Seq(IRValue),
         NEW g, g.blocks = <<>>
  PROVE  LET closed == Branch(ir, "br", <<>>, <<merge>>, merge)
             r == Define(closed, "phi", "", vals, <<p, ir.cur>>)
         IN  Blocks(r.b, Put1(g)) /\ r.b \in Builder /\ r.v \in IRValue
<1> DEFINE W == Awaited(frames)
           c == Branch(ir, "br", <<>>, <<merge>>, merge)
           V == W \ Waits(Top)
           on == <<merge>>
           ended == <<p, ir.cur>>
           r == Define(c, "phi", "", vals, ended)
           instr == Instr("phi", "", c.regs + 1, vals, ended)
<1>1. FramesOK /\ Shape(ir, W) /\ ir \in Builder /\ HeldOK(ir, Top) /\ Waits(Top) \subseteq W
      /\ Held(Top) \subseteq DOMAIN ir.blocks /\ Held(Top) \cap Phis(ir) = {}
  BY TopHeld DEF Ready
<1>2. on \in Seq(Nat) /\ ToSet(on) = {merge} /\ IsInjective(on) /\ Last(on) = merge /\ on # <<>>
      /\ Top.blocks = on /\ ToSet(Top.from) = {p}
  <2>1. on \in Seq(Nat) /\ ToSet(on) = {merge} /\ IsInjective(on) /\ Last(on) = merge /\ on # <<>>
    BY One
  <2>2. ToSet(<<p>>) = {p}
    BY One
  <2> QED BY <2>1, <2>2
<1>3. Held(Top) = {merge} /\ Waits(Top) = {merge}
  BY <1>2 DEF Held, Waits
<1>4. Preds(ir, merge) = {p}
  BY <1>1, <1>2 DEF HeldOK
<1>5. p # ir.cur
  <2>1. p \in Preds(ir, merge)
    BY <1>4
  <2> QED BY <2>1 DEF Preds
<1>6. Without(W, merge, V) /\ merge \in W
  BY <1>1, <1>3 DEF Without
<1>7. Aims(ir, on)
  BY <1>1, <1>2, <1>3 DEF Aims
<1>8. Shape(c, V) /\ Leads(ir, c, on) /\ c \in Builder /\ c.cur = merge /\ c.blocks[merge] = <<>>
  <2> DEFINE none == <<>>
  <2>1. none \in Seq(IRValue) /\ "br" \in {"br", "condbr"}
    OBVIOUS
  <2> HIDE DEF none, on, V, W, c
  <2>2. LET d == Branch(ir, "br", none, on, merge)
        IN Shape(d, V) /\ Leads(ir, d, on) /\ d \in Builder /\ d.cur = merge /\ d.blocks[merge] = <<>>
    BY <1>1, <1>2, <1>6, <1>7, <2>1, Branches
  <2> QED BY <2>2 DEF none, c, on
<1> HIDE DEF c, V, W, on
<1>9. ended \in Seq(Nat) /\ IsInjective(ended) /\ ToSet(ended) = {p, ir.cur}
  <2>1. ir.cur \in Nat
    BY <1>1 DEF Builder
  <2>2. ended \in Seq(Nat)
    BY <2>1
  <2> QED BY <1>5, <2>2, Two
<1>10. Preds(c, merge) = {p, ir.cur}
  BY <1>2, <1>4, <1>8 DEF Leads
<1> HIDE DEF ended
<1>11. /\ instr \in Instruction /\ instr.op = "phi" /\ instr.at = ended
       /\ r.b \in Builder /\ r.b.blocks = Insert(c, instr).blocks /\ r.b.cur = c.cur
       /\ r.v \in IRValue
  <2> DEFINE name == ""
             op == "phi"
  <2>1. name \in Label /\ op \in Op /\ c \in Builder /\ ended \in Seq(Nat) /\ vals \in Seq(IRValue)
    BY <1>8, <1>9, Labels DEF Op
  <2> HIDE DEF name, op
  <2>2. LET i == Instr(op, name, c.regs + 1, vals, ended)
            d == Define(c, op, name, vals, ended)
        IN  /\ i \in Instruction /\ i.op = op /\ i.at = ended
            /\ d.b \in Builder /\ d.b.blocks = Insert(c, i).blocks /\ d.b.cur = c.cur
            /\ d.v \in IRValue
    BY ONLY <2>1, DefineIs
  <2> QED BY <2>2 DEF name, op
<1> HIDE DEF r, instr
<1>12. /\ Shape(r.b, V) /\ DOMAIN r.b.blocks = DOMAIN c.blocks /\ Phis(r.b) = Phis(c) \cup {merge}
       /\ \A q : Preds(r.b, q) = Preds(c, q)
  <2>1. c.blocks[c.cur] = <<>> /\ IsInjective(instr.at) /\ ToSet(instr.at) = Preds(c, c.cur)
    BY <1>8, <1>9, <1>10, <1>11
  <2> QED BY <1>8, <1>11, <2>1, PhiKeeps
<1>13. Held(g) = {} /\ Waits(g) = {} /\ HeldOK(r.b, g)
  BY NoneHeld
<1>14. Apart(ir, r.b, frames, g)
  <2> SUFFICES ASSUME NEW k \in 1..(Len(frames) - 1), NEW q \in Held(frames[k])
               PROVE  q \notin Phis(r.b) /\ Preds(r.b, q) = Preds(ir, q) /\ q \notin Held(g)
    BY DEF Apart
  <2>1. q \notin Held(Top) /\ q \notin Phis(ir)
    BY <1>1, OthersHeld
  <2>2. q # merge
    BY <1>3, <2>1
  <2>3. q \notin ToSet(on)
    BY <1>2, <2>2
  <2> QED BY <1>8, <1>12, <1>13, <2>1, <2>2, <2>3 DEF Leads
<1>15. Shape(r.b, (W \ Waits(Top)) \cup Waits(g))
  <2>1. (W \ Waits(Top)) \cup Waits(g) = V
    BY <1>13 DEF V
  <2> QED BY <1>12, <2>1
<1>16. DOMAIN ir.blocks \subseteq DOMAIN r.b.blocks
  BY <1>8, <1>12 DEF Leads
<1>17. Blocks(r.b, Put1(g))
  BY <1>1, <1>13, <1>14, <1>15, <1>16, PutBlocks DEF W
<1> QED BY <1>11, <1>17 DEF r, c, ended

LEMMA AppendOne ==
  ASSUME NEW x \in Nat, NEW y \in Nat
  PROVE  Append(<<x>>, y) = <<x, y>>
<1> DEFINE one == <<x>>
           s == Append(one, y)
           t == <<x, y>>
<1>1. one \in Seq(Nat) /\ Len(one) = 1 /\ one[1] = x /\ DOMAIN one = 1..1
  OBVIOUS
<1>2. t \in Seq(Nat) /\ Len(t) = 2 /\ t[1] = x /\ t[2] = y
  OBVIOUS
<1> HIDE DEF one, t
<1>3. s \in Seq(Nat) /\ Len(s) = 2 /\ s[1] = x /\ s[2] = y
  <2>0. \A q \in Seq(Nat) : s = Append(q, y) =>
           /\ s \in Seq(Nat) /\ Len(s) = Len(q) + 1 /\ s[Len(q) + 1] = y
           /\ \A j \in DOMAIN q : s[j] = q[j]
    BY AppendSeq
  <2>1. s \in Seq(Nat) /\ Len(s) = Len(one) + 1 /\ s[Len(one) + 1] = y
    BY <1>1, <2>0
  <2>2. 1 \in DOMAIN one /\ s[1] = one[1]
    <3>1. 1 \in DOMAIN one
      BY <1>1
    <3> QED BY <1>1, <2>0, <3>1
  <2> QED BY <1>1, <2>1, <2>2
<1> HIDE DEF s
<1>4. \A i \in 1..2 : s[i] = t[i]
  BY <1>2, <1>3
<1>5. s = t
  BY <1>2, <1>3, <1>4
<1> QED BY <1>5 DEF s, t, one

LEMMA IfBlocks ==
  ASSUME Ready, Blocks(ir, frames), GenIf
  PROVE  Blocks(ir', frames')
<1> DEFINE new == Newest(ir) + 1
           blocks == NewBlock(NewBlock(NewBlock(ir)))
           next == Top.blocks[1]
           merge == Last(Top.blocks)
           ended == Append(Top.from, LastBlock(next - 1))
           closed == Branch(ir, "br", <<>>, <<merge>>, next)
           opened == Branch(blocks, "condbr", Top.vals, <<new, new + 1>>, new)
           r == Define(closed, "phi", "", Tail(Top.vals), ended)
           f2 == [Top EXCEPT !.blocks = <<new + 1, new + 2>>]
           f3 == [Top EXCEPT !.blocks = <<merge>>, !.from = ended]
<1>1. Top.node.type = "if"
  BY DEF GenIf, Reaches, Generating
<1>2. Top.node \in Nodes(fn.body)
  BY <1>1, ReadyTop
<1>3. /\ Parts(Top.node) = 1..3 /\ Top.vals \in Seq(IRValue) /\ Top.part \in 0..3
      /\ Top.blocks \in Seq(Nat) /\ Top.from \in Seq(Nat) /\ Top \in FrameType
      /\ Len(Top.vals) = Top.part
      /\ Top.part \in {0, 1} => Len(Top.blocks) = 0 /\ Len(Top.from) = 0
      /\ Top.part = 2 => Len(Top.blocks) = 2 /\ Len(Top.from) = 0
      /\ Top.part = 3 => Len(Top.blocks) = 1 /\ Len(Top.from) = 1
  BY <1>1, <1>2, IfIs DEF Ready
<1>4. FramesOK /\ fn.body \in Bodies /\ ir \in Builder /\ ir.cur \in Nat
  BY DEF Ready, Builder
<1>5. CASE Top.part = 0 /\ Visit(Top, 1) /\ UNCHANGED ir
  <2>1. Blocks(ir, frames')
    BY <1>3, <1>5, VisitTop
  <2> QED BY <1>5, <2>1
<1>6. CASE Top.part = 1 /\ ir' = opened /\ Visit(f2, 2)
  <2>1. Top.blocks = <<>> /\ Top.from = <<>>
    BY <1>3, <1>6
  <2>2. Newest(ir) \in Nat
    BY <1>4 DEF Newest, Builder
  <2>3. new + 1 = Newest(ir) + 2 /\ new + 2 = Newest(ir) + 3
    BY <2>2
  <2>4. /\ f2 \in FrameType /\ f2.node = Top.node /\ f2.from = Top.from
        /\ f2.blocks = <<Newest(ir) + 2, Newest(ir) + 3>>
    <3> DEFINE bs == <<new + 1, new + 2>>
    <3>1. bs \in Seq(Nat) /\ bs = <<Newest(ir) + 2, Newest(ir) + 3>>
      BY <2>2, <2>3
    <3> HIDE DEF bs
    <3>2. LET g == [Top EXCEPT !.blocks = bs]
          IN g \in FrameType /\ g.node = Top.node /\ g.from = Top.from /\ g.blocks = bs
      BY <1>3, <3>1 DEF FrameType
    <3> QED BY <3>1, <3>2 DEF bs
  <2> HIDE DEF f2
  <2>5. Blocks(opened, Put1(f2))
    BY <1>1, <1>3, <2>1, <2>4, IfBegins
  <2> HIDE DEF opened
  <2>6. Blocks(opened, frames')
    <3>1. 2 \in Parts(f2.node) /\ Visit(f2, 2)
      BY <1>3, <1>6, <2>4
    <3> QED BY <1>4, <2>4, <2>5, <3>1, VisitBlocks
  <2> QED BY <1>6, <2>6
<1>7. CASE Top.part = 2 /\ ir' = closed /\ Visit(f3, 3)
  <2>1. Len(Top.blocks) = 2 /\ Len(Top.from) = 0
    BY <1>3, <1>7
  <2>2. Top.blocks = <<next, merge>> /\ next \in Nat /\ merge \in Nat /\ Top.from = <<>>
    BY <1>3, <2>1, Pair1
  <2>3. ended = <<ir.cur>>
    BY <2>2 DEF LastBlock
  <2>4. f3 \in FrameType /\ f3.node = Top.node /\ f3.from = <<ir.cur>> /\ f3.blocks = <<merge>>
    <3> DEFINE bs == <<merge>>
               fr == <<ir.cur>>
    <3>1. bs \in Seq(Nat) /\ fr \in Seq(Nat)
      BY <1>4, <2>2
    <3>2. f3 = [Top EXCEPT !.blocks = bs, !.from = fr]
      BY <2>3
    <3> HIDE DEF bs, fr, f3
    <3>3. f3 \in FrameType /\ f3.node = Top.node /\ f3.from = fr /\ f3.blocks = bs
      BY <1>3, <3>1, <3>2 DEF FrameType
    <3> QED BY <3>3 DEF bs, fr
  <2> HIDE DEF f3, next, merge, ended
  <2>5. Blocks(closed, Put1(f3))
    BY <1>1, <2>2, <2>4, IfCloses
  <2> HIDE DEF closed
  <2>6. Blocks(closed, frames')
    <3>1. 3 \in Parts(f3.node) /\ Visit(f3, 3)
      BY <1>3, <1>7, <2>4
    <3> QED BY <1>4, <2>4, <2>5, <3>1, VisitBlocks
  <2> QED BY <1>7, <2>6
<1>8. CASE Top.part = 3 /\ Delivers(r)
  <2> DEFINE p == Top.from[1]
             g == [Top EXCEPT !.blocks = <<>>]
  <2>1. Len(Top.blocks) = 1 /\ Len(Top.from) = 1 /\ Len(Top.vals) > 0
    <3> HIDE DEF r
    <3>1. Len(Top.vals) = 3
      BY <1>3, <1>8
    <3> QED BY <1>3, <1>8, <3>1
  <2>2. Top.blocks = <<merge>> /\ next = merge /\ merge \in Nat
    BY <1>3, <2>1, Pair1
  <2>3. Top.from = <<p>> /\ p \in Nat
    BY <1>3, <2>1, Pair1
  <2>4. ended = <<p, ir.cur>>
    <3>1. LastBlock(next - 1) = ir.cur
      BY DEF LastBlock
    <3>2. ended = Append(<<p>>, ir.cur)
      BY <2>3, <3>1
    <3> HIDE DEF p, ended
    <3> QED BY <1>4, <2>3, <3>2, AppendOne
  <2>5. Tail(Top.vals) \in Seq(IRValue)
    BY <1>3, <2>1, TailSeq
  <2>6. g.blocks = <<>>
    BY <1>3 DEF FrameType
  <2> DEFINE c == Branch(ir, "br", <<>>, <<merge>>, merge)
             s == Define(c, "phi", "", Tail(Top.vals), <<p, ir.cur>>)
  <2>7. r = s
    BY <2>2, <2>4
  <2> HIDE DEF g, p, r
  <2>8. Blocks(s.b, Put1(g)) /\ s.b \in Builder /\ s.v \in IRValue
    <3> HIDE DEF merge
    <3> QED BY <1>1, <2>2, <2>3, <2>5, <2>6, IfEnds
  <2> HIDE DEF s
  <2>9. Gives(r.v) /\ ir' = r.b
    BY <1>8 DEF Delivers
  <2>10. Blocks(s.b, frames')
    BY <1>1, <1>4, <2>6, <2>7, <2>8, <2>9, GivesBlocks
  <2> QED BY <2>7, <2>9, <2>10
<1> QED BY <1>5, <1>6, <1>7, <1>8 DEF GenIf

\* A branch to a new block, and perhaps to one that the loop holds.
LEMMA LoopBranch ==
  ASSUME FramesOK, NEW e, Blocks(e, frames), Top.node.type # "if", NEW op \in {"br", "condbr"},
         NEW args \in Seq(IRValue), NEW on \in Seq(Nat), NEW new, new = Newest(NewBlock(e)),
         ToSet(on) \subseteq Held(Top) \cup {new},
         NEW g, Held(g) \subseteq {new}, IsInjective(g.blocks), g.node.type # "if" \/ g.blocks = <<>>
  PROVE  Blocks(Branch(NewBlock(e), op, args, on, new), Put1(g))
<1> DEFINE W == Awaited(frames)
           V == W \cup {new}
           b == NewBlock(e)
           c == Branch(b, op, args, on, new)
<1>1. /\ Shape(e, W) /\ e \in Builder /\ Held(Top) \subseteq DOMAIN e.blocks
      /\ Held(Top) \cap Phis(e) = {}
  BY TopHeld
<1>2. new = Len(e.blocks) + 1 /\ new \in Nat
  BY <1>1, NewBlockIs
<1> HIDE DEF W
<1>3. /\ Shape(b, V) /\ DOMAIN b.blocks = DOMAIN e.blocks \cup {new}
      /\ Phis(b) = Phis(e) /\ new \notin DOMAIN e.blocks
      /\ \A q : Preds(b, q) = Preds(e, q)
  BY <1>1, <1>2, NewBlockKeeps
<1>4. Phis(e) \subseteq DOMAIN e.blocks
  BY DEF Phis
<1>5. Aims(b, on)
  BY <1>1, <1>3, <1>4 DEF Aims
<1>6. Without(V, new, W) /\ new \in V
  <2>1. W \subseteq DOMAIN e.blocks
    BY <1>1 DEF Shape
  <2> QED BY <1>3, <2>1 DEF Without
<1> HIDE DEF V, b
<1>7. Shape(c, W) /\ Leads(b, c, on)
  BY <1>3, <1>5, <1>6, Branches
<1> HIDE DEF c
<1>8. Waits(g) = {} /\ Waits(Top) = {}
  BY NoneHeld DEF Waits
<1>9. new \in DOMAIN c.blocks \ Phis(c)
  BY <1>3, <1>4, <1>7 DEF Leads
<1>10. HeldOK(c, g)
  BY <1>9 DEF HeldOK
<1>11. Apart(e, c, frames, g)
  <2> SUFFICES ASSUME NEW k \in 1..(Len(frames) - 1), NEW q \in Held(frames[k])
               PROVE  q \notin Phis(c) /\ Preds(c, q) = Preds(e, q) /\ q \notin Held(g)
    BY DEF Apart
  <2>1. q \notin Held(Top) /\ q \notin Phis(e) /\ q \in DOMAIN e.blocks
    BY OthersHeld
  <2>2. q # new
    BY <1>3, <2>1
  <2>3. q \notin ToSet(on)
    BY <2>1, <2>2
  <2> QED BY <1>3, <1>7, <2>1, <2>2, <2>3 DEF Leads
<1>12. Shape(c, (W \ Waits(Top)) \cup Waits(g))
  <2>1. (W \ Waits(Top)) \cup Waits(g) = W
    BY <1>8
  <2> QED BY <1>7, <2>1
<1>13. DOMAIN e.blocks \subseteq DOMAIN c.blocks
  BY <1>3, <1>7 DEF Leads
<1>14. Blocks(c, Put1(g))
  BY <1>10, <1>11, <1>12, <1>13, PutBlocks DEF W
<1> QED BY <1>14 DEF c, b

LEMMA ForBegins ==
  ASSUME Ready, Blocks(ir, frames), Top.node.type = "for", NEW vals \in Seq(IRValue),
         NEW variable \in Nat, NEW f4, f4.node = Top.node,
         f4.blocks = <<Newest(NewBlock(Effect(ir, "store", vals, <<variable>>)))>>
  PROVE  LET stored == NewBlock(Effect(ir, "store", vals, <<variable>>))
             loop == Newest(stored)
         IN  Blocks(Branch(stored, "br", <<>>, <<loop>>, loop), Put1(f4))
<1> DEFINE e == Effect(ir, "store", vals, <<variable>>)
           loop == Newest(NewBlock(e))
           on == <<loop>>
           none == <<>>
<1>1. Blocks(e, frames) /\ e \in Builder
  <2> DEFINE v == <<variable>>
  <2>1. v \in Seq(Nat) /\ "store" \in Plain
    BY DEF Plain
  <2> HIDE DEF v
  <2>2. Blocks(Effect(ir, "store", vals, v), frames) /\ Effect(ir, "store", vals, v) \in Builder
    BY <2>1, EffectBlocks
  <2> QED BY <2>2 DEF v
<1> HIDE DEF e
<1>2. loop \in Nat
  BY <1>1, NewBlockIs
<1> HIDE DEF loop
<1>3. on \in Seq(Nat) /\ ToSet(on) = {loop} /\ IsInjective(on) /\ none \in Seq(IRValue)
  BY <1>2, One
<1>4. f4.blocks = on
  BY DEF loop, e
<1> HIDE DEF on, none
<1>5. Held(f4) \subseteq {loop} /\ IsInjective(f4.blocks) /\ ToSet(on) \subseteq Held(Top) \cup {loop}
  BY <1>3, <1>4 DEF Held
<1>6. Blocks(Branch(NewBlock(e), "br", none, on, loop), Put1(f4))
  <2>1. FramesOK /\ "br" \in {"br", "condbr"} /\ loop = Newest(NewBlock(e)) /\ Top.node.type # "if"
        /\ f4.node.type # "if"
    BY DEF Ready, loop
  <2> QED BY <1>1, <1>3, <1>5, <2>1, LoopBranch
<1> QED BY <1>6 DEF e, loop, on, none

LEMMA ForEnds ==
  ASSUME Ready, Blocks(ir, frames), Top.node.type = "for", NEW v3 \in IRValue, NEW v4 \in IRValue,
         NEW variable \in Nat, NEW first \in Nat, Top.blocks = <<first>>, NEW g, g.blocks = <<>>
  PROVE  LET cur == Define(ir, "load", "", <<>>, <<variable>>)
             next == Define(cur.b, "+", "", <<cur.v, v3>>, <<>>)
             kept == NewBlock(Effect(next.b, "store", <<next.v>>, <<variable>>))
         IN  Blocks(Branch(kept, "condbr", <<v4>>, <<first, Newest(kept)>>, Newest(kept)), Put1(g))
<1> DEFINE cur == Define(ir, "load", "", <<>>, <<variable>>)
           next == Define(cur.b, "+", "", <<cur.v, v3>>, <<>>)
           e == Effect(next.b, "store", <<next.v>>, <<variable>>)
           new == Newest(NewBlock(e))
           args == <<cur.v, v3>>
           one == <<next.v>>
           test == <<v4>>
           on == <<variable>>
           to == <<first, new>>
           noValues == <<>>
           nowhere == <<>>
           name == ""
<1>1. /\ "load" \in Plain /\ "+" \in Plain /\ "store" \in Plain /\ "condbr" \in {"br", "condbr"}
      /\ name \in Label /\ on \in Seq(Nat) /\ noValues \in Seq(IRValue) /\ nowhere \in Seq(Nat)
      /\ test \in Seq(IRValue)
  BY Labels DEF Plain
<1> HIDE DEF name, on, noValues, nowhere, test
<1>2. Blocks(cur.b, frames) /\ cur.v \in IRValue
  <2>1. LET r == Define(ir, "load", name, noValues, on) IN Blocks(r.b, frames) /\ r.v \in IRValue
    BY <1>1, DefineBlocks
  <2> QED BY <2>1 DEF name, on, noValues
<1> HIDE DEF cur
<1>3. args \in Seq(IRValue)
  BY <1>2
<1> HIDE DEF args
<1>4. Blocks(next.b, frames) /\ next.v \in IRValue
  <2>1. LET r == Define(cur.b, "+", name, args, nowhere) IN Blocks(r.b, frames) /\ r.v \in IRValue
    BY <1>1, <1>2, <1>3, DefineBlocks
  <2> QED BY <2>1 DEF name, nowhere, args
<1> HIDE DEF next
<1>5. one \in Seq(IRValue)
  BY <1>4
<1> HIDE DEF one
<1>6. Blocks(e, frames) /\ e \in Builder
  <2>1. Blocks(Effect(next.b, "store", one, on), frames) /\ Effect(next.b, "store", one, on) \in Builder
    BY <1>1, <1>4, <1>5, EffectBlocks
  <2> QED BY <2>1 DEF one, on
<1> HIDE DEF e
<1>7. new \in Nat /\ new = Len(e.blocks) + 1 /\ DOMAIN e.blocks = 1..Len(e.blocks) /\ Len(e.blocks) \in Nat
  BY <1>6, NewBlockIs, BlocksTyped
<1>8. first # new
  <2>1. first \in Held(Top)
    BY One DEF Held
  <2>2. first \in DOMAIN e.blocks
    BY <1>6, <2>1, TopHeld DEF Ready
  <2> QED BY <1>7, <2>2
<1> HIDE DEF new
<1>9. to \in Seq(Nat) /\ ToSet(to) = {first, new}
  BY <1>7, <1>8, Two
<1> HIDE DEF to
<1>10. ToSet(to) \subseteq Held(Top) \cup {new}
  BY <1>9, One DEF Held
<1>11. Held(g) \subseteq {new} /\ IsInjective(g.blocks)
  BY NoneHeld, One
<1>12. Blocks(Branch(NewBlock(e), "condbr", test, to, new), Put1(g))
  <2>1. FramesOK /\ new = Newest(NewBlock(e)) /\ Top.node.type # "if"
    BY DEF Ready, new
  <2> QED BY <1>1, <1>6, <1>9, <1>10, <1>11, <2>1, LoopBranch
<1> QED BY <1>12 DEF e, new, to, test, next, cur

LEMMA ForBlocks ==
  ASSUME Ready, Blocks(ir, frames), GenFor
  PROVE  Blocks(ir', frames')
<1> DEFINE node == Top.node
           vals == Top.vals
           stored == NewBlock(Effect(ir, "store", vals, <<Top.variable>>))
           loop == Newest(stored)
           cur == Define(ir, "load", "", <<>>, <<Top.variable>>)
           next == Define(cur.b, "+", "", <<cur.v, vals[3]>>, <<>>)
           kept == NewBlock(Effect(next.b, "store", <<next.v>>, <<Top.variable>>))
           start == Branch(stored, "br", <<>>, <<loop>>, loop)
           test == Branch(kept, "condbr", <<vals[4]>>, <<Top.blocks[1], Newest(kept)>>, Newest(kept))
           f1 == [Top EXCEPT !.variable = ir.vars + 1]
           f4 == [Top EXCEPT !.blocks = <<loop>>, !.old = <<NamedValues[node.name]>>]
<1>1. Top.node.type = "for"
  BY DEF GenFor, Reaches, Generating
<1>2. Top.node \in Nodes(fn.body)
  BY <1>1, ReadyTop
<1>3. /\ node.name \in Name /\ vals \in Seq(IRValue) /\ Top.blocks \in Seq(Nat) /\ Top.from \in Seq(Nat)
      /\ Top.old \in Seq(Nat) /\ Top.variable \in Nat /\ Top \in FrameType
      /\ Place(node, 2) = 4 /\ Len(vals) = Place(node, Top.part)
      /\ Len(Top.blocks) = IF Top.part < 2 THEN 0 ELSE 1
  BY <1>1, <1>2, ForIs DEF Ready
<1>4. ir \in Builder /\ FramesOK /\ fn.body \in Bodies /\ NamedValues \in [Name -> Nat]
  BY DEF Ready
<1>5. {1, 2, 4} \subseteq Parts(node) /\ (3 \in Parts(node) \/ node.of[3] = Absent)
  BY <1>1, <1>2, ForIs DEF Ready
<1>6. CASE Top.part = 0 /\ ir' = Alloca(ir) /\ Visit(f1, 1)
  <2>1. ir.vars + 1 \in Nat
    BY <1>4, AllocaIs
  <2>2. f1 \in FrameType /\ f1.node = Top.node /\ Alike(Top, f1)
    BY <1>3, <2>1 DEF FrameType, Alike
  <2> HIDE DEF f1
  <2>3. Blocks(Alloca(ir), frames)
    BY AllocaBlocks
  <2>4. Blocks(Alloca(ir), Put1(f1))
    BY <1>4, <2>2, <2>3, AlikePut
  <2>5. 1 \in Parts(f1.node) /\ Visit(f1, 1)
    BY <1>5, <1>6, <2>2
  <2>6. Blocks(Alloca(ir), frames')
    BY <1>4, <2>2, <2>4, <2>5, VisitBlocks
  <2> QED BY <1>6, <2>6
<1>7. CASE Top.part = 1 /\ ir' = start /\ Visit(f4, 4)
  <2>1. loop \in Nat
    BY <1>3, <1>4, ForBuilders
  <2>2. f4 \in FrameType /\ f4.node = Top.node /\ f4.blocks = <<loop>>
    <3> DEFINE bs == <<loop>>
               o == <<NamedValues[node.name]>>
    <3> HIDE DEF loop
    <3>1. bs \in Seq(Nat) /\ o \in Seq(Nat)
      BY <1>3, <1>4, <2>1
    <3> HIDE DEF bs, o
    <3>2. LET g == [Top EXCEPT !.blocks = bs, !.old = o]
          IN g \in FrameType /\ g.node = Top.node /\ g.blocks = bs
      BY <1>3, <3>1 DEF FrameType
    <3> QED BY <3>1, <3>2 DEF bs, o
  <2> HIDE DEF f4
  <2>3. Blocks(start, Put1(f4))
    <3>1. f4.node = Top.node /\ f4.blocks = <<Newest(NewBlock(Effect(ir, "store", Top.vals, <<Top.variable>>)))>>
      BY <2>2
    <3> QED BY <1>1, <1>3, <3>1, ForBegins
  <2> HIDE DEF start
  <2>4. 4 \in Parts(f4.node) /\ Visit(f4, 4)
    BY <1>5, <1>7, <2>2
  <2>5. Blocks(start, frames')
    BY <1>4, <2>2, <2>3, <2>4, VisitBlocks
  <2> QED BY <1>7, <2>5
<1>8. CASE Top.part = 4 /\ VisitOr(Top, 3, 1) /\ UNCHANGED ir
  <2>1. CASE node.of[3] = Absent
    <3>1. Top.node.of[3] = Absent /\ 1 \in Int /\ 3 \in Nat
      BY <2>1
    <3>2. Blocks(ir, Put1(Top))
      BY <1>4, PutTop
    <3>3. Blocks(ir, frames')
      BY <1>3, <1>4, <1>8, <3>1, <3>2, DefaultBlocks
    <3> QED BY <1>8, <3>3
  <2>2. CASE node.of[3] # Absent
    <3>1. 3 \in Parts(Top.node) /\ Visit(Top, 3)
      BY <1>5, <1>8, <2>2 DEF VisitOr
    <3>2. Blocks(ir, frames')
      BY <3>1, VisitTop
    <3> QED BY <1>8, <3>2
  <2> QED BY <2>1, <2>2
<1>9. CASE Top.part = 3 /\ Visit(Top, 2) /\ UNCHANGED ir
  <2>1. Blocks(ir, frames')
    BY <1>5, <1>9, VisitTop
  <2> QED BY <1>9, <2>1
<1>10. CASE Top.part = 2 /\ Delivers(Result(test, Const(0)))
  <2> DEFINE first == Top.blocks[1]
             g == [Top EXCEPT !.blocks = <<>>]
  <2> HIDE DEF test, cur, next, kept
  <2>1. vals[3] \in IRValue /\ vals[4] \in IRValue
    <3>1. Len(vals) = 4
      BY <1>3, <1>10
    <3>2. DOMAIN vals = 1..Len(vals) /\ \A i \in 1..Len(vals) : vals[i] \in IRValue
      BY <1>3
    <3>3. 3 \in 1..4 /\ 4 \in 1..4
      OBVIOUS
    <3> QED BY <3>1, <3>2, <3>3
  <2>2. Top.blocks = <<first>> /\ first \in Nat
    <3>1. Len(Top.blocks) = 1
      BY <1>3, <1>10
    <3> QED BY <1>3, <3>1, Pair1
  <2>3. g.blocks = <<>>
    BY <1>3 DEF FrameType
  <2> HIDE DEF g, first, vals
  <2>4. Blocks(test, Put1(g))
    BY <1>1, <1>3, <2>1, <2>2, <2>3, ForEnds DEF test, kept, next, cur, first
  <2>5. Gives(Const(0)) /\ ir' = test /\ Const(0) \in IRValue
    BY <1>10, ConstIs DEF Delivers, Result
  <2>6. Blocks(test, frames')
    BY <1>1, <1>4, <2>3, <2>4, <2>5, GivesBlocks
  <2> QED BY <2>5, <2>6
<1> QED BY <1>6, <1>7, <1>8, <1>9, <1>10 DEF GenFor

\* Every method but if (!X) return nullptr.
Method ==
  GenNumber \/ GenVariable \/ GenCall \/ GenAssignment \/ GenBinary \/ GenIf \/ GenFor \/ GenVar

LEMMA MethodBlocks ==
  ASSUME Ready, Blocks(ir, frames), Method
  PROVE  Blocks(ir', frames')
BY NumberBlocks, VariableBlocks, CallBlocks, AssignmentBlocks, BinaryBlocks, IfBlocks, ForBlocks, VarBlocks
   DEF Method

-----------------------------------------------------------------------------
(* What a method does to the activations: it goes on or it returns.        *)

Goes(f, i) ==
  \/ i \in Parts(f.node) /\ Visit(f, i)
  \/ i \in Nat /\ f.node.of[i] = Absent /\ \E d \in Int : VisitOr(f, i, d)

\* A name comes into scope, or none does.
Binds(f) ==
  \/ f.old = Top.old /\ UNCHANGED NamedValues
  \/ \E name \in Name, variable \in Nat \ {0} :
       /\ Len(Top.old) + 1 \in DOMAIN Names(Top.node) /\ name = Names(Top.node)[Len(Top.old) + 1]
       /\ f.old = Append(Top.old, NamedValues[name])
       /\ NamedValues' = [NamedValues EXCEPT ![name] = variable]

Advances(f, i) ==
  /\ f \in FrameType /\ f.node = Top.node /\ f.vals = Top.vals /\ Goes(f, i)
  /\ i \in Nat \ {0} /\ Place(Top.node, i) = Place(Top.node, Top.part) + 1
  /\ f.node.type = "for" => f.variable # 0
  /\ Other(Top.node) \/ ~Bad(Top)
  /\ Binds(f)

\* All that the node names was found.
Complete ==
  /\ Top.node.type = "variable" => NamedValues[Top.node.name] # 0
  /\ Top.node.type \in {"call", "unary"} => Declared(Top.node.name, Len(Top.node.of))
  /\ \A i \in Parts(Top.node) :
       \/ i \in Done(Top, TRUE)
       \/ /\ Top.node.of[i].type = "variable" /\ NamedValues[Top.node.of[i].name] # 0
          /\ Top.old = <<>> /\ InScope(Top.node, i) = 0

\* Something that the node names was not.
Faulty ==
  /\ Top.old = <<>>
  /\ \/ Top.node.type = "variable" /\ NamedValues[Top.node.name] = 0
     \/ Top.node.type \in {"call", "unary"} /\ ~Declared(Top.node.name, Len(Top.node.of))
     \/ \E i \in Parts(Top.node) :
          /\ Top.node.of[i].type = "variable" /\ NamedValues[Top.node.of[i].name] = 0
          /\ InScope(Top.node, i) = 0

\* The names of the node leave the scope.
Closes ==
  \/ Top.old = <<>> /\ UNCHANGED NamedValues
  \/ /\ DOMAIN Names(Top.node) = DOMAIN Top.old
     /\ NamedValues' = Unshadow(Names(Top.node), Top.old)

Returns(v) ==
  /\ Top.node.type # "function" /\ v \in IRValue /\ Gives(v)
  /\ \/ v = NoValue /\ (Bad(Top) \/ Faulty)
     \/ v # NoValue /\ ~Bad(Top) /\ Complete /\ Closes

Proceeds == (\E f, i : Advances(f, i)) \/ (\E v : Returns(v))

LEMMA NotBad ==
  ASSUME Ready, ValsOK, Top.node.type # "function", ~Other(Top.node), ~Failing
  PROVE  ~Bad(Top)
<1>1. /\ Len(frames) \in DOMAIN frames /\ Top = frames[Len(frames)] /\ Top.vals \in Seq(IRValue)
      /\ Len(Top.vals) = Place(Top.node, Top.part)
  BY TopIs DEF Ready
<1>2. SUFFICES ASSUME Bad(Top) PROVE FALSE
  OBVIOUS
<1>3. PICK i \in DOMAIN Top.vals : Top.vals[i] = NoValue
  BY <1>2 DEF Bad, ToSet
<1>4. i = Len(Top.vals)
  BY <1>1, <1>3 DEF ValsOK
<1>5. CASE Top.part = 0
  <2>1. Len(Top.vals) = 0
    BY <1>1, <1>5, Unstarted
  <2> QED BY <1>1, <1>3, <2>1
<1>6. CASE Top.part # 0
  BY <1>3, <1>4, <1>6 DEF Failing, Last
<1> QED BY <1>5, <1>6

LEMMA NoOld ==
  ASSUME Ready, Top.node.type \notin {"for", "var"}
  PROVE  Top.old = <<>> /\ \A i : InScope(Top.node, i) = 0
<1>1. LocalsOK(Top) /\ Top.old \in Seq(Nat)
  BY TopIs DEF Ready
<1>2. \A i : InScope(Top.node, i) = 0
  BY DEF InScope
<1>3. Len(Top.old) = 0
  BY <1>1, <1>2 DEF LocalsOK
<1> QED BY <1>1, <1>2, <1>3

\* A return without parts left, of a node that brings no name into scope.
LEMMA GivesReturns ==
  ASSUME Ready, Top.node.type \notin {"for", "var", "function"}, NEW v \in IRValue, Gives(v),
         UNCHANGED NamedValues,
         \/ v = NoValue /\ (Bad(Top) \/ Faulty)
         \/ v # NoValue /\ ~Bad(Top) /\ Complete
  PROVE  Proceeds
<1>1. Top.old = <<>>
  BY NoOld
<1>2. Returns(v)
  BY <1>1 DEF Returns, Closes
<1> QED BY <1>2, Zenon DEF Proceeds

LEMMA NoParts ==
  ASSUME Ready, Top.node.type \in {"number", "variable"}
  PROVE  Parts(Top.node) = {}
<1>1. fn.body \in Bodies /\ Top.node \in Nodes(fn.body)
  BY ReadyTop DEF Ready
<1>2. Top.node \in Nodes(fn.body) \cup {Function(fn.body)}
  BY <1>1
<1>3. Parts(Top.node) \subseteq 1..Len(Top.node.of)
  BY <1>1, <1>2, NodeShape
<1>4. Len(Top.node.of) = 0
  BY <1>1, NodeKinds
<1>5. 1..0 = {}
  OBVIOUS
<1> QED BY <1>3, <1>4, <1>5

LEMMA NumberProceeds ==
  ASSUME Ready, ValsOK, GenNumber
  PROVE  Proceeds
<1>1. Top.node.type = "number" /\ ~Failing
  BY DEF GenNumber, Reaches, Generating
<1>2. Top.node \in Nodes(fn.body)
  BY <1>1, ReadyTop
<1>3. Val[Top.node.name] \in Int /\ Parts(Top.node) = {}
  BY <1>1, <1>2, NodeKinds, NoParts, CodeGenAssumption DEF Ready
<1>4. Complete
  BY <1>1, <1>3 DEF Complete
<1>5. ~Bad(Top)
  BY <1>1, NotBad DEF Other
<1> QED BY <1>1, <1>3, <1>4, <1>5, ConstIs, GivesReturns DEF GenNumber

LEMMA VariableProceeds ==
  ASSUME Ready, ValsOK, GenVariable
  PROVE  Proceeds
<1> DEFINE variable == NamedValues[Top.node.name]
           r == Define(ir, "load", "", <<>>, <<variable>>)
<1>1. Top.node.type = "variable" /\ ~Failing /\ UNCHANGED NamedValues
  BY DEF GenVariable, Reaches, Generating
<1>2. Top.node \in Nodes(fn.body)
  BY <1>1, ReadyTop
<1>3. variable \in Nat
  BY <1>1, <1>2, NodeKinds DEF Ready
<1>4. r.v \in IRValue /\ r.v # NoValue
  <2> DEFINE on == <<variable>>
             none == <<>>
             name == ""
  <2>1. "load" \in Op /\ name \in Label /\ on \in Seq(Nat) /\ none \in Seq(IRValue) /\ ir \in Builder
    BY <1>3, Labels DEF Op, Ready
  <2> HIDE DEF variable, on, none, name
  <2>2. LET s == Define(ir, "load", name, none, on) IN s.v \in IRValue /\ s.v # NoValue
    BY ONLY <2>1, DefineIs
  <2> QED BY <2>2 DEF on, none, name
<1>5. Parts(Top.node) = {}
  BY <1>1, NoParts
<1>6. CASE variable = 0 /\ Failed
  <2>1. Faulty
    BY <1>1, <1>6, NoOld DEF Faulty
  <2> QED BY <1>1, <1>6, <2>1, NoValueIs, GivesReturns DEF Failed
<1>7. CASE variable # 0 /\ Delivers(r)
  <2> HIDE DEF r
  <2>1. Complete
    BY <1>1, <1>5, <1>7 DEF Complete
  <2>2. ~Bad(Top)
    BY <1>1, NotBad DEF Other
  <2> QED BY <1>1, <1>4, <1>7, <2>1, <2>2, GivesReturns DEF Delivers
<1> QED BY <1>6, <1>7 DEF GenVariable

\* A visit of the next part that brings no name into scope.
LEMMA VisitProceeds ==
  ASSUME Ready, Top.node.type \notin {"for", "function"}, NEW i \in Parts(Top.node), Visit(Top, i),
         UNCHANGED NamedValues, Place(Top.node, i) = Place(Top.node, Top.part) + 1,
         Other(Top.node) \/ ~Bad(Top)
  PROVE  Proceeds
<1>1. Top \in FrameType
  BY TopIs DEF Ready
<1>2. i \in Nat \ {0}
  <2>1. Top.node \in Nodes(fn.body)
    BY ReadyTop
  <2> QED BY <2>1, NodeShape DEF Ready
<1>3. Advances(Top, i)
  BY <1>1, <1>2 DEF Advances, Goes, Binds
<1> QED BY <1>3, Zenon DEF Proceeds

LEMMA CallProceeds ==
  ASSUME Ready, ValsOK, GenCall
  PROVE  Proceeds
<1> DEFINE arity == Len(Top.node.of)
           r == Define(ir, "call", Top.node.name, Top.vals, <<>>)
<1>1. Top.node.type \in {"call", "unary"} /\ ~Failing /\ UNCHANGED NamedValues
  BY DEF GenCall, Reaches, Generating
<1>2. Top.node \in Nodes(fn.body)
  BY <1>1, ReadyTop
<1>3. Top.node.name \in Label /\ Parts(Top.node) = 1..arity /\ Top.vals \in Seq(IRValue) /\ Top.part \in Nat
      /\ arity \in Nat
  BY <1>1, <1>2, NodeKinds, NodeShape, TopIs DEF Ready
<1>4. r.v \in IRValue /\ r.v # NoValue
  <2> DEFINE none == <<>>
  <2>1. "call" \in Op /\ none \in Seq(Nat) /\ ir \in Builder
    BY Labels DEF Op, Ready
  <2> HIDE DEF none
  <2>2. LET s == Define(ir, "call", Top.node.name, Top.vals, none) IN s.v \in IRValue /\ s.v # NoValue
    BY ONLY <1>3, <2>1, DefineIs
  <2> QED BY <2>2 DEF none
<1>5. ~Bad(Top)
  BY <1>1, NotBad DEF Other
<1>6. \A i \in Nat : Place(Top.node, i) = i
  BY <1>1, PlaceOf
<1> HIDE DEF r
<1>7. CASE Top.part < arity /\ Visit(Top, Top.part + 1)
  <2>1. Top.part + 1 \in Parts(Top.node) /\ Top.part + 1 \in Nat
    BY <1>3, <1>7
  <2>2. Place(Top.node, Top.part + 1) = Place(Top.node, Top.part) + 1
    BY <1>3, <1>6, <2>1
  <2> QED BY <1>1, <1>5, <1>7, <2>1, <2>2, VisitProceeds
<1>8. CASE ~Declared(Top.node.name, arity) /\ Failed
  <2>1. Faulty
    BY <1>1, <1>8, NoOld DEF Faulty
  <2> QED BY <1>1, <1>8, <2>1, NoValueIs, GivesReturns DEF Failed
<1>9. CASE Top.part = arity /\ Declared(Top.node.name, arity) /\ Delivers(r)
  <2>1. \A i \in Parts(Top.node) : i \in Done(Top, TRUE)
    <3> SUFFICES ASSUME NEW i \in Parts(Top.node) PROVE i \in Done(Top, TRUE)
      OBVIOUS
    <3>1. Place(Top.node, i) = i /\ Place(Top.node, Top.part) = Top.part /\ (i < Top.part \/ i = Top.part)
      BY <1>3, <1>6, <1>9
    <3> QED BY <3>1 DEF Done
  <2>2. Complete
    BY <1>1, <1>9, <2>1 DEF Complete
  <2> QED BY <1>1, <1>4, <1>5, <1>9, <2>2, GivesReturns DEF Delivers
<1> QED BY <1>7, <1>8, <1>9 DEF GenCall, r

LEMMA AssignmentProceeds ==
  ASSUME Ready, ValsOK, GenAssignment
  PROVE  Proceeds
<1> DEFINE variable == NamedValues[Top.node.of[1].name]
           e == Effect(ir, "store", Top.vals, <<variable>>)
           r == Result(e, Top.vals[1])
<1>1. Top.node.type = "binary" /\ Top.node.name = "=" /\ ~Failing /\ UNCHANGED NamedValues
  BY DEF GenAssignment, Reaches, Generating
<1>2. Top.node \in Nodes(fn.body)
  BY <1>1, ReadyTop
<1>3. /\ Parts(Top.node) = 1..2 /\ Top.vals \in Seq(IRValue) /\ Top.node.of[1].type = "variable"
      /\ Len(Top.vals) = Place(Top.node, Top.part) /\ Top.part \in Nat
  BY <1>1, <1>2, NodeKinds, TopIs DEF Ready
<1>4. ~Bad(Top)
  BY <1>1, NotBad DEF Other
<1>5. Place(Top.node, 0) = 0 /\ Place(Top.node, 2) = 1 /\ Place(Top.node, 1) = 2
  BY <1>1, PlaceOf
<1>6. Top.old = <<>> /\ \A i : InScope(Top.node, i) = 0
  BY <1>1, NoOld
<1>7. 1 \in Parts(Top.node) /\ 2 \in Parts(Top.node)
  BY <1>3
<1>8. CASE Top.part = 0 /\ Visit(Top, 2)
  <2>1. Place(Top.node, 2) = Place(Top.node, Top.part) + 1
    BY <1>5, <1>8
  <2> QED BY <1>1, <1>4, <1>7, <1>8, <2>1, VisitProceeds
<1>9. CASE Top.part = 2 /\ variable = 0 /\ Failed
  <2>1. Faulty
    BY <1>3, <1>6, <1>7, <1>9 DEF Faulty
  <2> QED BY <1>1, <1>9, <2>1, NoValueIs, GivesReturns DEF Failed
<1>10. CASE Top.part = 2 /\ variable # 0 /\ Delivers(r)
  <2>1. Len(Top.vals) = 1
    BY <1>5, <1>3, <1>10
  <2>2. r.v \in IRValue /\ r.v # NoValue
    <3>1. Top.vals[1] \in IRValue /\ Top.vals[1] \in ToSet(Top.vals)
      BY <1>3, <2>1 DEF ToSet
    <3> QED BY <1>4, <3>1 DEF Result, Bad
  <2>3. Complete
    <3> SUFFICES ASSUME NEW i \in Parts(Top.node)
                 PROVE  \/ i \in Done(Top, TRUE)
                        \/ /\ Top.node.of[i].type = "variable" /\ NamedValues[Top.node.of[i].name] # 0
                           /\ Top.old = <<>> /\ InScope(Top.node, i) = 0
      BY <1>1 DEF Complete
    <3>1. CASE i = 1
      BY <1>3, <1>6, <1>10, <3>1
    <3>2. CASE i = 2
      BY <1>10, <3>2 DEF Done
    <3>3. i = 1 \/ i = 2
      BY <1>3
    <3> QED BY <3>1, <3>2, <3>3
  <2> HIDE DEF r
  <2> QED BY <1>1, <1>4, <1>10, <2>2, <2>3, GivesReturns DEF Delivers
<1> QED BY <1>8, <1>9, <1>10 DEF GenAssignment

LEMMA BinaryProceeds ==
  ASSUME Ready, ValsOK, GenBinary
  PROVE  Proceeds
<1> DEFINE op == Top.node.name
           r == Define(ir, op, "", Top.vals, <<>>)
           s == Define(ir, "call", op, Top.vals, <<>>)
           ok == NoValue \notin ToSet(Top.vals)
<1>1. Top.node.type = "binary" /\ Top.node.name # "=" /\ UNCHANGED NamedValues
  BY DEF GenBinary, Generating
<1>2. Top.node \in Nodes(fn.body)
  BY <1>1, ReadyTop
<1>3. /\ Parts(Top.node) = 1..2 /\ Top.vals \in Seq(IRValue) /\ op \in Label /\ Top.part \in Nat
  BY <1>1, <1>2, NodeKinds, TopIs DEF Ready
<1>4. \A i \in Nat : Place(Top.node, i) = i
  BY <1>1, PlaceOf
<1>5. CASE Top.part < 2 /\ Visit(Top, Top.part + 1)
  <2>1. Top.part + 1 \in Parts(Top.node) /\ Top.part + 1 \in Nat
    BY <1>3, <1>5
  <2>2. Place(Top.node, Top.part + 1) = Place(Top.node, Top.part) + 1
    BY <1>3, <1>4, <2>1
  <2> QED BY <1>1, <1>5, <2>1, <2>2, VisitProceeds DEF Other
<1>6. CASE ~ok /\ Failed
  BY <1>1, <1>6, NoValueIs, GivesReturns DEF Failed, Bad
<1>7. CASE Top.part = 2 /\ ok /\ ((op \in {"+", "-", "*", "<"} /\ Delivers(r)) \/ Delivers(s))
  <2>1. op \in {"+", "-", "*", "<"} => r.v \in IRValue /\ r.v # NoValue
    <3> DEFINE none == <<>>
               name == ""
    <3> SUFFICES ASSUME op \in {"+", "-", "*", "<"} PROVE r.v \in IRValue /\ r.v # NoValue
      OBVIOUS
    <3>1. op \in Op /\ name \in Label /\ none \in Seq(Nat) /\ ir \in Builder
      BY Labels DEF Op, Ready
    <3> HIDE DEF none, name, op
    <3>2. LET d == Define(ir, op, name, Top.vals, none) IN d.v \in IRValue /\ d.v # NoValue
      BY ONLY <1>3, <3>1, DefineIs
    <3> QED BY <3>2 DEF none, name, op
  <2>2. s.v \in IRValue /\ s.v # NoValue
    <3> DEFINE none == <<>>
    <3>1. "call" \in Op /\ none \in Seq(Nat) /\ ir \in Builder
      BY Labels DEF Op, Ready
    <3> HIDE DEF none, op
    <3>2. LET d == Define(ir, "call", op, Top.vals, none) IN d.v \in IRValue /\ d.v # NoValue
      BY ONLY <1>3, <3>1, DefineIs
    <3> QED BY <3>2 DEF none, op
  <2> HIDE DEF r, s
  <2>3. Complete
    <3> SUFFICES ASSUME NEW i \in Parts(Top.node) PROVE i \in Done(Top, TRUE)
      BY <1>1 DEF Complete
    <3>1. i \in 1..2 /\ i \in Nat /\ Top.part = 2
      BY <1>3, <1>7
    <3>2. Place(Top.node, i) = i /\ Place(Top.node, Top.part) = Top.part
      BY <1>4, <3>1
    <3> QED BY <3>1, <3>2 DEF Done
  <2>4. ~Bad(Top)
    BY <1>7 DEF Bad
  <2> HIDE DEF op, ok
  <2> QED BY <1>1, <1>7, <2>1, <2>2, <2>3, <2>4, GivesReturns DEF Delivers
<1> QED BY <1>5, <1>6, <1>7 DEF GenBinary

LEMMA IfProceeds ==
  ASSUME Ready, ValsOK, GenIf
  PROVE  Proceeds
<1> DEFINE new == Newest(ir) + 1
           next == Top.blocks[1]
           merge == Last(Top.blocks)
           ended == Append(Top.from, LastBlock(next - 1))
           closed == Branch(ir, "br", <<>>, <<merge>>, next)
           r == Define(closed, "phi", "", Tail(Top.vals), ended)
           f2 == [Top EXCEPT !.blocks = <<new + 1, new + 2>>]
           f3 == [Top EXCEPT !.blocks = <<merge>>, !.from = ended]
<1>1. Top.node.type = "if" /\ ~Failing /\ UNCHANGED NamedValues
  BY DEF GenIf, Reaches, Generating
<1>2. Top.node \in Nodes(fn.body)
  BY <1>1, ReadyTop
<1>3. /\ Parts(Top.node) = 1..3 /\ Top.vals \in Seq(IRValue) /\ Top.part \in 0..3
      /\ Top.blocks \in Seq(Nat) /\ Top.from \in Seq(Nat) /\ Top \in FrameType
      /\ \A i \in 0..3 : Place(Top.node, i) = i
      /\ Len(Top.vals) = Top.part
      /\ Top.part = 2 => Len(Top.blocks) = 2
      /\ Top.part = 3 => Len(Top.blocks) = 1
  BY <1>1, <1>2, IfIs DEF Ready
<1>4. ir \in Builder /\ ir.cur \in Nat /\ Newest(ir) \in Nat
  BY DEF Ready, Builder, Newest
<1>5. ~Bad(Top)
  BY <1>1, NotBad DEF Other
<1>6. ASSUME NEW f \in FrameType, f.node = Top.node, f.vals = Top.vals, f.old = Top.old,
             Visit(f, Top.part + 1), Top.part < 3
      PROVE  Proceeds
  <2> DEFINE i == Top.part + 1
  <2>1. i \in Nat \ {0} /\ i \in Parts(f.node) /\ Place(Top.node, i) = Place(Top.node, Top.part) + 1
    BY <1>3, <1>6
  <2>2. Visit(f, i)
    BY <1>6
  <2> HIDE DEF i
  <2>3. Advances(f, i)
    BY <1>1, <1>5, <1>6, <2>1, <2>2 DEF Advances, Goes, Binds
  <2> QED BY <2>3, Zenon DEF Proceeds
<1>7. CASE Top.part = 0 /\ Visit(Top, 1)
  <2>1. Top.part + 1 = 1 /\ Top.part < 3
    BY <1>7
  <2> QED BY <1>3, <1>6, <1>7, <2>1
<1>8. CASE Top.part = 1 /\ Visit(f2, 2)
  <2> DEFINE bs == <<new + 1, new + 2>>
  <2>1. bs \in Seq(Nat)
    BY <1>4
  <2> HIDE DEF bs
  <2>2. LET g == [Top EXCEPT !.blocks = bs]
        IN g \in FrameType /\ g.node = Top.node /\ g.vals = Top.vals /\ g.old = Top.old
    BY <1>3, <2>1 DEF FrameType
  <2>3. f2 \in FrameType /\ f2.node = Top.node /\ f2.vals = Top.vals /\ f2.old = Top.old
    BY <2>2 DEF bs
  <2> HIDE DEF f2
  <2>4. Top.part + 1 = 2 /\ Top.part < 3
    BY <1>8
  <2> QED BY <1>6, <1>8, <2>3, <2>4
<1>9. CASE Top.part = 2 /\ Visit(f3, 3)
  <2> DEFINE bs == <<merge>>
  <2>1. merge \in Nat
    <3>1. Len(Top.blocks) = 2
      BY <1>3, <1>9
    <3> QED BY <1>3, <3>1, Pair1
  <2>2. bs \in Seq(Nat)
    BY <2>1
  <2>3. ended \in Seq(Nat)
    <3>1. LastBlock(next - 1) \in Nat
      BY <1>4 DEF LastBlock
    <3> QED BY <1>3, <3>1
  <2> HIDE DEF bs, ended
  <2>4. LET g == [Top EXCEPT !.blocks = bs, !.from = ended]
        IN g \in FrameType /\ g.node = Top.node /\ g.vals = Top.vals /\ g.old = Top.old
    BY <1>3, <2>2, <2>3 DEF FrameType
  <2>5. f3 \in FrameType /\ f3.node = Top.node /\ f3.vals = Top.vals /\ f3.old = Top.old
    BY <2>4 DEF bs
  <2> HIDE DEF f3
  <2>6. Top.part + 1 = 3 /\ Top.part < 3
    BY <1>9
  <2> QED BY <1>6, <1>9, <2>5, <2>6
<1>10. CASE Top.part = 3 /\ Delivers(r)
  <2>1. r.v \in IRValue /\ r.v # NoValue
    <3>1. merge \in Nat /\ next \in Nat
      <4> HIDE DEF r
      <4>1. Len(Top.blocks) = 1
        BY <1>3, <1>10
      <4> QED BY <1>3, <4>1, Pair1
    <3>2. Tail(Top.vals) \in Seq(IRValue)
      <4> HIDE DEF r
      <4>1. Len(Top.vals) > 0
        BY <1>3, <1>10
      <4> QED BY <1>3, <4>1, TailSeq
    <3>3. ended \in Seq(Nat)
      <4>1. LastBlock(next - 1) \in Nat
        BY <1>4 DEF LastBlock
      <4> QED BY <1>3, <4>1
    <3>4. closed \in Builder
      <4> DEFINE on == <<merge>>
                 none == <<>>
      <4>1. on \in Seq(Nat) /\ none \in Seq(IRValue) /\ "br" \in Op
        BY <3>1 DEF Op
      <4> HIDE DEF on, none, next
      <4>2. Branch(ir, "br", none, on, next) \in Builder
        BY <1>4, <3>1, <4>1, BranchIs
      <4> QED BY <4>2 DEF on, none
    <3> DEFINE name == ""
               vals == Tail(Top.vals)
    <3>5. name \in Label /\ "phi" \in Op
      BY Labels DEF Op
    <3> HIDE DEF name, closed, ended, vals
    <3>6. LET d == Define(closed, "phi", name, vals, ended) IN d.v \in IRValue /\ d.v # NoValue
      <4>1. vals \in Seq(IRValue)
        BY <3>2 DEF vals
      <4> QED BY ONLY <3>3, <3>4, <3>5, <4>1, DefineIs
    <3> QED BY <3>6 DEF name, vals
  <2> HIDE DEF r
  <2>2. Complete
    <3> SUFFICES ASSUME NEW i \in Parts(Top.node) PROVE i \in Done(Top, TRUE)
      BY <1>1 DEF Complete
    <3>1. Place(Top.node, i) = i /\ Place(Top.node, Top.part) = Top.part /\ (i < Top.part \/ i = Top.part)
      BY <1>3, <1>10
    <3> QED BY <3>1 DEF Done
  <2> QED BY <1>1, <1>5, <1>10, <2>1, <2>2, GivesReturns DEF Delivers
<1> QED BY <1>7, <1>8, <1>9, <1>10 DEF GenIf

LEMMA AdvanceProceeds ==
  ASSUME NEW f, NEW i, Advances(f, i)
  PROVE  Proceeds
BY Zenon DEF Proceeds

LEMMA ForProceeds ==
  ASSUME Ready, ValsOK, ForsOK, GenFor
  PROVE  Proceeds
<1> DEFINE node == Top.node
           loop == Newest(NewBlock(Effect(ir, "store", Top.vals, <<Top.variable>>)))
           f1 == [Top EXCEPT !.variable = ir.vars + 1]
           f4 == [Top EXCEPT !.blocks = <<loop>>, !.old = <<NamedValues[node.name]>>]
<1>1. Top.node.type = "for" /\ ~Failing
  BY DEF GenFor, Reaches, Generating
<1>2. Top.node \in Nodes(fn.body)
  BY <1>1, ReadyTop
<1>3. /\ {1, 2, 4} \subseteq Parts(node) /\ Parts(node) \subseteq 1..4
      /\ node.name \in Name /\ Names(node) = <<node.name>>
      /\ Top.vals \in Seq(IRValue) /\ Top.old \in Seq(Nat)
      /\ Top.variable \in Nat /\ Top \in FrameType
      /\ Place(node, 0) = 0 /\ Place(node, 1) = 1 /\ Place(node, 4) = 2
      /\ Place(node, 3) = 3 /\ Place(node, 2) = 4
      /\ Len(Top.old) = IF Top.part < 2 THEN 0 ELSE 1
  BY <1>1, <1>2, ForIs DEF Ready
<1>4. 3 \in Parts(node) \/ node.of[3] = Absent
  BY <1>1, <1>2, ForIs DEF Ready
<1>5. ir \in Builder /\ FramesOK /\ fn.body \in Bodies /\ NamedValues \in [Name -> Nat] /\ ir.vars \in Nat
  BY DEF Ready, Builder
<1>6. ~Bad(Top)
  BY <1>1, NotBad DEF Other
<1>7. Top.part # 0 => Top.variable # 0
  <2>1. Len(frames) \in DOMAIN frames /\ Top = frames[Len(frames)]
    BY <1>5, TopIs
  <2> QED BY <1>1, <2>1 DEF ForsOK
<1>8. ASSUME NEW f, Binds(f), f \in FrameType, f.node = Top.node, f.vals = Top.vals,
             f.variable # 0, NEW i, i \in Nat \ {0}, Goes(f, i),
             Place(Top.node, i) = Place(Top.node, Top.part) + 1
      PROVE  Proceeds
  <2>1. Advances(f, i)
    BY <1>6, <1>8 DEF Advances
  <2> QED BY <2>1, AdvanceProceeds
<1>9. CASE Top.part = 0 /\ Visit(f1, 1) /\ UNCHANGED NamedValues
  <2>1. ir.vars + 1 \in Nat /\ ir.vars + 1 # 0
    BY <1>5
  <2>2. /\ f1 \in FrameType /\ f1.node = Top.node /\ f1.vals = Top.vals /\ f1.variable # 0
        /\ f1.old = Top.old
    BY <1>3, <2>1 DEF FrameType
  <2> HIDE DEF f1
  <2>3. Binds(f1)
    BY <1>9, <2>2 DEF Binds
  <2>4. Goes(f1, 1)
    BY <1>3, <1>9, <2>2 DEF Goes
  <2>5. Place(Top.node, 1) = Place(Top.node, Top.part) + 1 /\ 1 \in Nat \ {0}
    BY <1>3, <1>9
  <2> QED BY <1>8, <2>2, <2>3, <2>4, <2>5
<1>10. CASE Top.part = 1 /\ NamedValues' = [NamedValues EXCEPT ![node.name] = Top.variable] /\ Visit(f4, 4)
  <2>1. loop \in Nat
    BY <1>3, <1>5, ForBuilders
  <2> HIDE DEF loop
  <2> DEFINE bs == <<loop>>
             o == <<NamedValues[node.name]>>
  <2>2. bs \in Seq(Nat) /\ o \in Seq(Nat)
    BY <1>3, <1>5, <2>1
  <2>3. o = Append(Top.old, NamedValues[node.name])
    <3>1. Top.old = <<>>
      BY <1>3, <1>10
    <3> QED BY <3>1
  <2> HIDE DEF bs, o
  <2>4. LET g == [Top EXCEPT !.blocks = bs, !.old = o]
        IN  /\ g \in FrameType /\ g.node = Top.node /\ g.vals = Top.vals /\ g.old = o
            /\ g.variable = Top.variable
    BY <1>3, <2>2 DEF FrameType
  <2>5. /\ f4 \in FrameType /\ f4.node = Top.node /\ f4.vals = Top.vals /\ f4.old = o
        /\ f4.variable = Top.variable
    BY <2>4 DEF bs, o
  <2> HIDE DEF f4
  <2>6. Binds(f4)
    <3>1. Top.variable \in Nat \ {0}
      BY <1>3, <1>7, <1>10
    <3>2. Len(Top.old) + 1 = 1
      BY <1>3, <1>10
    <3>3. 1 \in DOMAIN Names(Top.node) /\ Names(Top.node)[1] = node.name
      BY <1>3
    <3> QED BY <1>3, <1>10, <2>3, <2>5, <3>1, <3>2, <3>3 DEF Binds
  <2>7. Goes(f4, 4)
    BY <1>3, <1>10, <2>5 DEF Goes
  <2>8. Place(Top.node, 4) = Place(Top.node, Top.part) + 1 /\ 4 \in Nat \ {0}
    BY <1>3, <1>10
  <2>9. f4.variable # 0
    BY <1>7, <1>10, <2>5
  <2> QED BY <1>8, <2>5, <2>6, <2>7, <2>8, <2>9
<1>11. CASE Top.part = 4 /\ VisitOr(Top, 3, 1) /\ UNCHANGED NamedValues
  <2>1. Binds(Top) /\ Top.variable # 0
    BY <1>7, <1>11 DEF Binds
  <2>2. Goes(Top, 3)
    <3>1. CASE node.of[3] = Absent
      <4>1. 1 \in Int /\ 3 \in Nat
        OBVIOUS
      <4> QED BY <1>11, <3>1, <4>1 DEF Goes
    <3>2. CASE node.of[3] # Absent
      <4>1. Visit(Top, 3)
        BY <1>11, <3>2 DEF VisitOr
      <4> QED BY <1>4, <3>2, <4>1 DEF Goes
    <3> QED BY <3>1, <3>2
  <2>3. Place(Top.node, 3) = Place(Top.node, Top.part) + 1 /\ 3 \in Nat \ {0}
    BY <1>3, <1>11
  <2> QED BY <1>3, <1>8, <2>1, <2>2, <2>3
<1>12. CASE Top.part = 3 /\ Visit(Top, 2) /\ UNCHANGED NamedValues
  <2>1. Binds(Top) /\ Top.variable # 0
    BY <1>7, <1>12 DEF Binds
  <2>2. Goes(Top, 2)
    BY <1>3, <1>12 DEF Goes
  <2>3. Place(Top.node, 2) = Place(Top.node, Top.part) + 1 /\ 2 \in Nat \ {0}
    BY <1>3, <1>12
  <2> QED BY <1>3, <1>8, <2>1, <2>2, <2>3
<1>13. CASE Top.part = 2 /\ Gives(Const(0)) /\ NamedValues' = Unshadow(Names(node), Top.old)
  <2>1. Const(0) \in IRValue /\ Const(0) # NoValue
    BY ConstIs
  <2>2. Closes
    <3>1. Len(Top.old) = 1
      BY <1>3, <1>13
    <3>2. DOMAIN Names(Top.node) = DOMAIN Top.old
      BY <1>3, <3>1
    <3> QED BY <1>13, <3>2 DEF Closes
  <2>3. Complete
    <3> SUFFICES ASSUME NEW i \in Parts(Top.node) PROVE i \in Done(Top, TRUE)
      BY <1>1 DEF Complete
    <3>1. i = 1 \/ i = 2 \/ i = 3 \/ i = 4
      BY <1>3
    <3>2. Place(Top.node, i) < Place(Top.node, Top.part) \/ i = Top.part
      BY <1>3, <1>13, <3>1
    <3> QED BY <3>2 DEF Done
  <2>4. Returns(Const(0))
    BY <1>1, <1>6, <1>13, <2>1, <2>2, <2>3 DEF Returns
  <2> QED BY <2>4, Zenon DEF Proceeds
<1>14. \A b : Result(b, Const(0)).v = Const(0)
  BY DEF Result
<1> QED BY <1>9, <1>10, <1>11, <1>12, <1>13, <1>14 DEF GenFor, Delivers

LEMMA VarProceeds ==
  ASSUME Ready, ValsOK, GenVar
  PROVE  Proceeds
<1> DEFINE node == Top.node
           L == Len(node.of)
           p == Top.part
           name == node.of[p - 1].name
           variable == ir.vars + 1
           bound == [Top EXCEPT !.old = Append(@, NamedValues[name])]
<1>1. Top.node.type = "var" /\ ~Failing
  BY DEF GenVar, Reaches, Generating
<1>2. Top.node \in Nodes(fn.body)
  BY <1>1, ReadyTop
<1>3. /\ L \in Nat /\ L % 2 = 1 /\ L > 1 /\ L \in Parts(node) /\ Parts(node) \subseteq 1..L
      /\ \A i \in 1..L : i % 2 = 0 => i \in Parts(node) \/ node.of[i] = Absent
      /\ \A i \in 1..L : i % 2 = 1 /\ i < L => i \notin Parts(node) /\ node.of[i].name \in Name
      /\ DOMAIN Names(node) = 1..(L \div 2)
      /\ \A i \in 1..(L \div 2) : Names(node)[i] = node.of[2 * i - 1].name
  BY <1>1, <1>2, VarIs DEF Ready
<1>4. /\ Top.vals \in Seq(IRValue) /\ p \in 0..L /\ (p = L \/ p % 2 = 0)
      /\ Top.old \in Seq(Nat) /\ Top \in FrameType
      /\ \A i \in 0..L : Place(node, i) = (i + 1) \div 2
      /\ Len(Top.vals) = (p + 1) \div 2
      /\ Len(Top.old) = IF p = 0 THEN 0 ELSE (p - 1) \div 2
  BY <1>1, <1>2, VarIs DEF Ready
<1>5. ir \in Builder /\ NamedValues \in [Name -> Nat] /\ variable \in Nat \ {0}
  BY DEF Ready, Builder
<1>6. ~Bad(Top)
  BY <1>1, NotBad DEF Other
<1>7. ASSUME NEW f, Binds(f), f \in FrameType, f.node = Top.node, f.vals = Top.vals,
             NEW i, i \in Nat \ {0}, Goes(f, i),
             Place(Top.node, i) = Place(Top.node, Top.part) + 1
      PROVE  Proceeds
  <2>1. Advances(f, i)
    BY <1>1, <1>6, <1>7 DEF Advances
  <2> QED BY <2>1, AdvanceProceeds
<1>8. ASSUME NEW f, f.node = Top.node, NEW i \in 1..L, i % 2 = 0, VisitOr(f, i, 0)
      PROVE  Goes(f, i)
  <2>1. CASE f.node.of[i] = Absent
    <3>1. 0 \in Int /\ i \in Nat
      BY <1>3
    <3> QED BY <1>8, <2>1, <3>1 DEF Goes
  <2>2. CASE f.node.of[i] # Absent
    <3>1. Visit(f, i) /\ i \in Parts(f.node)
      BY <1>3, <1>8, <2>2 DEF VisitOr
    <3> QED BY <3>1 DEF Goes
  <2> QED BY <2>1, <2>2
<1>p. Top.part = p
  OBVIOUS
<1> HIDE DEF L, bound, name, variable, p
<1>9. CASE p = 0 /\ VisitOr(Top, 2, 0) /\ UNCHANGED NamedValues
  <2> DEFINE two == 2
  <2>1. two \in 1..L /\ two % 2 = 0 /\ (two + 1) \div 2 = 1 /\ two \in Nat \ {0} /\ two \in 0..L /\ 0 \in 0..L
    BY <1>3
  <2>2. VisitOr(Top, two, 0)
    BY <1>9
  <2> HIDE DEF two
  <2>3. Goes(Top, two) /\ Binds(Top)
    BY <1>8, <1>9, <2>1, <2>2 DEF Binds
  <2>4. Place(Top.node, two) = Place(Top.node, Top.part) + 1
    <3>1. Place(Top.node, two) = 1
      BY <1>4, <2>1
    <3>2. Place(Top.node, Top.part) = 0
      BY <1>1, <1>9, <1>p, Unstarted
    <3> QED BY <3>1, <3>2
  <2> QED BY <1>4, <1>7, <2>1, <2>3, <2>4
<1>10. CASE /\ p > 0 /\ p < L /\ NamedValues' = [NamedValues EXCEPT ![name] = variable]
            /\ IF p + 1 = L THEN Visit(bound, L) ELSE VisitOr(bound, p + 2, 0)
  <2>1. p \in 1..L /\ p % 2 = 0 /\ p < L
    BY <1>3, <1>4, <1>10
  <2>2. /\ (p - 1) \div 2 = p \div 2 - 1 /\ (p + 1) \div 2 = p \div 2 /\ p \div 2 \in Nat
        /\ p - 1 \in 1..L /\ p - 1 < L /\ (p - 1) % 2 = 1 /\ p = 2 * (p \div 2)
        /\ p + 1 = L => (L - 1) \div 2 = p \div 2 /\ (L + 1) \div 2 = p \div 2 + 1
        /\ p + 1 # L => /\ p + 2 \in 1..L /\ p + 2 < L /\ (p + 2) % 2 = 0
                        /\ (p + 2 - 1) \div 2 = p \div 2 /\ (p + 2 + 1) \div 2 = p \div 2 + 1
    BY <1>3, <2>1, EvenStep
  <2>3. name \in Name
    BY <1>3, <2>2 DEF name
  <2>4. /\ bound \in FrameType /\ bound.node = Top.node /\ bound.vals = Top.vals
        /\ bound.old = Append(Top.old, NamedValues[name])
    <3> DEFINE o == Append(Top.old, NamedValues[name])
    <3>1. NamedValues[name] \in Nat
      BY <1>5, <2>3
    <3>2. o \in Seq(Nat)
      BY <1>4, <3>1
    <3>3. bound = [Top EXCEPT !.old = o]
      BY DEF bound
    <3> HIDE DEF o
    <3>4. bound \in FrameType /\ bound.node = Top.node /\ bound.vals = Top.vals /\ bound.old = o
      BY <1>4, <3>2, <3>3 DEF FrameType
    <3> QED BY <3>4 DEF o
  <2>5. Binds(bound)
    <3> DEFINE h == p \div 2
    <3>1. Len(Top.old) + 1 = h
      BY <1>4, <2>1, <2>2
    <3>2. h \in 1..(L \div 2) /\ 2 * h - 1 = p - 1
      BY <1>3, <2>1, <2>2
    <3> HIDE DEF h
    <3>3. h \in DOMAIN Names(Top.node) /\ Names(Top.node)[h] = name
      BY <1>3, <3>2 DEF name
    <3> QED BY <1>5, <1>10, <2>3, <2>4, <3>1, <3>3 DEF Binds
  <2>6. Place(Top.node, Top.part) = p \div 2
    <3>1. p \in 0..L
      BY <1>4
    <3> QED BY <1>4, <1>p, <2>2, <3>1
  <2>7. CASE p + 1 = L
    <3>1. Place(Top.node, L) = p \div 2 + 1
      <4>1. L \in 0..L /\ (L + 1) \div 2 = p \div 2 + 1
        BY <1>3, <2>2, <2>7
      <4> QED BY <1>4, <4>1
    <3>2. Goes(bound, L) /\ L \in Nat \ {0}
      BY <1>3, <1>10, <2>4, <2>7 DEF Goes
    <3> QED BY <1>7, <2>4, <2>5, <2>6, <3>1, <3>2
  <2>8. CASE p + 1 # L
    <3> DEFINE q == p + 2
    <3>1. q \in 1..L /\ q % 2 = 0 /\ (q + 1) \div 2 = p \div 2 + 1 /\ q \in Nat \ {0} /\ q \in 0..L
      BY <1>3, <2>1, <2>2, <2>8
    <3>2. VisitOr(bound, q, 0)
      BY <1>10, <2>8
    <3> HIDE DEF q
    <3>3. Goes(bound, q)
      BY <1>8, <2>4, <3>1, <3>2
    <3>4. Place(Top.node, q) = p \div 2 + 1
      BY <1>4, <3>1
    <3> QED BY <1>7, <2>4, <2>5, <2>6, <3>1, <3>3, <3>4
  <2> QED BY <2>7, <2>8
<1>11. CASE p = L /\ Gives(Last(Top.vals)) /\ NamedValues' = Unshadow(Names(node), Top.old)
  <2>0. (L - 1) \div 2 = L \div 2 /\ (L + 1) \div 2 > 0 /\ L # 0
    BY <1>3, OddParts
  <2>1. Last(Top.vals) \in IRValue /\ Last(Top.vals) # NoValue
    <3>1. Len(Top.vals) > 0
      BY <1>4, <1>11, <2>0
    <3>2. Last(Top.vals) \in IRValue
      BY <1>4, <3>1, LastIn
    <3>3. Top.part # 0
      BY <1>11, <1>p, <2>0
    <3> QED BY <1>1, <3>2, <3>3 DEF Failing
  <2>2. Closes
    <3>1. Len(Top.old) = L \div 2
      BY <1>4, <1>11, <2>0
    <3>2. DOMAIN Names(Top.node) = 1..(L \div 2)
      BY <1>3 DEF node
    <3>3. DOMAIN Top.old = 1..(L \div 2)
      BY <1>4, <3>1
    <3> QED BY <1>11, <3>2, <3>3 DEF Closes
  <2>3. Complete
    <3> SUFFICES ASSUME NEW i \in Parts(Top.node) PROVE i \in Done(Top, TRUE)
      BY <1>1 DEF Complete
    <3>1. i \in 1..L /\ (i = L \/ (i < L /\ i % 2 = 0))
      BY <1>3, SMTT(30)
    <3>2. CASE i = L
      BY <1>11, <1>p, <3>2 DEF Done
    <3>3. CASE i < L /\ i % 2 = 0
      <4>1. i \in 0..L /\ L \in 0..L /\ (i + 1) \div 2 < (L + 1) \div 2
        BY <1>3, <3>1, <3>3
      <4>2. Place(Top.node, i) < Place(Top.node, Top.part)
        BY <1>4, <1>11, <1>p, <4>1
      <4> QED BY <4>2 DEF Done
    <3> QED BY <3>1, <3>2, <3>3
  <2>4. Returns(Last(Top.vals))
    BY <1>1, <1>6, <1>11, <2>1, <2>2, <2>3 DEF Returns
  <2> QED BY <2>4, Zenon DEF Proceeds
<1> QED BY <1>9, <1>10, <1>11 DEF GenVar, L, bound, name, variable, p

\* What is being generated has a place.
LEMMA Placed ==
  ASSUME Ready, Top.node.type # "function", Top.part # 0
  PROVE  Place(Top.node, Top.part) > 0
<1>1. Top.node \in Nodes(fn.body) /\ fn.body \in Bodies
  BY ReadyTop DEF Ready
<1>2. LocalsOK(Top) /\ Top.part \in 1..Len(Top.node.of) /\ Len(Top.node.of) \in Nat
  <2>1. DOMAIN Top.node.of = 1..Len(Top.node.of) /\ Len(Top.node.of) \in Nat
    BY <1>1, NodeShape
  <2> QED BY <2>1, TopIs DEF Ready, LocalsOK
<1>3. CASE Top.node.type = "for"
  <2>1. Len(Top.node.of) = 4
    BY <1>1, <1>3, NodeKinds
  <2>2. Top.part = 1 \/ Top.part = 2 \/ Top.part = 3 \/ Top.part = 4
    BY <1>2, <2>1
  <2> QED BY <1>3, <2>2, PlaceOf
<1>4. CASE Top.node.type = "var"
  <2>1. Place(Top.node, Top.part) = (Top.part + 1) \div 2
    BY <1>2, <1>4, PlaceOf
  <2>2. (Top.part + 1) \div 2 > 0
    BY <1>2
  <2> QED BY <2>1, <2>2
<1>5. CASE Top.node.type = "binary" /\ Top.node.name = "="
  <2>1. Len(Top.node.of) = 2
    BY <1>1, <1>5, NodeKinds
  <2>2. Top.part = 1 \/ Top.part = 2
    BY <1>2, <2>1
  <2> QED BY <1>5, <2>2, PlaceOf
<1>6. CASE Top.node.type \notin {"for", "var"} /\ ~(Top.node.type = "binary" /\ Top.node.name = "=")
  BY <1>2, <1>6, PlaceOf
<1> QED BY <1>3, <1>4, <1>5, <1>6

LEMMA NullBad ==
  ASSUME Ready, ReturnNullptr
  PROVE  Bad(Top)
<1>1. Top.node.type # "function" /\ Top.part # 0 /\ Last(Top.vals) = NoValue
  BY DEF ReturnNullptr, Failing
<1>2. Top.vals \in Seq(IRValue) /\ Len(Top.vals) = Place(Top.node, Top.part)
  BY TopIs DEF Ready
<1>3. Place(Top.node, Top.part) > 0
  BY <1>1, Placed
<1>4. Len(Top.vals) \in DOMAIN Top.vals
  BY <1>2, <1>3
<1>5. Top.vals[Len(Top.vals)] = NoValue
  BY <1>1 DEF Last
<1> QED BY <1>4, <1>5 DEF Bad, ToSet

LEMMA NullProceeds ==
  ASSUME Ready, ReturnNullptr
  PROVE  Proceeds
<1>1. Top.node.type # "function" /\ Gives(NoValue)
  BY DEF ReturnNullptr, Failed
<1>2. Returns(NoValue)
  BY <1>1, NullBad, NoValueIs DEF Returns
<1> QED BY <1>2, Zenon DEF Proceeds

LEMMA CodegenProceeds ==
  ASSUME Ready, ValsOK, ForsOK, Codegen
  PROVE  Proceeds
BY NumberProceeds, VariableProceeds, CallProceeds, AssignmentProceeds, BinaryProceeds,
   IfProceeds, ForProceeds, VarProceeds, NullProceeds DEF Codegen

-----------------------------------------------------------------------------
(* The values of the parts.                                                *)

LEMMA AdvanceIs ==
  ASSUME Ready, NEW f, NEW i, Advances(f, i)
  PROVE  LET n == Len(frames)
             g == frames'[n]
         IN  /\ n \in Nat /\ n > 0 /\ Top = frames[n] /\ DOMAIN frames = 1..n /\ DOMAIN frames' = 1..Len(frames')
             /\ \A k \in 1..(n - 1) : frames'[k] = frames[k]
             /\ g.node = Top.node /\ g.part = i /\ g.old = f.old /\ g.variable = f.variable
             /\ \/ /\ i \in Parts(Top.node) /\ Len(frames') = n + 1 /\ g.vals = Top.vals
                   /\ frames'[n + 1] = Activation(Top.node.of[i])
                   /\ Top.node.of[i] \in Nodes(fn.body)
                \/ /\ i \notin Parts(Top.node) /\ Len(frames') = n
                   /\ Len(g.vals) = Len(Top.vals) + 1 /\ g.vals \in Seq(IRValue)
                   /\ \A j \in DOMAIN Top.vals : g.vals[j] = Top.vals[j]
                   /\ g.vals[Len(g.vals)] # NoValue
<1> DEFINE n == Len(frames)
           g == frames'[n]
<1>1. /\ FramesOK /\ fn.body \in Bodies /\ n \in Nat /\ n > 0 /\ Top = frames[n] /\ DOMAIN frames = 1..n
      /\ Top.vals \in Seq(IRValue)
  BY TopIs DEF Ready
<1>2. f \in FrameType /\ f.node = Top.node /\ f.vals = Top.vals /\ Goes(f, i) /\ i \in Nat
  BY DEF Advances
<1>3. CASE i \in Parts(f.node) /\ Visit(f, i)
  <2> DEFINE h == [f EXCEPT !.part = i]
  <2>1. /\ h.node = f.node /\ h.part = i /\ h.vals = f.vals /\ h.old = f.old /\ h.variable = f.variable
    BY <1>2, PartIs
  <2> HIDE DEF h
  <2>2. /\ Len(frames') = n + 1 /\ DOMAIN frames' = 1..(n + 1)
        /\ \A k \in 1..(n - 1) : frames'[k] = frames[k]
        /\ frames'[n] = h
        /\ frames'[n + 1] = Activation(f.node.of[i])
        /\ f.node.of[i] \in Nodes(fn.body)
    BY <1>1, <1>2, <1>3, VisitIs DEF h
  <2> QED BY <1>1, <1>2, <1>3, <2>1, <2>2
<1>4. CASE f.node.of[i] = Absent /\ \E d \in Int : VisitOr(f, i, d)
  <2>1. PICK d \in Int : VisitOr(f, i, d)
    BY <1>4
  <2>2. /\ Len(frames') = n /\ DOMAIN frames' = DOMAIN frames
        /\ \A k \in 1..(n - 1) : frames'[k] = frames[k]
        /\ g.node = f.node /\ g.part = i /\ g.vals = Append(f.vals, Const(d))
        /\ g.old = f.old /\ g.variable = f.variable
    BY <1>1, <1>2, <1>4, <2>1, DefaultIs
  <2>3. Const(d) \in IRValue /\ Const(d) # NoValue
    BY ConstIs
  <2> HIDE DEF g
  <2>4. /\ Len(g.vals) = Len(Top.vals) + 1 /\ g.vals \in Seq(IRValue)
        /\ \A j \in DOMAIN Top.vals : g.vals[j] = Top.vals[j]
        /\ g.vals[Len(g.vals)] # NoValue
    BY <1>1, <1>2, <2>2, <2>3, AppendSeq
  <2>5. i \notin Parts(Top.node)
    <3>1. Absent.type = "absent"
      BY DEF Absent, Node
    <3>2. Top.node.of[i].type = "absent"
      BY <1>2, <1>4, <3>1
    <3> QED BY <3>2 DEF Parts
  <2> QED BY <1>1, <1>2, <2>2, <2>4, <2>5 DEF g
<1> QED BY <1>2, <1>3, <1>4 DEF Goes

LEMMA ReturnIs ==
  ASSUME Ready, NEW v, Returns(v)
  PROVE  LET n == Len(frames)
             f == frames[n - 1]
             g == frames'[n - 1]
         IN  /\ n \in Nat /\ n > 1 /\ Top = frames[n] /\ DOMAIN frames = 1..n
             /\ Len(frames') = n - 1 /\ DOMAIN frames' = 1..(n - 1)
             /\ \A k \in 1..(n - 2) : frames'[k] = frames[k]
             /\ g.node = f.node /\ g.part = f.part /\ g.old = f.old /\ g.variable = f.variable
             /\ f.vals \in Seq(IRValue) /\ g.vals \in Seq(IRValue) /\ Len(g.vals) = Len(f.vals) + 1
             /\ \A j \in DOMAIN f.vals : g.vals[j] = f.vals[j]
             /\ g.vals[Len(g.vals)] = v
<1> DEFINE n == Len(frames)
           f == frames[n - 1]
           g == frames'[n - 1]
<1>1. FramesOK /\ fn.body \in Bodies /\ n \in Nat /\ Top = frames[n] /\ DOMAIN frames = 1..n
  BY TopIs DEF Ready
<1>2. v \in IRValue /\ Gives(v) /\ Top.node.type # "function"
  BY DEF Returns
<1>3. /\ n > 1 /\ Len(frames') = n - 1 /\ DOMAIN frames' = 1..(n - 1)
      /\ \A k \in 1..(n - 2) : frames'[k] = frames[k]
      /\ f \in FrameType
      /\ g.node = f.node /\ g.part = f.part /\ g.vals = Append(f.vals, v)
      /\ g.old = f.old /\ g.variable = f.variable
  BY <1>1, <1>2, GivesIs
<1> HIDE DEF f, g
<1>4. f.vals \in Seq(IRValue)
  BY <1>3 DEF FrameType
<1>5. /\ g.vals \in Seq(IRValue) /\ Len(g.vals) = Len(f.vals) + 1
      /\ \A j \in DOMAIN f.vals : g.vals[j] = f.vals[j]
      /\ g.vals[Len(g.vals)] = v
  BY <1>2, <1>3, <1>4, AppendSeq
<1> QED BY <1>1, <1>3, <1>4, <1>5 DEF f, g

LEMMA BadIs ==
  ASSUME NEW f, f.vals \in Seq(IRValue)
  PROVE  Bad(f) <=> \E i \in 1..Len(f.vals) : f.vals[i] = NoValue
BY DEF Bad, ToSet

\* An activation that gets a value.
LEMMA Longer ==
  ASSUME NEW f, NEW g, f.vals \in Seq(IRValue), g.vals \in Seq(IRValue), Len(g.vals) = Len(f.vals) + 1,
         \A j \in DOMAIN f.vals : g.vals[j] = f.vals[j]
  PROVE  /\ Bad(f) => Bad(g)
         /\ Bad(g) => Bad(f) \/ g.vals[Len(g.vals)] = NoValue
         /\ g.vals[Len(g.vals)] = NoValue => Bad(g)
<1>1. /\ DOMAIN f.vals = 1..Len(f.vals) /\ Len(f.vals) \in Nat
      /\ \A i \in 1..Len(g.vals) : i \in DOMAIN f.vals \/ i = Len(g.vals)
      /\ Len(g.vals) \in 1..Len(g.vals) /\ 1..Len(f.vals) \subseteq 1..Len(g.vals)
  OBVIOUS
<1> QED BY <1>1, BadIs

LEMMA ValsStep ==
  ASSUME Ready, ValsOK, Proceeds
  PROVE  ValsOK'
<1> DEFINE n == Len(frames)
<1>1. FramesOK /\ n \in Nat /\ n > 0 /\ Top = frames[n] /\ DOMAIN frames = 1..n /\ Top.vals \in Seq(IRValue)
  BY TopIs DEF Ready
<1>2. SUFFICES ASSUME NEW k \in DOMAIN frames', ~Other(frames'[k].node), NEW i \in DOMAIN frames'[k].vals,
                      frames'[k].vals[i] = NoValue
               PROVE  k = Len(frames') /\ i = Len(frames'[k].vals)
  BY DEF ValsOK, Other, NoValue
<1> HIDE DEF n
<1>3. ASSUME k \in 1..n, k # n, frames'[k].vals[i] = frames[k].vals[i], i \in DOMAIN frames[k].vals,
             frames'[k].node = frames[k].node
      PROVE  FALSE
  BY <1>1, <1>2, <1>3 DEF ValsOK, n
<1>4. ASSUME NEW f, NEW j, Advances(f, j) PROVE k = Len(frames') /\ i = Len(frames'[k].vals)
  <2> DEFINE g == frames'[n]
  <2>1. /\ DOMAIN frames' = 1..Len(frames') /\ \A l \in 1..(n - 1) : frames'[l] = frames[l]
        /\ g.node = Top.node
        /\ \/ /\ Len(frames') = n + 1 /\ g.vals = Top.vals
              /\ frames'[n + 1] = Activation(Top.node.of[j])
           \/ /\ Len(frames') = n
              /\ Len(g.vals) = Len(Top.vals) + 1 /\ g.vals \in Seq(IRValue)
              /\ \A l \in DOMAIN Top.vals : g.vals[l] = Top.vals[l]
              /\ g.vals[Len(g.vals)] # NoValue
    BY <1>4, AdvanceIs DEF n
  <2> HIDE DEF g
  <2>2. CASE k \in 1..(n - 1)
    <3>1. k \in 1..n /\ k # n
      BY <1>1, <2>2
    <3>2. frames'[k] = frames[k]
      BY <2>1, <2>2
    <3> QED BY <1>2, <1>3, <3>1, <3>2
  <2>3. CASE k = n
    <3>1. ~Other(Top.node)
      BY <1>2, <2>1, <2>3 DEF g
    <3>2. ~Bad(Top)
      BY <1>4, <3>1 DEF Advances
    <3>3. ~Bad(g)
      <4>1. CASE g.vals = Top.vals
        BY <3>2, <4>1 DEF Bad
      <4>2. CASE g.vals # Top.vals
        <5>1. /\ Len(g.vals) = Len(Top.vals) + 1 /\ g.vals \in Seq(IRValue)
              /\ \A l \in DOMAIN Top.vals : g.vals[l] = Top.vals[l]
              /\ g.vals[Len(g.vals)] # NoValue
          BY <2>1, <4>2
        <5> QED BY <1>1, <3>2, <5>1, Longer
      <4> QED BY <4>1, <4>2
    <3> QED BY <1>2, <2>3, <3>3 DEF Bad, ToSet, g
  <2>4. CASE k = n + 1
    <3>1. Len(frames') # n
      <4>1. k \in 1..Len(frames')
        BY <1>2, <2>1
      <4> QED BY <1>1, <2>4, <4>1
    <3>2. frames'[k] = Activation(Top.node.of[j])
      BY <2>1, <2>4, <3>1
    <3> QED BY <1>2, <3>2 DEF Activation
  <2>5. k \in 1..(n - 1) \/ k = n \/ k = n + 1
    <3>1. k \in 1..Len(frames') /\ (Len(frames') = n \/ Len(frames') = n + 1)
      BY <1>2, <2>1
    <3> QED BY <1>1, <3>1
  <2> QED BY <2>2, <2>3, <2>4, <2>5
<1>5. ASSUME NEW v, Returns(v) PROVE k = Len(frames') /\ i = Len(frames'[k].vals)
  <2> DEFINE f == frames[n - 1]
             g == frames'[n - 1]
  <2>1. /\ n > 1 /\ Len(frames') = n - 1 /\ DOMAIN frames' = 1..(n - 1)
        /\ \A l \in 1..(n - 2) : frames'[l] = frames[l]
        /\ g.node = f.node
        /\ f.vals \in Seq(IRValue) /\ g.vals \in Seq(IRValue) /\ Len(g.vals) = Len(f.vals) + 1
        /\ \A j \in DOMAIN f.vals : g.vals[j] = f.vals[j]
    BY <1>5, ReturnIs DEF n
  <2>2. CASE k \in 1..(n - 2)
    BY <1>1, <1>2, <1>3, <2>1, <2>2
  <2>3. CASE k = n - 1
    <3>1. k = Len(frames')
      BY <2>1, <2>3
    <3>2. i \in DOMAIN f.vals \/ i = Len(g.vals)
      BY <1>2, <2>1, <2>3
    <3>3. CASE i \in DOMAIN f.vals
      <4>1. k \in 1..n /\ k # n
        BY <1>1, <2>1, <2>3
      <4> QED BY <1>3, <2>1, <2>3, <3>3, <4>1
    <3> QED BY <2>3, <3>1, <3>2, <3>3
  <2>4. k \in 1..(n - 2) \/ k = n - 1
    BY <1>1, <1>2, <2>1
  <2> QED BY <2>2, <2>3, <2>4
<1> QED BY <1>4, <1>5 DEF Proceeds

LEMMA ForsStep ==
  ASSUME Ready, ForsOK, Proceeds
  PROVE  ForsOK'
<1> DEFINE n == Len(frames)
<1>1. n \in Nat /\ n > 0 /\ Top = frames[n] /\ DOMAIN frames = 1..n
  BY TopIs DEF Ready
<1> HIDE DEF n
<1>2. SUFFICES ASSUME NEW k \in DOMAIN frames', frames'[k].node.type = "for", frames'[k].part # 0
               PROVE  frames'[k].variable # 0
  BY DEF ForsOK
<1>3. ASSUME k \in 1..n, frames'[k].node = frames[k].node, frames'[k].part = frames[k].part,
             frames'[k].variable = frames[k].variable
      PROVE  frames'[k].variable # 0
  BY <1>1, <1>2, <1>3 DEF ForsOK
<1>4. ASSUME NEW f, NEW j, Advances(f, j) PROVE frames'[k].variable # 0
  <2> DEFINE g == frames'[n]
  <2>1. /\ DOMAIN frames' = 1..Len(frames') /\ \A l \in 1..(n - 1) : frames'[l] = frames[l]
        /\ g.node = Top.node /\ g.variable = f.variable
        /\ \/ /\ Len(frames') = n + 1
              /\ frames'[n + 1] = Activation(Top.node.of[j])
           \/ Len(frames') = n
    BY <1>4, AdvanceIs DEF n
  <2> HIDE DEF g
  <2>2. CASE k \in 1..(n - 1)
    <3>1. k \in 1..n
      BY <1>1, <2>2
    <3>2. frames'[k] = frames[k]
      BY <2>1, <2>2
    <3> QED BY <1>3, <3>1, <3>2
  <2>3. CASE k = n
    BY <1>2, <1>4, <2>1, <2>3 DEF Advances, g
  <2>4. CASE k = n + 1
    <3>1. Len(frames') # n
      <4>1. k \in 1..Len(frames')
        BY <1>2, <2>1
      <4> QED BY <1>1, <2>4, <4>1
    <3>2. frames'[k] = Activation(Top.node.of[j])
      BY <2>1, <2>4, <3>1
    <3> QED BY <1>2, <3>2 DEF Activation
  <2>5. k \in 1..(n - 1) \/ k = n \/ k = n + 1
    <3>1. k \in 1..Len(frames') /\ (Len(frames') = n \/ Len(frames') = n + 1)
      BY <1>2, <2>1
    <3> QED BY <1>1, <3>1
  <2> QED BY <2>2, <2>3, <2>4, <2>5
<1>5. ASSUME NEW v, Returns(v) PROVE frames'[k].variable # 0
  <2> DEFINE f == frames[n - 1]
             g == frames'[n - 1]
  <2>1. /\ n > 1 /\ DOMAIN frames' = 1..(n - 1)
        /\ \A l \in 1..(n - 2) : frames'[l] = frames[l]
        /\ g.node = f.node /\ g.part = f.part /\ g.variable = f.variable
    BY <1>5, ReturnIs DEF n
  <2>2. CASE k \in 1..(n - 2)
    <3>1. k \in 1..n
      BY <1>1, <2>2
    <3>2. frames'[k] = frames[k]
      BY <2>1, <2>2
    <3> QED BY <1>3, <3>1, <3>2
  <2>3. CASE k = n - 1
    <3>1. k \in 1..n
      BY <1>1, <2>1, <2>3
    <3> QED BY <1>3, <2>1, <2>3, <3>1
  <2>4. k \in 1..(n - 2) \/ k = n - 1
    BY <1>1, <1>2, <2>1
  <2> QED BY <2>2, <2>3, <2>4
<1> QED BY <1>4, <1>5 DEF Proceeds

\* An activation below the top is as it was; the top gets no worse, unless it is gone.
LEMMA BadAdvance ==
  ASSUME Ready, NEW f, NEW i, Advances(f, i)
  PROVE  /\ \A k \in DOMAIN frames : k \in DOMAIN frames' /\ (Bad(frames'[k]) <=> Bad(frames[k]))
         /\ \A k \in DOMAIN frames' \ DOMAIN frames : ~Bad(frames'[k])
<1> DEFINE n == Len(frames)
           g == frames'[n]
<1>1. n \in Nat /\ n > 0 /\ Top = frames[n] /\ DOMAIN frames = 1..n /\ Top.vals \in Seq(IRValue)
  BY TopIs DEF Ready
<1>2. /\ DOMAIN frames' = 1..Len(frames') /\ \A l \in 1..(n - 1) : frames'[l] = frames[l]
      /\ \/ /\ Len(frames') = n + 1 /\ g.vals = Top.vals
            /\ frames'[n + 1] = Activation(Top.node.of[i])
         \/ /\ Len(frames') = n
            /\ Len(g.vals) = Len(Top.vals) + 1 /\ g.vals \in Seq(IRValue)
            /\ \A l \in DOMAIN Top.vals : g.vals[l] = Top.vals[l]
            /\ g.vals[Len(g.vals)] # NoValue
  BY AdvanceIs
<1> HIDE DEF n, g
<1>3. Bad(g) <=> Bad(Top)
  <2>1. CASE g.vals = Top.vals
    BY <2>1 DEF Bad
  <2>2. CASE g.vals # Top.vals
    <3>1. /\ Len(g.vals) = Len(Top.vals) + 1 /\ g.vals \in Seq(IRValue)
          /\ \A l \in DOMAIN Top.vals : g.vals[l] = Top.vals[l]
          /\ g.vals[Len(g.vals)] # NoValue
      BY <1>2, <2>2
    <3> QED BY <1>1, <3>1, Longer
  <2> QED BY <2>1, <2>2
<1>4. Len(frames') \in {n, n + 1} /\ 1..n \subseteq 1..Len(frames')
  <2>1. Len(frames') \in {n, n + 1}
    BY <1>2
  <2> QED BY <1>1, <2>1
<1>5. ASSUME NEW k \in 1..n PROVE k \in DOMAIN frames' /\ (Bad(frames'[k]) <=> Bad(frames[k]))
  <2>1. k \in DOMAIN frames'
    BY <1>2, <1>4
  <2>2. CASE k = n
    BY <1>1, <1>3, <2>1, <2>2 DEF g
  <2>3. CASE k # n
    <3>1. k \in 1..(n - 1)
      BY <1>1, <2>3
    <3> QED BY <1>2, <2>1, <3>1
  <2> QED BY <2>2, <2>3
<1>6. ASSUME NEW k \in DOMAIN frames', k \notin 1..n PROVE ~Bad(frames'[k])
  <2>1. k \in 1..Len(frames')
    BY <1>2, <1>6
  <2>2. k = n + 1 /\ Len(frames') # n
    BY <1>1, <1>4, <1>6, <2>1
  <2>3. frames'[k] = Activation(Top.node.of[i])
    BY <1>2, <2>2
  <2>4. ToSet(frames'[k].vals) = {}
    <3>1. frames'[k].vals = <<>>
      BY <2>3 DEF Activation
    <3> QED BY <3>1, One
  <2> QED BY <2>4 DEF Bad
<1> QED BY <1>1, <1>5, <1>6

LEMMA BadReturn ==
  ASSUME Ready, NEW v, Returns(v)
  PROVE  LET n == Len(frames)
         IN  /\ \A k \in 1..(n - 2) : Bad(frames'[k]) <=> Bad(frames[k])
             /\ Bad(frames'[n - 1]) <=> Bad(frames[n - 1]) \/ v = NoValue
             /\ Bad(frames[n]) => v = NoValue
<1> DEFINE n == Len(frames)
           f == frames[n - 1]
           g == frames'[n - 1]
<1>1. /\ Top = frames[n]
      /\ \A l \in 1..(n - 2) : frames'[l] = frames[l]
      /\ f.vals \in Seq(IRValue) /\ g.vals \in Seq(IRValue) /\ Len(g.vals) = Len(f.vals) + 1
      /\ \A j \in DOMAIN f.vals : g.vals[j] = f.vals[j]
      /\ g.vals[Len(g.vals)] = v
  BY ReturnIs
<1> HIDE DEF f, g, n
<1>2. Bad(g) <=> Bad(f) \/ v = NoValue
  BY <1>1, Longer
<1>3. Bad(Top) => v = NoValue
  BY DEF Returns
<1> QED BY <1>1, <1>2, <1>3 DEF f, g, n

\* What has gone wrong is not forgotten.
LEMMA FineStep ==
  ASSUME Ready, Proceeds, Fine'
  PROVE  Fine
<1> DEFINE n == Len(frames)
<1>1. n \in Nat /\ n > 0 /\ DOMAIN frames = 1..n
  BY TopIs DEF Ready
<1>2. \A k \in DOMAIN frames' : ~Bad(frames'[k])
  BY DEF Fine, Bad, NoValue
<1>3. SUFFICES ASSUME NEW k \in 1..n PROVE ~Bad(frames[k])
  BY <1>1 DEF Fine
<1>4. ASSUME NEW f, NEW i, Advances(f, i) PROVE ~Bad(frames[k])
  BY <1>1, <1>2, <1>4, BadAdvance
<1>5. ASSUME NEW v, Returns(v) PROVE ~Bad(frames[k])
  <2>1. n > 1 /\ DOMAIN frames' = 1..(n - 1)
    BY <1>5, ReturnIs
  <2>2. /\ \A l \in 1..(n - 2) : Bad(frames'[l]) <=> Bad(frames[l])
        /\ Bad(frames'[n - 1]) <=> Bad(frames[n - 1]) \/ v = NoValue
        /\ Bad(frames[n]) => v = NoValue
    BY <1>5, BadReturn
  <2> HIDE DEF n
  <2>3. n - 1 \in DOMAIN frames' /\ 1..(n - 2) \subseteq DOMAIN frames'
    BY <1>1, <2>1
  <2>4. k \in 1..(n - 2) \/ k = n - 1 \/ k = n
    BY <1>1
  <2> QED BY <1>2, <2>2, <2>3, <2>4
<1> QED BY <1>4, <1>5 DEF Proceeds

LEMMA PrimedBlocks == Blocks(ir', frames') => Blocks(ir, frames)'
BY DEF Blocks, Shape, HeldOK, Held, Waits, Awaited, Preds, Phis, PhisOK, Closed, Builder, Instruction, Op, Label,
   IRValue, Terminators, Successors, IsInjective, ToSet, Last

LEMMA BlocksStep ==
  ASSUME Ready, ValsOK, ForsOK, Codegen, Fine => Blocks(ir, frames)
  PROVE  Fine' => Blocks(ir, frames)'
<1>1. SUFFICES ASSUME Fine' PROVE Blocks(ir', frames')
  BY PrimedBlocks
<1>2. Proceeds
  BY CodegenProceeds
<1>3. Fine
  BY <1>1, <1>2, FineStep
<1>4. ~ReturnNullptr
  <2>1. Len(frames) \in DOMAIN frames /\ Top = frames[Len(frames)]
    BY TopIs DEF Ready
  <2> QED BY <1>3, <2>1, NullBad DEF Fine
<1>5. Method
  BY <1>4 DEF Codegen, Method
<1> QED BY <1>3, <1>5, MethodBlocks

-----------------------------------------------------------------------------
(* The names.                                                              *)

LEMMA SeenSame ==
  ASSUME NEW fs, NEW gs, NEW k \in Nat,
         \A j \in 1..(k - 1) : gs[j].node = fs[j].node /\ gs[j].part = fs[j].part
  PROVE  Seen(gs, k) = Seen(fs, k)
<1>1. \A j \in 1..(k - 1) : Introduced(gs[j].node, gs[j].part) = Introduced(fs[j].node, fs[j].part)
  OBVIOUS
<1>2. UNION {Introduced(gs[j].node, gs[j].part) : j \in 1..(k - 1)}
       = UNION {Introduced(fs[j].node, fs[j].part) : j \in 1..(k - 1)}
  BY <1>1, Zenon
<1> QED BY <1>2, Zenon DEF Seen

LEMMA SeenNext ==
  ASSUME NEW fs, NEW k \in Nat, k > 0
  PROVE  Seen(fs, k + 1) = Seen(fs, k) \cup Introduced(fs[k].node, fs[k].part)
<1> DEFINE A == 1..(k - 1)
           B == 1..(k + 1 - 1)
           I(j) == Introduced(fs[j].node, fs[j].part)
<1>1. B = A \cup {k}
  OBVIOUS
<1> HIDE DEF I, A, B
<1>2. UNION {I(j) : j \in A \cup {k}} = (UNION {I(j) : j \in A}) \cup I(k)
  OBVIOUS
<1>3. UNION {I(j) : j \in B} = (UNION {I(j) : j \in A}) \cup I(k)
  BY <1>1, <1>2, Zenon
<1> QED BY <1>3 DEF Seen, I, A, B

LEMMA SeenFirst ==
  ASSUME NEW fs
  PROVE  Seen(fs, 1) = ToSet(fn.params)
<1>1. 1..(1 - 1) = {}
  OBVIOUS
<1> QED BY <1>1 DEF Seen

\* Where a part is among the parts.
LEMMA PlacePositive ==
  ASSUME NEW body \in Bodies, NEW n \in Nodes(body) \cup {Function(body)}, NEW i \in 1..Len(n.of)
  PROVE  Place(n, i) \in Nat /\ Place(n, i) > 0 /\ Place(n, 0) = 0
<1>1. Len(n.of) \in Nat /\ (n \in Nodes(body) \/ n.type = "function")
  BY NodeShape
<1>2. CASE n.type = "for"
  <2>1. n \in Nodes(body) /\ Len(n.of) = 4
    BY <1>1, <1>2, NodeKinds
  <2>2. i = 1 \/ i = 2 \/ i = 3 \/ i = 4
    BY <2>1
  <2> QED BY <1>2, <2>2, PlaceOf
<1>3. CASE n.type = "var"
  <2>1. Place(n, i) = (i + 1) \div 2 /\ Place(n, 0) = (0 + 1) \div 2
    BY <1>1, <1>3, PlaceOf
  <2>2. (i + 1) \div 2 \in Nat /\ (i + 1) \div 2 > 0 /\ (0 + 1) \div 2 = 0
    BY <1>1
  <2> QED BY <2>1, <2>2
<1>4. CASE n.type = "binary" /\ n.name = "="
  <2>1. n \in Nodes(body) /\ Len(n.of) = 2
    BY <1>1, <1>4, NodeKinds
  <2>2. i = 1 \/ i = 2
    BY <2>1
  <2> QED BY <1>4, <2>2, PlaceOf
<1>5. CASE n.type \notin {"for", "var"} /\ ~(n.type = "binary" /\ n.name = "=")
  BY <1>1, <1>5, PlaceOf
<1> QED BY <1>2, <1>3, <1>4, <1>5

LEMMA PlaceInjective ==
  ASSUME NEW body \in Bodies, NEW n \in Nodes(body) \cup {Function(body)},
         NEW i \in 1..Len(n.of), NEW j \in 1..Len(n.of),
         n.type = "var" => (i = Len(n.of) \/ i % 2 = 0) /\ (j = Len(n.of) \/ j % 2 = 0),
         Place(n, i) = Place(n, j)
  PROVE  i = j
<1>1. Len(n.of) \in Nat /\ (n \in Nodes(body) \/ n.type = "function")
  BY NodeShape
<1>2. CASE n.type = "for"
  <2>1. n \in Nodes(body) /\ Len(n.of) = 4
    BY <1>1, <1>2, NodeKinds
  <2>2. (i = 1 \/ i = 2 \/ i = 3 \/ i = 4) /\ (j = 1 \/ j = 2 \/ j = 3 \/ j = 4)
    BY <2>1
  <2>3. Place(n, 1) = 1 /\ Place(n, 2) = 4 /\ Place(n, 3) = 3 /\ Place(n, 4) = 2
    BY <1>2, PlaceOf
  <2> QED BY <2>2, <2>3
<1>3. CASE n.type = "var"
  <2>1. Place(n, i) = (i + 1) \div 2 /\ Place(n, j) = (j + 1) \div 2
    BY <1>1, <1>3, PlaceOf
  <2>2. n \in Nodes(body) /\ Len(n.of) % 2 = 1
    BY <1>1, <1>3, NodeKinds
  <2> DEFINE L == Len(n.of)
  <2>3. L \in Nat /\ L % 2 = 1 /\ i \in 1..L /\ j \in 1..L /\ (i = L \/ i % 2 = 0) /\ (j = L \/ j % 2 = 0)
        /\ (i + 1) \div 2 = (j + 1) \div 2
    BY <1>1, <1>3, <2>1, <2>2
  <2> HIDE DEF L
  <2> QED BY <2>3
<1>4. CASE n.type = "binary" /\ n.name = "="
  <2>1. n \in Nodes(body) /\ Len(n.of) = 2
    BY <1>1, <1>4, NodeKinds
  <2>2. (i = 1 \/ i = 2) /\ (j = 1 \/ j = 2)
    BY <2>1
  <2>3. Place(n, 1) = 2 /\ Place(n, 2) = 1
    BY <1>4, PlaceOf
  <2> QED BY <2>2, <2>3
<1>5. CASE n.type \notin {"for", "var"} /\ ~(n.type = "binary" /\ n.name = "=")
  <2>1. Place(n, i) = i /\ Place(n, j) = j
    BY <1>1, <1>5, PlaceOf
  <2> QED BY <2>1
<1> QED BY <1>2, <1>3, <1>4, <1>5

\* The parts of a var are the initializers and the body.
LEMMA VarParts ==
  ASSUME NEW body \in Bodies, NEW n \in Nodes(body) \cup {Function(body)}, NEW i \in Parts(n)
  PROVE  /\ i \in 1..Len(n.of) /\ Len(n.of) \in Nat
         /\ n.type = "var" => i = Len(n.of) \/ i % 2 = 0
<1>1. i \in 1..Len(n.of) /\ Len(n.of) \in Nat /\ (n \in Nodes(body) \/ n.type = "function")
  BY NodeShape
<1>2. ASSUME n.type = "var" PROVE i = Len(n.of) \/ i % 2 = 0
  <2>1. n \in Nodes(body)
    BY <1>1, <1>2
  <2>2. \A j \in 1..Len(n.of) : j % 2 = 1 /\ j < Len(n.of) => j \notin Parts(n)
    BY <1>2, <2>1, NodeKinds
  <2>3. ~(i % 2 = 1 /\ i < Len(n.of))
    BY <1>1, <2>2
  <2> QED BY <1>1, <2>3
<1> QED BY <1>1, <1>2

\* When the next part is begun, those before it are done.
LEMMA DoneNext ==
  ASSUME FramesOK, fn.body \in Bodies, NEW i, Place(Top.node, i) = Place(Top.node, Top.part) + 1,
         NEW j \in Parts(Top.node), Place(Top.node, j) < Place(Top.node, i)
  PROVE  j \in Done(Top, TRUE)
<1> DEFINE n == Top.node
           p == Top.part
<1>1. LocalsOK(Top) /\ n \in Nodes(fn.body) \cup {Function(fn.body)} /\ p \in Nat
  BY TopIs DEF Expr
<1>2. /\ j \in 1..Len(n.of) /\ Len(n.of) \in Nat /\ DOMAIN n.of = 1..Len(n.of)
      /\ n.type = "var" => j = Len(n.of) \/ j % 2 = 0
  BY <1>1, VarParts, NodeShape
<1>3. Place(n, j) \in Nat /\ Place(n, j) > 0 /\ Place(n, 0) = 0
  BY <1>1, <1>2, PlacePositive
<1>4. CASE p = 0
  <2>1. Place(n, j) < 1
    BY <1>3, <1>4
  <2> QED BY <1>3, <2>1
<1>5. CASE p # 0
  <2>1. p \in 1..Len(n.of) /\ (n.type = "var" => p = Len(n.of) \/ p % 2 = 0)
    BY <1>1, <1>2, <1>5 DEF LocalsOK
  <2>2. Place(n, p) \in Nat
    BY <1>1, <2>1, PlacePositive
  <2>3. Place(n, j) < Place(n, p) \/ Place(n, j) = Place(n, p)
    BY <1>3, <2>2
  <2>4. CASE Place(n, j) = Place(n, p)
    <3>1. j = p
      BY <1>1, <1>2, <2>1, <2>4, PlaceInjective
    <3> QED BY <3>1 DEF Done
  <2> QED BY <2>3, <2>4 DEF Done
<1> QED BY <1>4, <1>5

\* The names that a node has in scope in a part.
LEMMA IntroducedIs ==
  ASSUME NEW body \in Bodies, NEW n \in Nodes(body) \cup {Function(body)},
         NEW i \in 1..Len(n.of), n.type = "var" => i = Len(n.of) \/ i % 2 = 0
  PROVE  /\ InScope(n, i) \in Nat /\ 1..InScope(n, i) \subseteq DOMAIN Names(n)
         /\ Introduced(n, i) \subseteq Name
<1>1. Len(n.of) \in Nat /\ (n \in Nodes(body) \/ n.type = "function")
  BY NodeShape
<1>2. \A j \in DOMAIN Names(n) : Names(n)[j] \in Name
  BY NamesIs
<1>3. InScope(n, i) \in Nat /\ 1..InScope(n, i) \subseteq DOMAIN Names(n)
  <2>1. CASE n.type = "for"
    <3>1. InScope(n, i) = 0 \/ InScope(n, i) = 1
      BY <2>1 DEF InScope
    <3>2. DOMAIN Names(n) = 1..1 /\ 1..0 \subseteq 1..1
      BY <2>1 DEF Names
    <3> QED BY <3>1, <3>2
  <2>2. CASE n.type = "var"
    <3>1. InScope(n, i) = (i - 1) \div 2
      BY <2>2 DEF InScope
    <3>2. DOMAIN Names(n) = 1..(Len(n.of) \div 2)
      BY <2>2, NamesIs
    <3> DEFINE L == Len(n.of)
    <3>3. L \in Nat /\ i \in 1..L
      BY <1>1
    <3> HIDE DEF L
    <3>4. (i - 1) \div 2 \in Nat /\ (i - 1) \div 2 <= L \div 2 /\ L \div 2 \in Nat
      BY <3>3
    <3>5. 1..((i - 1) \div 2) \subseteq 1..(L \div 2)
      BY <3>4
    <3> QED BY <3>1, <3>2, <3>4, <3>5 DEF L
  <2>3. CASE n.type \notin {"for", "var"}
    <3>1. InScope(n, i) = 0
      BY <2>3 DEF InScope
    <3>2. 1..0 = {}
      OBVIOUS
    <3> QED BY <3>1, <3>2
  <2> QED BY <2>1, <2>2, <2>3
<1>4. Introduced(n, i) \subseteq Name
  BY <1>2, <1>3 DEF Introduced
<1> QED BY <1>3, <1>4

LEMMA OpenedIs ==
  ASSUME NEW f, LocalsOK(f), f.old \in Seq(Nat), f.part # 0
  PROVE  Opened(f) = Introduced(f.node, f.part)
<1>1. DOMAIN f.old = 1..InScope(f.node, f.part)
  BY DEF LocalsOK
<1> QED BY <1>1 DEF Opened, Introduced

LEMMA NoneOpened ==
  ASSUME NEW f, f.old = <<>>
  PROVE  Opened(f) = {}
<1>1. DOMAIN f.old = {}
  OBVIOUS
<1> QED BY <1>1 DEF Opened

\* An activation that is waiting for a part.
LEMMA WaitingIs ==
  ASSUME FramesOK, fn.body \in Bodies, NEW k \in 1..(Len(frames) - 1)
  PROVE  LET f == frames[k]
         IN  /\ f.node \in Nodes(fn.body) \cup {Function(fn.body)} /\ LocalsOK(f) /\ f.old \in Seq(Nat)
             /\ f.part \in Parts(f.node) /\ f.part \in 1..Len(f.node.of) /\ f.part # 0
             /\ f.node.type = "var" => f.part = Len(f.node.of) \/ f.part % 2 = 0
             /\ frames[k + 1].node = f.node.of[f.part]
             /\ Introduced(f.node, f.part) \subseteq Name /\ Opened(f) = Introduced(f.node, f.part)
<1> DEFINE f == frames[k]
<1>1. Len(frames) \in Nat /\ DOMAIN frames = 1..Len(frames) /\ \A j \in DOMAIN frames : frames[j] \in FrameType
  BY TopIs
<1>2. k \in DOMAIN frames /\ k + 1 \in DOMAIN frames \ {1} /\ k + 1 - 1 = k
  BY <1>1
<1>3. f.part \in Parts(f.node) /\ frames[k + 1].node = f.node.of[f.part] /\ LocalsOK(f)
  <2> DEFINE m == k + 1
  <2>1. m \in DOMAIN frames \ {1} /\ m - 1 = k
    BY <1>2
  <2> HIDE DEF m
  <2>2. frames[m - 1].part \in Parts(frames[m - 1].node) /\ frames[m].node = frames[m - 1].node.of[frames[m - 1].part]
    BY <2>1 DEF FramesOK
  <2>3. LocalsOK(frames[k])
    BY <1>2 DEF FramesOK
  <2> QED BY <2>1, <2>2, <2>3 DEF m
<1>4. f \in FrameType
  BY <1>1, <1>2
<1> HIDE DEF f
<1>5. f.node \in Nodes(fn.body) \cup {Function(fn.body)} /\ f.old \in Seq(Nat)
  BY <1>4 DEF FrameType, Expr
<1>6. f.part \in 1..Len(f.node.of) /\ (f.node.type = "var" => f.part = Len(f.node.of) \/ f.part % 2 = 0)
      /\ Len(f.node.of) \in Nat
  BY <1>3, <1>5, VarParts
<1>7. f.part # 0
  BY <1>6
<1>8. Introduced(f.node, f.part) \subseteq Name
  BY <1>5, <1>6, IntroducedIs
<1>9. Opened(f) = Introduced(f.node, f.part)
  BY <1>3, <1>5, <1>7, OpenedIs
<1> QED BY <1>3, <1>5, <1>6, <1>7, <1>8, <1>9 DEF f

LEMMA SeenNames ==
  ASSUME FramesOK, fn.body \in Bodies, fn.params \in Params, NEW k \in DOMAIN frames
  PROVE  Seen(frames, k) \subseteq Name
<1>1. Len(frames) \in Nat /\ DOMAIN frames = 1..Len(frames)
  BY TopIs
<1>2. ToSet(fn.params) \subseteq Name
  <2>1. fn.params \in Seq(Name)
    BY CodeGenAssumption
  <2> QED BY <2>1 DEF ToSet
<1>3. \A j \in 1..(k - 1) : Introduced(frames[j].node, frames[j].part) \subseteq Name
  <2> SUFFICES ASSUME NEW j \in 1..(k - 1) PROVE Introduced(frames[j].node, frames[j].part) \subseteq Name
    OBVIOUS
  <2>1. j \in 1..(Len(frames) - 1)
    BY <1>1
  <2> QED BY <2>1, WaitingIs
<1> QED BY <1>2, <1>3 DEF Seen

LEMMA ScopedIs ==
  ASSUME fn.body \in Bodies, NEW n \in Nodes(fn.body), NEW S \in SUBSET Name
  PROVE  Scoped(n, S) <=> ScopedIn(n, S)
BY ScopedAssumption

\* A variable and the names that are in scope.
LEMMA VariableScoped ==
  ASSUME fn.body \in Bodies, NEW n \in Nodes(fn.body), n.type = "variable", NEW S \in SUBSET Name
  PROVE  n.name \in Name /\ (Scoped(n, S) <=> n.name \in S)
<1>1. n.name \in Name /\ Len(n.of) = 0
  BY NodeKinds
<1>2. Parts(n) = {}
  <2>1. n \in Nodes(fn.body) \cup {Function(fn.body)}
    OBVIOUS
  <2>2. Parts(n) \subseteq 1..Len(n.of)
    BY <2>1, NodeShape
  <2>3. 1..0 = {}
    OBVIOUS
  <2> QED BY <1>1, <2>2, <2>3
<1>3. ScopedIn(n, S) <=> n.name \in S
  BY <1>2 DEF ScopedIn
<1> QED BY <1>1, <1>3, ScopedIs

\* While all is well.
AllWell ==
  /\ Ready /\ fn.params \in Params
  /\ InScopeSoFar(frames, NamedValues)

LEMMA TableIs ==
  ASSUME AllWell, Top.old = <<>>, NEW name \in Name
  PROVE  NamedValues[name] # 0 <=> name \in Seen(frames, Len(frames))
<1>1. Top = frames[Len(frames)]
  BY TopIs DEF AllWell, Ready
<1>2. {n \in Name : NamedValues[n] # 0} = Seen(frames, Len(frames)) \cup Opened(Top)
  BY <1>1 DEF AllWell, InScopeSoFar
<1>3. Opened(Top) = {}
  BY NoneOpened
<1> QED BY <1>2, <1>3

LEMMA CompleteScoped ==
  ASSUME AllWell, Complete, Top.node.type # "function"
  PROVE  Scoped(Top.node, Seen(frames, Len(frames)))
<1> DEFINE n == Len(frames)
           S == Seen(frames, n)
           node == Top.node
<1>1. FramesOK /\ fn.body \in Bodies /\ fn.params \in Params /\ node \in Nodes(fn.body)
  BY ReadyTop DEF AllWell, Ready
<1>2. n \in DOMAIN frames /\ Top = frames[n]
  BY <1>1, TopIs
<1>3. S \in SUBSET Name
  BY <1>1, <1>2, SeenNames
<1>4. node.type = "variable" => node.name \in S
  <2> SUFFICES ASSUME node.type = "variable" PROVE node.name \in S
    OBVIOUS
  <2>1. Top.old = <<>>
    BY NoOld DEF AllWell
  <2>2. node.name \in Name
    BY <1>1, NodeKinds
  <2>3. NamedValues[node.name] # 0
    BY DEF Complete
  <2> QED BY <2>1, <2>2, <2>3, TableIs
<1>5. node.type \in {"call", "unary"} => Declared(node.name, Len(node.of))
  BY DEF Complete
<1>6. ASSUME NEW i \in Parts(node) PROVE Scoped(node.of[i], S \cup Introduced(node, i))
  <2>1. CASE i \in Done(Top, TRUE)
    <3>1. i \in Done(frames[n], n = Len(frames))
      BY <1>2, <2>1
    <3>2. Scoped(frames[n].node.of[i], S \cup Introduced(frames[n].node, i))
      BY <1>2, <3>1 DEF AllWell, InScopeSoFar
    <3> QED BY <1>2, <3>2
  <2>2. CASE /\ node.of[i].type = "variable" /\ NamedValues[node.of[i].name] # 0
             /\ Top.old = <<>> /\ InScope(node, i) = 0
    <3>1. node.of[i] \in Nodes(fn.body)
      BY <1>1, <1>6, NodeShape
    <3>2. 1..0 = {}
      OBVIOUS
    <3>3. Introduced(node, i) = {}
      BY <2>2, <3>2 DEF Introduced
    <3>4. node.of[i].name \in Name
      BY <2>2, <3>1, NodeKinds, <1>1
    <3>5. node.of[i].name \in S
      BY <2>2, <3>4, TableIs
    <3> HIDE DEF S, node
    <3>6. Scoped(node.of[i], S)
      BY <1>1, <1>3, <2>2, <3>1, <3>5, VariableScoped
    <3>7. S \cup Introduced(node, i) = S
      BY <3>3
    <3> QED BY <3>6, <3>7
  <2> QED BY <1>6, <2>1, <2>2 DEF Complete
<1> HIDE DEF S, node
<1>7. ScopedIn(node, S)
  BY <1>4, <1>5, <1>6 DEF ScopedIn
<1>8. Scoped(node, S)
  BY <1>1, <1>3, <1>7, ScopedIs
<1> QED BY <1>8 DEF S, node

LEMMA FaultyUnscoped ==
  ASSUME AllWell, Faulty, Top.node.type # "function"
  PROVE  ~Scoped(Top.node, Seen(frames, Len(frames)))
<1> DEFINE n == Len(frames)
           S == Seen(frames, n)
           node == Top.node
<1>1. FramesOK /\ fn.body \in Bodies /\ fn.params \in Params /\ node \in Nodes(fn.body)
  BY ReadyTop DEF AllWell, Ready
<1>2. n \in DOMAIN frames /\ Top = frames[n] /\ Top.old = <<>>
  BY <1>1, TopIs DEF Faulty
<1>3. S \in SUBSET Name
  BY <1>1, <1>2, SeenNames
<1>4. \A name \in Name : NamedValues[name] # 0 <=> name \in S
  BY <1>2, TableIs
<1>5. Scoped(node, S) <=> ScopedIn(node, S)
  BY <1>1, <1>3, ScopedIs
<1>6. CASE node.type = "variable" /\ NamedValues[node.name] = 0
  <2>1. node.name \in Name
    BY <1>1, <1>6, NodeKinds
  <2>2. node.name \notin S
    BY <1>4, <1>6, <2>1
  <2> HIDE DEF S, node
  <2>3. ~ScopedIn(node, S)
    BY <1>6, <2>2 DEF ScopedIn
  <2> QED BY <1>5, <2>3 DEF S, node
<1>7. CASE node.type \in {"call", "unary"} /\ ~Declared(node.name, Len(node.of))
  <2> HIDE DEF S, node
  <2>1. ~ScopedIn(node, S)
    BY <1>7 DEF ScopedIn
  <2> QED BY <1>5, <2>1 DEF S, node
<1>8. ASSUME NEW i \in Parts(node), node.of[i].type = "variable", NamedValues[node.of[i].name] = 0,
             InScope(node, i) = 0
      PROVE  ~Scoped(node, S)
  <2>1. node.of[i] \in Nodes(fn.body)
    BY <1>1, <1>8, NodeShape
  <2>2. 1..0 = {}
    OBVIOUS
  <2>3. Introduced(node, i) = {}
    BY <1>8, <2>2 DEF Introduced
  <2>4. node.of[i].name \in Name
    BY <1>1, <1>8, <2>1, NodeKinds
  <2>5. node.of[i].name \notin S
    BY <1>4, <1>8, <2>4
  <2> HIDE DEF S, node
  <2>6. ~Scoped(node.of[i], S)
    BY <1>1, <1>3, <1>8, <2>1, <2>5, VariableScoped
  <2>7. S \cup Introduced(node, i) = S
    BY <2>3
  <2>8. ~ScopedIn(node, S)
    BY <1>8, <2>6, <2>7 DEF ScopedIn
  <2> QED BY <1>5, <2>8
<1> QED BY <1>6, <1>7, <1>8 DEF Faulty

\* The activation that goes on.
LEMMA AdvanceScope ==
  ASSUME AllWell, Distinct(fn.body), Top.node.type # "function", NEW f, NEW i, Advances(f, i), LocalsOK(frames'[Len(frames)])
  PROVE  InScopeSoFar(frames', NamedValues')
<1> DEFINE n == Len(frames)
           m == Len(frames')
           g == frames'[n]
           node == Top.node
           S == Seen(frames, n)
<1>1. /\ FramesOK /\ fn.body \in Bodies /\ fn.params \in Params /\ node \in Nodes(fn.body)
      /\ NamedValues \in [Name -> Nat] /\ Ready
  BY ReadyTop DEF AllWell, Ready
<1>2. n \in Nat /\ n > 0 /\ Top = frames[n] /\ DOMAIN frames = 1..n /\ Top.old \in Seq(Nat) /\ LocalsOK(Top)
  BY <1>1, TopIs
<1>3. /\ DOMAIN frames' = 1..m /\ \A l \in 1..(n - 1) : frames'[l] = frames[l]
      /\ g.node = node /\ g.part = i /\ g.old = f.old
      /\ \/ /\ i \in Parts(node) /\ m = n + 1
            /\ frames'[n + 1] = Activation(node.of[i])
            /\ node.of[i] \in Nodes(fn.body)
         \/ i \notin Parts(node) /\ m = n
  BY <1>1, AdvanceIs
<1>4. Place(node, i) = Place(node, Top.part) + 1 /\ Binds(f) /\ i # 0 /\ f \in FrameType
  BY DEF Advances
<1>5. LocalsOK(g) /\ g.old \in Seq(Nat)
  BY <1>3, <1>4 DEF FrameType
<1>6. Opened(g) = Introduced(node, i)
  BY <1>3, <1>4, <1>5, OpenedIs
<1>7. \A k \in 1..n : Seen(frames', k) = Seen(frames, k)
  <2> SUFFICES ASSUME NEW k \in 1..n PROVE Seen(frames', k) = Seen(frames, k)
    OBVIOUS
  <2>1. k \in Nat /\ \A j \in 1..(k - 1) : j \in 1..(n - 1)
    BY <1>2
  <2>2. \A j \in 1..(k - 1) : frames'[j].node = frames[j].node /\ frames'[j].part = frames[j].part
    BY <1>3, <2>1
  <2> QED BY <2>1, <2>2, SeenSame
<1> HIDE DEF n, m, g, node, S
<1>8. n \in 1..n /\ Seen(frames', n) = S
  <2>1. n \in 1..n
    BY <1>2
  <2> QED BY <1>7, <2>1 DEF S
<1>9. /\ \A k \in 1..n : \A j \in Done(frames[k], k = n) :
           Scoped(frames[k].node.of[j], Seen(frames, k) \cup Introduced(frames[k].node, j))
      /\ \A k \in 1..n : \A j \in DOMAIN frames[k].old :
           frames[k].old[j] # 0 <=> Names(frames[k].node)[j] \in Seen(frames, k)
      /\ {nm \in Name : NamedValues[nm] # 0} = S \cup Opened(Top)
  BY <1>2 DEF AllWell, InScopeSoFar, n, S
<1>10. m = n \/ m = n + 1
  BY <1>3
<1>11. ASSUME NEW k \in 1..m PROVE k \in 1..(n - 1) \/ k = n \/ (k = n + 1 /\ m = n + 1)
  BY <1>2, <1>10
<1>12. m = n + 1 =>
         /\ i \in Parts(node) /\ frames'[n + 1] = Activation(node.of[i]) /\ node.of[i] \in Nodes(fn.body)
         /\ frames'[n + 1].old = <<>> /\ Done(frames'[n + 1], TRUE) = {}
  <2> SUFFICES ASSUME m = n + 1
               PROVE  /\ i \in Parts(node) /\ frames'[n + 1] = Activation(node.of[i])
                      /\ node.of[i] \in Nodes(fn.body)
                      /\ frames'[n + 1].old = <<>> /\ Done(frames'[n + 1], TRUE) = {}
    OBVIOUS
  <2> DEFINE x == node.of[i]
  <2>1. i \in Parts(node) /\ frames'[n + 1] = Activation(x) /\ x \in Nodes(fn.body)
    <3>1. m # n
      BY <1>2
    <3> QED BY <1>3, <3>1
  <2> HIDE DEF x
  <2>2. Activation(x).old = <<>> /\ Activation(x).part = 0 /\ Activation(x).node = x
    BY DEF Activation
  <2>3. \A j \in Parts(x) : j # 0 /\ ~(Place(x, j) < Place(x, 0))
    <3> SUFFICES ASSUME NEW j \in Parts(x) PROVE j # 0 /\ ~(Place(x, j) < Place(x, 0))
      OBVIOUS
    <3>1. x \in Nodes(fn.body) \cup {Function(fn.body)}
      BY <2>1
    <3>2. j \in 1..Len(x.of) /\ Len(x.of) \in Nat
      BY <1>1, <3>1, VarParts
    <3>3. Place(x, j) \in Nat /\ Place(x, j) > 0 /\ Place(x, 0) = 0
      BY <1>1, <3>1, <3>2, PlacePositive
    <3> QED BY <3>2, <3>3
  <2>4. Done(frames'[n + 1], TRUE) = {}
    BY <2>1, <2>2, <2>3 DEF Done
  <2> QED BY <2>1, <2>2, <2>4 DEF x
<1>13. ASSUME NEW k \in 1..m, NEW j \in Done(frames'[k], k = m)
       PROVE  Scoped(frames'[k].node.of[j], Seen(frames', k) \cup Introduced(frames'[k].node, j))
  <2>1. CASE k \in 1..(n - 1)
    <3>1. k \in 1..n /\ k # n /\ k # m
      BY <1>2, <1>10, <2>1
    <3>2. frames'[k] = frames[k] /\ Seen(frames', k) = Seen(frames, k)
      BY <1>3, <1>7, <2>1, <3>1
    <3>3. j \in Done(frames[k], k = n)
      <4>1. (k = n) = FALSE /\ (k = m) = FALSE
        BY <3>1
      <4> QED BY <1>13, <3>2, <4>1
    <3> QED BY <1>9, <3>1, <3>2, <3>3
  <2>2. CASE k = n
    <3>1. j \in Parts(node) /\ (Place(node, j) < Place(node, i) \/ (k = m /\ j = i))
      BY <1>3, <1>13, <2>2 DEF Done, g
    <3>2. ~(k = m /\ j = i)
      <4>1. ASSUME k = m PROVE i \notin Parts(node)
        BY <1>2, <1>3, <2>2, <4>1
      <4> QED BY <3>1, <4>1
    <3>3. j \in Done(Top, TRUE)
      BY <1>1, <1>4, <3>1, <3>2, DoneNext DEF node
    <3>4. j \in Done(frames[n], n = n)
      BY <1>2, <3>3
    <3>5. Scoped(frames[n].node.of[j], Seen(frames, n) \cup Introduced(frames[n].node, j))
      BY <1>8, <1>9, <3>4
    <3>6. frames'[k].node = frames[n].node
      BY <1>2, <1>3, <2>2 DEF g, node
    <3> QED BY <1>7, <1>8, <2>2, <3>5, <3>6
  <2>3. CASE k = n + 1 /\ m = n + 1
    <3>1. (k = m) = TRUE
      BY <2>3
    <3> QED BY <1>12, <1>13, <2>3, <3>1
  <2> QED BY <1>11, <2>1, <2>2, <2>3
<1>14. /\ \A j \in DOMAIN g.old : g.old[j] # 0 <=> Names(node)[j] \in S
       /\ {nm \in Name : NamedValues'[nm] # 0} = S \cup Opened(g)
  <2>1. \A j \in DOMAIN Top.old : Top.old[j] # 0 <=> Names(node)[j] \in S
    BY <1>2, <1>8, <1>9 DEF node, S
  <2>2. CASE f.old = Top.old /\ UNCHANGED NamedValues
    <3>1. Opened(g) = Opened(Top)
      BY <1>3, <2>2 DEF Opened, node
    <3> QED BY <1>3, <1>9, <2>1, <2>2, <3>1
  <2>3. ASSUME NEW name \in Name, NEW variable \in Nat \ {0},
               Len(Top.old) + 1 \in DOMAIN Names(Top.node), name = Names(Top.node)[Len(Top.old) + 1],
               f.old = Append(Top.old, NamedValues[name]),
               NamedValues' = [NamedValues EXCEPT ![name] = variable]
        PROVE  /\ \A j \in DOMAIN g.old : g.old[j] # 0 <=> Names(node)[j] \in S
               /\ {nm \in Name : NamedValues'[nm] # 0} = S \cup Opened(g)
    <3> DEFINE l == Len(Top.old)
               v == NamedValues[name]
               o == Append(Top.old, v)
    <3>1. l \in Nat /\ DOMAIN Top.old = 1..l /\ v \in Nat
      BY <1>1, <1>2, <2>3
    <3>2. DOMAIN o = DOMAIN Top.old \cup {l + 1} /\ (\A j \in DOMAIN Top.old : o[j] = Top.old[j]) /\ o[l + 1] = v
      BY <1>2, <3>1, AppendSeq
    <3>3. g.old = o /\ Names(node)[l + 1] = name
      BY <1>3, <2>3 DEF node
    <3>4. name \notin Opened(Top)
      <4> SUFFICES ASSUME NEW j \in DOMAIN Top.old, Names(node)[j] = name PROVE FALSE
        BY DEF Opened, node
      <4>1. IsInjective(Names(node))
        BY <1>1 DEF Distinct
      <4>2. j \in 1..l /\ l + 1 # j
        BY <3>1
      <4>3. j \in DOMAIN Names(node) /\ l + 1 \in DOMAIN Names(node)
        <5>1. l + 1 \in DOMAIN Names(node)
          BY <2>3 DEF node
        <5>2. DOMAIN Names(node) = 1..Len(Names(node))
          <6>1. node.type = "for" => Names(node) = <<node.name>>
            BY <1>1, NamesIs
          <6>2. node.type \notin {"for", "var"} => Names(node) = <<>>
            BY <1>1, NamesIs
          <6> QED BY <6>1, <6>2, <5>1
        <5> QED BY <3>1, <4>2, <5>1, <5>2
      <4> QED BY <3>3, <4>1, <4>2, <4>3 DEF IsInjective
    <3>5. v # 0 <=> name \in S
      BY <1>9, <3>4
    <3>6. Opened(g) = Opened(Top) \cup {name}
      BY <1>2, <1>3, <3>2, <3>3 DEF Opened, node
    <3> HIDE DEF o, v, l
    <3>7. \A j \in DOMAIN g.old : g.old[j] # 0 <=> Names(node)[j] \in S
      BY <2>1, <3>2, <3>3, <3>5
    <3>8. \A nm \in Name : NamedValues'[nm] # 0 <=> NamedValues[nm] # 0 \/ nm = name
      BY <1>1, <2>3
    <3>9. {nm \in Name : NamedValues'[nm] # 0} = {nm \in Name : NamedValues[nm] # 0} \cup {name}
      BY <3>8
    <3>10. {nm \in Name : NamedValues'[nm] # 0} = S \cup Opened(g)
      BY <1>9, <3>6, <3>9
    <3> QED BY <3>7, <3>10
  <2> QED BY <1>4, <2>2, <2>3 DEF Binds
<1>15. ASSUME NEW k \in 1..m, NEW j \in DOMAIN frames'[k].old
       PROVE  frames'[k].old[j] # 0 <=> Names(frames'[k].node)[j] \in Seen(frames', k)
  <2>1. CASE k \in 1..(n - 1)
    <3>1. k \in 1..n
      BY <1>2, <2>1
    <3>2. frames'[k] = frames[k] /\ Seen(frames', k) = Seen(frames, k)
      BY <1>3, <1>7, <2>1, <3>1
    <3> QED BY <1>9, <1>15, <3>1, <3>2
  <2>2. CASE k = n
    BY <1>3, <1>8, <1>14, <1>15, <2>2 DEF g
  <2>3. CASE k = n + 1 /\ m = n + 1
    <3>1. frames'[k].old = <<>>
      BY <1>12, <2>3
    <3> QED BY <1>15, <3>1
  <2> QED BY <1>11, <2>1, <2>2, <2>3
<1>16. {nm \in Name : NamedValues'[nm] # 0} = Seen(frames', m) \cup Opened(frames'[m])
  <2>1. CASE m = n
    BY <1>8, <1>14, <2>1 DEF g
  <2>2. CASE m = n + 1
    <3>1. Seen(frames', n + 1) = Seen(frames', n) \cup Introduced(g.node, g.part)
      BY <1>2, SeenNext DEF g
    <3>2. Opened(frames'[m]) = {}
      BY <1>12, <2>2, NoneOpened
    <3> QED BY <1>3, <1>6, <1>8, <1>14, <2>2, <3>1, <3>2
  <2> QED BY <1>10, <2>1, <2>2
<1> QED BY <1>3, <1>13, <1>15, <1>16 DEF InScopeSoFar, m

\* The activation that returns, and the names of its node that leave the scope.
LEMMA ClosesTable ==
  ASSUME AllWell, Closes
  PROVE  {nm \in Name : NamedValues'[nm] # 0} = Seen(frames, Len(frames))
<1> DEFINE S == Seen(frames, Len(frames))
           names == Names(Top.node)
           old == Top.old
<1>1. /\ Len(frames) \in DOMAIN frames /\ Top = frames[Len(frames)] /\ old \in Seq(Nat)
      /\ NamedValues \in [Name -> Nat] /\ FramesOK /\ fn.body \in Bodies /\ fn.params \in Params
  BY TopIs DEF AllWell, Ready
<1>2. S \subseteq Name
  BY <1>1, SeenNames
<1>3. \A j \in DOMAIN old : old[j] # 0 <=> names[j] \in S
  BY <1>1 DEF AllWell, InScopeSoFar
<1>4. {nm \in Name : NamedValues[nm] # 0} = S \cup Opened(Top)
  BY <1>1 DEF AllWell, InScopeSoFar
<1> HIDE DEF S, names, old
<1>5. CASE Top.old = <<>> /\ UNCHANGED NamedValues
  <2>1. Opened(Top) = {}
    BY <1>5, NoneOpened
  <2> QED BY <1>4, <1>5, <2>1 DEF S
<1>6. CASE DOMAIN names = DOMAIN old /\ NamedValues' = Unshadow(names, old)
  <2>1. /\ \A nm \in Name \ ToSet(names) : Unshadow(names, old)[nm] = NamedValues[nm]
        /\ \A nm \in Name \cap ToSet(names) :
             \E i \in DOMAIN names : names[i] = nm /\ Unshadow(names, old)[nm] = old[i]
    BY <1>1, <1>6, UnshadowIs
  <2>2. Opened(Top) = ToSet(names)
    BY <1>6 DEF Opened, ToSet, names, old
  <2>3. ASSUME NEW nm \in Name PROVE NamedValues'[nm] # 0 <=> nm \in S
    <3>1. CASE nm \notin ToSet(names)
      BY <1>4, <1>6, <2>1, <2>2, <3>1
    <3>2. CASE nm \in ToSet(names)
      <4>1. PICK i \in DOMAIN names : names[i] = nm /\ Unshadow(names, old)[nm] = old[i]
        BY <2>1, <3>2
      <4> QED BY <1>3, <1>6, <4>1
    <3> QED BY <3>1, <3>2
  <2> QED BY <1>2, <2>3 DEF S
<1> QED BY <1>5, <1>6 DEF Closes, names, old

LEMMA ReturnSeen ==
  ASSUME Ready, NEW v, Returns(v), NEW k \in 1..(Len(frames) - 1)
  PROVE  /\ Seen(frames', k) = Seen(frames, k)
         /\ frames'[k].node = frames[k].node
<1> DEFINE n == Len(frames)
<1>1. /\ n \in Nat /\ n > 1
      /\ \A l \in 1..(n - 2) : frames'[l] = frames[l]
      /\ frames'[n - 1].node = frames[n - 1].node /\ frames'[n - 1].part = frames[n - 1].part
  BY ReturnIs
<1> HIDE DEF n
<1>2. k \in 1..(n - 1) /\ k \in Nat /\ (k \in 1..(n - 2) \/ k = n - 1)
      /\ \A j \in 1..(k - 1) : j \in 1..(n - 2)
  BY <1>1 DEF n
<1>3. \A j \in 1..(k - 1) : frames'[j].node = frames[j].node /\ frames'[j].part = frames[j].part
  BY <1>1, <1>2
<1>4. Seen(frames', k) = Seen(frames, k)
  BY <1>2, <1>3, SeenSame
<1>5. frames'[k].node = frames[k].node
  BY <1>1, <1>2
<1> QED BY <1>4, <1>5

LEMMA ReturnScope ==
  ASSUME AllWell, NEW v, Returns(v), v # NoValue
  PROVE  InScopeSoFar(frames', NamedValues')
<1> DEFINE n == Len(frames)
           m == n - 1
           f == frames[m]
           g == frames'[m]
<1>1. FramesOK /\ fn.body \in Bodies /\ fn.params \in Params /\ Ready
  BY DEF AllWell, Ready
<1>2. /\ n \in Nat /\ n > 1 /\ Top = frames[n] /\ DOMAIN frames = 1..n
      /\ Len(frames') = m /\ DOMAIN frames' = 1..m
      /\ \A k \in 1..(n - 2) : frames'[k] = frames[k]
      /\ g.node = f.node /\ g.part = f.part /\ g.old = f.old
  BY <1>1, ReturnIs
<1>3. /\ m \in 1..(n - 1) /\ m \in 1..n /\ m \in Nat /\ m > 0 /\ m + 1 = n /\ m # n /\ n \in 1..n
  <2>1. n \in Nat /\ n > 1
    BY <1>2
  <2> HIDE DEF n
  <2> QED BY <2>1
<1>4. /\ f.part \in Parts(f.node) /\ Opened(f) = Introduced(f.node, f.part)
      /\ frames[m + 1].node = f.node.of[f.part]
  BY <1>1, <1>3, WaitingIs
<1>5. \A k \in 1..m : Seen(frames', k) = Seen(frames, k)
  BY <1>1, ReturnSeen
<1>6. Complete /\ Closes /\ Top.node.type # "function"
  BY DEF Returns
<1>7. Scoped(Top.node, Seen(frames, n))
  BY <1>6, CompleteScoped
<1>8. {nm \in Name : NamedValues'[nm] # 0} = Seen(frames, n)
  BY <1>6, ClosesTable
<1>9. Seen(frames, m + 1) = Seen(frames, m) \cup Introduced(f.node, f.part)
  BY <1>3, SeenNext
<1> HIDE DEF n, f, g
<1>10. /\ \A k \in 1..n : \A j \in Done(frames[k], k = n) :
            Scoped(frames[k].node.of[j], Seen(frames, k) \cup Introduced(frames[k].node, j))
       /\ \A k \in 1..n : \A j \in DOMAIN frames[k].old :
            frames[k].old[j] # 0 <=> Names(frames[k].node)[j] \in Seen(frames, k)
  BY <1>2 DEF AllWell, InScopeSoFar, n
<1> HIDE DEF m
<1>11. ASSUME NEW k \in 1..m PROVE (k \in 1..(n - 2) /\ k # m /\ k # n /\ k \in 1..n) \/ k = m
  BY <1>2 DEF m
<1>12. ASSUME NEW k \in 1..m, NEW j \in Done(frames'[k], k = m)
       PROVE  Scoped(frames'[k].node.of[j], Seen(frames', k) \cup Introduced(frames'[k].node, j))
  <2>1. CASE k \in 1..(n - 2) /\ k # m /\ k # n /\ k \in 1..n
    <3>1. frames'[k] = frames[k] /\ Seen(frames', k) = Seen(frames, k)
      BY <1>2, <1>5, <2>1
    <3>2. (k = n) = FALSE /\ (k = m) = FALSE
      BY <2>1
    <3>3. j \in Done(frames[k], k = n)
      BY <1>12, <3>1, <3>2
    <3> QED BY <1>10, <2>1, <3>1, <3>3
  <2>2. CASE k = m
    <3>1. j \in Parts(f.node) /\ (Place(f.node, j) < Place(f.node, f.part) \/ j = f.part)
      BY <1>2, <1>12, <2>2 DEF Done, g
    <3>2. frames'[k].node = f.node /\ Seen(frames', k) = Seen(frames, m)
      BY <1>2, <1>5, <2>2 DEF g
    <3>3. CASE Place(f.node, j) < Place(f.node, f.part)
      <4>1. j \in Done(f, FALSE)
        BY <3>1, <3>3 DEF Done
      <4>2. (m = n) = FALSE
        BY <1>3
      <4>3. j \in Done(frames[m], m = n)
        BY <4>1, <4>2 DEF f
      <4>4. Scoped(frames[m].node.of[j], Seen(frames, m) \cup Introduced(frames[m].node, j))
        BY <1>3, <1>10, <4>3
      <4> QED BY <3>2, <4>4 DEF f
    <3>4. CASE j = f.part
      BY <1>2, <1>3, <1>4, <1>7, <1>9, <3>2, <3>4
    <3> QED BY <3>1, <3>3, <3>4
  <2> QED BY <1>11, <2>1, <2>2
<1>13. ASSUME NEW k \in 1..m, NEW j \in DOMAIN frames'[k].old
       PROVE  frames'[k].old[j] # 0 <=> Names(frames'[k].node)[j] \in Seen(frames', k)
  <2>1. CASE k \in 1..(n - 2) /\ k # m /\ k # n /\ k \in 1..n
    <3>1. frames'[k] = frames[k] /\ Seen(frames', k) = Seen(frames, k)
      BY <1>2, <1>5, <2>1
    <3> QED BY <1>10, <1>13, <2>1, <3>1
  <2>2. CASE k = m
    <3>1. frames'[m].old = frames[m].old /\ frames'[m].node = frames[m].node
      BY <1>2 DEF f, g
    <3>2. Seen(frames', m) = Seen(frames, m)
      BY <1>5, <2>2
    <3> QED BY <1>3, <1>10, <1>13, <2>2, <3>1, <3>2
  <2> QED BY <1>11, <2>1, <2>2
<1>14. {nm \in Name : NamedValues'[nm] # 0} = Seen(frames', m) \cup Opened(frames'[m])
  <2>1. Opened(g) = Opened(f)
    BY <1>2 DEF Opened
  <2>2. m \in 1..m
    BY <1>3
  <2>3. Seen(frames', m) = Seen(frames, m)
    BY <1>5, <2>2
  <2> QED BY <1>3, <1>4, <1>8, <1>9, <2>1, <2>3 DEF g
<1> QED BY <1>2, <1>12, <1>13, <1>14 DEF InScopeSoFar

LEMMA ReturnUnscoped ==
  ASSUME Ready, fn.params \in Params, NEW v, Returns(v), ~Scoped(Top.node, Seen(frames, Len(frames)))
  PROVE  UnscopedFn(frames', Len(frames) - 1)
<1> DEFINE n == Len(frames)
           m == n - 1
           f == frames[m]
<1>1. FramesOK /\ fn.body \in Bodies
  BY DEF Ready
<1>2. /\ n \in Nat /\ n > 1 /\ Top = frames[n] /\ DOMAIN frames = 1..n
  BY ReturnIs
<1>3. /\ m \in 1..(n - 1) /\ m \in DOMAIN frames /\ m \in Nat /\ m > 0 /\ m + 1 = n
  <2>1. m \in 1..(n - 1) /\ m \in 1..n /\ m \in Nat /\ m > 0 /\ m + 1 = n
    BY <1>2
  <2> QED BY <1>2, <2>1
<1>4. /\ f.part \in Parts(f.node) /\ Introduced(f.node, f.part) \subseteq Name
      /\ frames[m + 1].node = f.node.of[f.part]
  BY <1>1, <1>3, WaitingIs
<1>5. Seen(frames', m) = Seen(frames, m) /\ frames'[m].node = f.node
  BY <1>3, ReturnSeen
<1>6. Seen(frames, m + 1) = Seen(frames, m) \cup Introduced(f.node, f.part)
  BY <1>3, SeenNext
<1>7. Seen(frames, m) \in SUBSET Name
  BY <1>1, <1>3, SeenNames
<1>8. ~Scoped(f.node.of[f.part], Seen(frames, m) \cup Introduced(f.node, f.part))
  BY <1>2, <1>3, <1>4, <1>6
<1> HIDE DEF n, m
<1>9. CASE m = 1
  <2> HIDE DEF f
  <2>1. f.node = Function(fn.body)
    BY <1>1, <1>9 DEF FramesOK, f
  <2>2. f.node.of = <<fn.body>> /\ f.part \in 1..1 /\ f.node.type = "function"
    <3>1. f.node.of = <<fn.body>> /\ f.node.type = "function"
      BY <2>1, FunctionIs
    <3>2. f.part \in DOMAIN f.node.of
      BY <1>4 DEF Parts
    <3> QED BY <3>1, <3>2
  <2>3. f.part = 1 /\ f.node.of[f.part] = fn.body
    BY <2>2
  <2>4. Introduced(f.node, f.part) = {}
    <3>1. InScope(f.node, f.part) = 0 /\ 1..0 = {}
      BY <2>2 DEF InScope
    <3> QED BY <3>1 DEF Introduced
  <2>5. Seen(frames, m) = ToSet(fn.params)
    BY <1>9, SeenFirst
  <2> QED BY <1>8, <1>9, <2>3, <2>4, <2>5 DEF UnscopedFn, m, n
<1>10. CASE m # 1
  <2>1. f.node \in Nodes(fn.body)
    BY <1>1, <1>3, <1>10, BottomIs
  <2> DEFINE S == Seen(frames, m)
  <2> HIDE DEF S, f
  <2>2. S \in SUBSET Name
    BY <1>7 DEF S
  <2>3. ~ScopedIn(f.node, S)
    BY <1>4, <1>8 DEF ScopedIn, S
  <2>4. ~Scoped(f.node, S)
    BY <1>1, <2>1, <2>2, <2>3, ScopedIs
  <2> QED BY <1>5, <1>10, <2>4 DEF UnscopedFn, S, m, n
<1> QED BY <1>9, <1>10

\* What has gone wrong: the first activation to know of it can not be generated.
LEMMA LocalsPrime ==
  ASSUME UNCHANGED fn, FramesOK', NEW k \in DOMAIN frames'
  PROVE  LocalsOK(frames'[k])
BY DEF FramesOK, LocalsOK, InScope

LEMMA CodegenNode ==
  ASSUME Codegen
  PROVE  Top.node.type # "function"
BY DEF Codegen, GenNumber, GenVariable, GenCall, GenAssignment, GenBinary, GenIf, GenFor, GenVar,
   ReturnNullptr, Reaches, Generating

LEMMA ScopeStep ==
  ASSUME Ready, fn.params \in Params, Distinct(fn.body), ValsOK, ForsOK, Codegen,
         NamesOK(frames, NamedValues), \A k \in DOMAIN frames' : ~Bad(frames'[k])
  PROVE  InScopeSoFar(frames', NamedValues')
<1>1. Proceeds /\ Typed
  BY CodegenProceeds, CodegenTyped
<1>2. Fine'
  BY DEF Fine, Bad, NoValue, ToSet
<1>3. Fine
  BY <1>1, <1>2, FineStep
<1>4. AllWell
  BY <1>3 DEF AllWell, Fine, NamesOK
<1>5. Top.node.type # "function"
  BY CodegenNode
<1>6. ASSUME NEW f, NEW i, Advances(f, i) PROVE InScopeSoFar(frames', NamedValues')
  <2>1. Len(frames) \in DOMAIN frames'
    <3>1. Len(frames) \in DOMAIN frames
      BY TopIs DEF Ready
    <3> QED BY <1>6, <3>1, BadAdvance
  <2>2. LocalsOK(frames'[Len(frames)])
    BY <1>1, <2>1, LocalsPrime DEF Typed, Ready
  <2> QED BY <1>4, <1>5, <1>6, <2>2, AdvanceScope
<1>7. ASSUME NEW v, Returns(v) PROVE InScopeSoFar(frames', NamedValues')
  <2>1. v # NoValue
    <3> DEFINE m == Len(frames) - 1
    <3>1. Len(frames) > 1 /\ Len(frames) \in Nat /\ DOMAIN frames' = 1..m
      BY <1>7, ReturnIs
    <3>2. m \in DOMAIN frames'
      BY <3>1
    <3>3. Bad(frames'[m]) <=> Bad(frames[m]) \/ v = NoValue
      BY <1>7, BadReturn
    <3> QED BY <3>2, <3>3
  <2> QED BY <1>4, <1>7, <2>1, ReturnScope
<1> QED BY <1>1, <1>6, <1>7 DEF Proceeds

LEMMA UnscopedAlike ==
  ASSUME NEW k, UnscopedFn(frames, k), Seen(frames', k) = Seen(frames, k), frames'[k].node = frames[k].node
  PROVE  UnscopedFn(frames', k)
BY DEF UnscopedFn

LEMMA UnscopedStep ==
  ASSUME Ready, fn.params \in Params, ValsOK, ForsOK, Codegen,
         NamesOK(frames, NamedValues), NEW k \in DOMAIN frames', FirstBad(frames', k)
  PROVE  UnscopedFn(frames', k)
<1> DEFINE n == Len(frames)
<1>1. Proceeds /\ n \in Nat /\ n > 0 /\ DOMAIN frames = 1..n /\ Top = frames[n]
  BY CodegenProceeds, TopIs DEF Ready
<1>2. \A j \in 1..n : FirstBad(frames, j) => UnscopedFn(frames, j)
  BY <1>1 DEF NamesOK
<1>3. Bad(frames'[k]) /\ \A j \in 1..(k - 1) : ~Bad(frames'[j])
  BY DEF FirstBad
<1>4. ASSUME NEW f, NEW i, Advances(f, i) PROVE UnscopedFn(frames', k)
  <2>1. /\ \A j \in DOMAIN frames : j \in DOMAIN frames' /\ (Bad(frames'[j]) <=> Bad(frames[j]))
        /\ \A j \in DOMAIN frames' \ DOMAIN frames : ~Bad(frames'[j])
    BY <1>4, BadAdvance
  <2>2. /\ \A l \in 1..(n - 1) : frames'[l] = frames[l]
        /\ frames'[n].node = Top.node
    BY <1>4, AdvanceIs
  <2> HIDE DEF n
  <2>3. k \in 1..n
    BY <1>1, <1>3, <2>1
  <2>4. k \in Nat /\ (k \in 1..(n - 1) \/ k = n) /\ \A j \in 1..(k - 1) : j \in 1..(n - 1) /\ j \in 1..n
    BY <1>1, <2>3
  <2>5. FirstBad(frames, k)
    BY <1>1, <1>3, <2>1, <2>3, <2>4 DEF FirstBad
  <2>6. \A j \in 1..(k - 1) : frames'[j].node = frames[j].node /\ frames'[j].part = frames[j].part
    BY <2>2, <2>4
  <2>7. Seen(frames', k) = Seen(frames, k)
    BY <2>4, <2>6, SeenSame
  <2>8. frames'[k].node = frames[k].node
    BY <1>1, <2>2, <2>4
  <2> QED BY <1>2, <2>3, <2>5, <2>7, <2>8, UnscopedAlike
<1>5. ASSUME NEW v, Returns(v) PROVE UnscopedFn(frames', k)
  <2>1. n > 1 /\ DOMAIN frames' = 1..(n - 1)
    BY <1>5, ReturnIs
  <2>2. /\ \A j \in 1..(n - 2) : Bad(frames'[j]) <=> Bad(frames[j])
        /\ Bad(frames'[n - 1]) <=> Bad(frames[n - 1]) \/ v = NoValue
    BY <1>5, BadReturn
  <2>3. \A j \in 1..(n - 1) : Seen(frames', j) = Seen(frames, j) /\ frames'[j].node = frames[j].node
    BY <1>5, ReturnSeen
  <2>4. Bad(Top) \/ Faulty \/ v # NoValue
    BY <1>5 DEF Returns
  <2>5. ASSUME ~Scoped(Top.node, Seen(frames, n)) PROVE UnscopedFn(frames', n - 1)
    BY <1>5, <2>5, ReturnUnscoped
  <2> HIDE DEF n
  <2>6. k \in 1..(n - 1) /\ k \in 1..n /\ k \in Nat /\ (k \in 1..(n - 2) \/ k = n - 1)
        /\ \A j \in 1..(k - 1) : j \in 1..(n - 2) /\ j \in 1..n
    BY <1>1, <2>1
  <2>7. \A j \in 1..(k - 1) : ~Bad(frames[j])
    BY <1>3, <2>2, <2>6
  <2>8. CASE Bad(frames[k])
    <3>1. FirstBad(frames, k)
      BY <2>7, <2>8 DEF FirstBad
    <3> QED BY <1>2, <2>3, <2>6, <3>1, UnscopedAlike
  <2>9. CASE ~Bad(frames[k])
    <3>1. k = n - 1 /\ v = NoValue
      BY <1>3, <2>2, <2>6, <2>9
    <3>2. \A j \in 1..(n - 1) : ~Bad(frames[j])
      <4>1. \A j \in 1..(n - 1) : j = k \/ j \in 1..(k - 1)
        BY <1>1, <3>1
      <4> QED BY <2>7, <2>9, <4>1
    <3>3. CASE Bad(Top)
      <4>1. FirstBad(frames, n) /\ n \in 1..n
        BY <1>1, <3>2, <3>3 DEF FirstBad
      <4>2. UnscopedFn(frames, n) /\ n # 1
        BY <1>2, <2>1, <4>1
      <4> QED BY <1>1, <2>5, <3>1, <4>2 DEF UnscopedFn
    <3>4. CASE ~Bad(Top)
      <4>1. \A j \in 1..n : j = n \/ j \in 1..(n - 1)
        BY <1>1
      <4>2. \A j \in DOMAIN frames : ~Bad(frames[j])
        BY <1>1, <3>2, <3>4, <4>1
      <4>3. AllWell
        BY <4>2 DEF AllWell, NamesOK
      <4>4. Faulty /\ Top.node.type # "function"
        BY <2>4, <3>1, <3>4, CodegenNode
      <4> QED BY <2>5, <3>1, <4>3, <4>4, FaultyUnscoped DEF n
    <3> QED BY <3>3, <3>4
  <2> QED BY <2>8, <2>9
<1> QED BY <1>1, <1>4, <1>5 DEF Proceeds

LEMMA NamesStep ==
  ASSUME Ready, fn.params \in Params, Distinct(fn.body), ValsOK, ForsOK, Codegen,
         NamesOK(frames, NamedValues)
  PROVE  NamesOK(frames', NamedValues')
<1>1. (\A k \in DOMAIN frames' : ~Bad(frames'[k])) => InScopeSoFar(frames', NamedValues')
  BY ScopeStep
<1>2. \A k \in DOMAIN frames' : FirstBad(frames', k) => UnscopedFn(frames', k)
  BY UnscopedStep
<1> QED BY <1>1, <1>2 DEF NamesOK

-----------------------------------------------------------------------------
(* The start and the end of a function.                                    *)

\* Blocks and names are what they should be as long as nothing has gone wrong.
GenerationInv ==
  phase = "generating" =>
    /\ ValsOK /\ ForsOK
    /\ Fine => Blocks(ir, frames)
    /\ Distinct(fn.body) => NamesOK(frames, NamedValues)

Root == [Activation(Function(fn.body)) EXCEPT !.part = 1]

Begun ==
  /\ fn.params \in Params /\ fn.body \in Bodies
  /\ NamedValues = Cleared(fn.params)
  /\ ir \in Builder /\ ir.blocks = <<<<>>>> /\ ir.cur = 1
  /\ FramesOK /\ frames = <<Root, Activation(fn.body)>>

LEMMA BegunIs ==
  ASSUME Begun
  PROVE  /\ DOMAIN frames = 1..2 /\ Len(frames) = 2 /\ 1..2 = {1, 2}
         /\ frames[1] = Root /\ frames[2] = Activation(fn.body)
         /\ Root.node = Function(fn.body) /\ Root.part = 1
         /\ \A k \in {1, 2} : /\ frames[k].vals = <<>> /\ frames[k].blocks = <<>> /\ frames[k].from = <<>>
                              /\ frames[k].old = <<>> /\ ~Bad(frames[k])
         /\ frames[2].part = 0 /\ frames[2].node = fn.body /\ fn.body \in Nodes(fn.body)
<1> DEFINE x == Activation(fn.body)
<1>1. /\ Root.vals = <<>> /\ Root.blocks = <<>> /\ Root.from = <<>> /\ Root.old = <<>>
      /\ Root.node = Function(fn.body) /\ Root.part = 1
  BY DEF Root, Activation
<1>2. /\ x.vals = <<>> /\ x.blocks = <<>> /\ x.from = <<>> /\ x.old = <<>> /\ x.part = 0 /\ x.node = fn.body
  BY DEF Activation
<1> HIDE DEF x
<1>3. frames = <<Root, x>>
  BY DEF Begun, x
<1>4. DOMAIN frames = 1..2 /\ Len(frames) = 2 /\ 1..2 = {1, 2} /\ frames[1] = Root /\ frames[2] = x
  BY <1>3
<1>5. ToSet(<<>>) = {}
  BY DEF ToSet
<1>6. \A k \in {1, 2} : /\ frames[k].vals = <<>> /\ frames[k].blocks = <<>> /\ frames[k].from = <<>>
                        /\ frames[k].old = <<>>
  BY <1>1, <1>2, <1>4
<1>7. \A k \in {1, 2} : ~Bad(frames[k])
  BY <1>5, <1>6 DEF Bad
<1>8. fn.body \in Nodes(fn.body)
  BY NodesAssumption DEF Begun
<1> QED BY <1>1, <1>2, <1>4, <1>6, <1>7, <1>8 DEF x

LEMMA BegunBlocks ==
  ASSUME Begun
  PROVE  Blocks(ir, frames)
<1>1. /\ DOMAIN frames = {1, 2} /\ \A k \in {1, 2} : frames[k].blocks = <<>>
  BY BegunIs
<1>2. ir \in Builder /\ ir.blocks = <<<<>>>> /\ ir.cur = 1
  BY DEF Begun
<1>3. DOMAIN ir.blocks = {1} /\ ir.blocks[1] = <<>>
  BY <1>2
<1>4. \A k \in DOMAIN frames : Held(frames[k]) = {} /\ Waits(frames[k]) = {} /\ IsInjective(frames[k].blocks)
  BY <1>1 DEF Held, Waits, ToSet, IsInjective
<1>5. Awaited(frames) = {}
  BY <1>4 DEF Awaited
<1>6. Shape(ir, {})
  <2>1. \A q \in DOMAIN ir.blocks : DOMAIN ir.blocks[q] = {} /\ q = 1
    BY <1>3
  <2>2. \A q \in DOMAIN ir.blocks : PhisOK(ir, q)
    BY <2>1 DEF PhisOK
  <2>3. Terminators(ir.blocks[1]) = {}
    BY <1>3 DEF Terminators
  <2> QED BY <1>2, <1>3, <2>1, <2>2, <2>3 DEF Shape
<1>7. \A k \in DOMAIN frames : HeldOK(ir, frames[k])
  BY <1>1, <1>4 DEF HeldOK
<1>8. \A k, l \in DOMAIN frames : k # l => Held(frames[k]) \cap Held(frames[l]) = {}
  BY <1>4
<1> QED BY <1>5, <1>6, <1>7, <1>8 DEF Blocks

LEMMA RootIntroduces ==
  ASSUME NEW f, f.node = Function(fn.body), NEW i
  PROVE  Introduced(f.node, i) = {}
<1>1. f.node.type = "function"
  BY FunctionIs
<1>2. InScope(f.node, i) = 0 /\ 1..0 = {}
  BY <1>1 DEF InScope
<1> QED BY <1>2 DEF Introduced

LEMMA BegunNames ==
  ASSUME Begun
  PROVE  NamesOK(frames, NamedValues)
<1>1. /\ DOMAIN frames = {1, 2} /\ Len(frames) = 2 /\ frames[1] = Root /\ frames[2] = Activation(fn.body)
      /\ Root.node = Function(fn.body) /\ Root.part = 1
      /\ \A k \in {1, 2} : frames[k].old = <<>> /\ ~Bad(frames[k])
      /\ frames[2].part = 0 /\ frames[2].node = fn.body /\ fn.body \in Nodes(fn.body)
  BY BegunIs
<1>2. fn.params \in Params /\ fn.body \in Bodies /\ NamedValues = Cleared(fn.params)
  BY DEF Begun
<1>3. Seen(frames, 2) = ToSet(fn.params)
  <2>1. Seen(frames, 1 + 1) = Seen(frames, 1) \cup Introduced(frames[1].node, frames[1].part)
    BY SeenNext
  <2>2. Introduced(frames[1].node, frames[1].part) = {}
    BY <1>1, RootIntroduces
  <2>3. Seen(frames, 1) = ToSet(fn.params) /\ 1 + 1 = 2
    BY SeenFirst
  <2> QED BY <2>1, <2>2, <2>3
<1>4. {nm \in Name : NamedValues[nm] # 0} = Seen(frames, Len(frames)) \cup Opened(frames[Len(frames)])
  <2>1. fn.params \in Seq(Name) /\ \A nm \in Name : NamedValues[nm] # 0 <=> nm \in ToSet(fn.params)
    BY <1>2, ClearedIs
  <2>2. ToSet(fn.params) \subseteq Name
    BY <2>1 DEF ToSet
  <2>3. Opened(frames[2]) = {}
    BY <1>1, NoneOpened
  <2>4. Seen(frames, Len(frames)) = ToSet(fn.params) /\ Opened(frames[Len(frames)]) = {}
    BY <1>1, <1>3, <2>3
  <2> HIDE DEF NoValue
  <2>5. {nm \in Name : NamedValues[nm] # 0} = ToSet(fn.params)
    BY <2>1, <2>2
  <2> QED BY <2>4, <2>5
<1>5. Done(frames[1], FALSE) = {}
  <2>1. \A i \in Parts(frames[1].node) : ~(Place(frames[1].node, i) < Place(frames[1].node, 1))
    <3> SUFFICES ASSUME NEW i \in Parts(frames[1].node)
                 PROVE  ~(Place(frames[1].node, i) < Place(frames[1].node, 1))
      OBVIOUS
    <3>1. frames[1].node.type = "function" /\ frames[1].node.of = <<fn.body>>
      BY <1>1, FunctionIs
    <3>2. i = 1
      BY <3>1 DEF Parts
    <3>3. Place(frames[1].node, 1) = 1
      BY <3>1, PlaceOf
    <3> QED BY <3>2, <3>3
  <2> QED BY <1>1, <2>1 DEF Done
<1>6. Done(frames[2], TRUE) = {}
  <2>1. \A i \in Parts(fn.body) : i # 0 /\ ~(Place(fn.body, i) < Place(fn.body, 0))
    <3> SUFFICES ASSUME NEW i \in Parts(fn.body)
                 PROVE  i # 0 /\ ~(Place(fn.body, i) < Place(fn.body, 0))
      OBVIOUS
    <3>1. fn.body \in Nodes(fn.body) \cup {Function(fn.body)}
      BY <1>1
    <3>2. i \in 1..Len(fn.body.of) /\ Len(fn.body.of) \in Nat
      BY <1>2, <3>1, VarParts
    <3>3. Place(fn.body, i) \in Nat /\ Place(fn.body, i) > 0 /\ Place(fn.body, 0) = 0
      BY <1>2, <3>1, <3>2, PlacePositive
    <3> QED BY <3>2, <3>3
  <2> QED BY <1>1, <2>1 DEF Done
<1>7. \A k \in DOMAIN frames : Done(frames[k], k = Len(frames)) = {}
  <2>1. (1 = Len(frames)) = FALSE /\ (2 = Len(frames)) = TRUE
    BY <1>1
  <2> QED BY <1>1, <1>5, <1>6, <2>1
<1>8. InScopeSoFar(frames, NamedValues)
  <2>1. \A k \in DOMAIN frames : DOMAIN frames[k].old = {}
    BY <1>1
  <2> QED BY <1>4, <1>7, <2>1 DEF InScopeSoFar
<1> QED BY <1>1, <1>8 DEF NamesOK, FirstBad

LEMMA BegunInv == Begun => GenerationInv
<1> SUFFICES ASSUME Begun PROVE GenerationInv
  OBVIOUS
<1>1. ValsOK /\ ForsOK
  <2>1. /\ DOMAIN frames = {1, 2} /\ \A k \in {1, 2} : frames[k].vals = <<>>
        /\ frames[2].part = 0 /\ frames[1].node = Function(fn.body)
    BY BegunIs
  <2>2. frames[1].node.type # "for"
    BY <2>1, FunctionIs
  <2>3. \A k \in {1, 2} : DOMAIN frames[k].vals = {}
    BY <2>1
  <2> QED BY <2>1, <2>2, <2>3 DEF ValsOK, ForsOK
<1>2. Blocks(ir, frames) /\ NamesOK(frames, NamedValues)
  BY BegunBlocks, BegunNames
<1> QED BY <1>1, <1>2 DEF GenerationInv

LEMMA GenerateInv ==
  ASSUME Generate
  PROVE  GenerationInv'
<1>1. Begun'
  <2>1. Typed /\ fn'.params \in Params /\ fn'.body \in Bodies
    BY GenerateTyped, GenerateIs
  <2>2. NamedValues' = Cleared(fn'.params) /\ ir'.blocks = <<<<>>>> /\ ir'.cur = 1
        /\ frames' = <<[Activation(Function(fn'.body)) EXCEPT !.part = 1], Activation(fn'.body)>>
    BY GenerateIs
  <2> QED BY <2>1, <2>2 DEF Begun, Typed, Root, Cleared, Activation, Function, Node
<1>2. Begun' => GenerationInv'
  BY BegunInv, PTL
<1> QED BY <1>1, <1>2

\* The function frame is alone and has one value.
LEMMA FinishTop ==
  ASSUME TypeInv, Finish
  PROVE  /\ Ready /\ Len(frames) = 1 /\ DOMAIN frames = {1} /\ Top = frames[1]
         /\ Top.node = Function(fn.body) /\ Top.node.type = "function"
         /\ Top.part = 1 /\ Len(Top.vals) = 1 /\ Top.vals \in Seq(IRValue)
<1>1. Top.node.type = "function" /\ phase = "generating" /\ UNCHANGED fn
  BY DEF Finish, Generating
<1>2. Ready
  BY <1>1 DEF TypeInv, Ready
<1>3. /\ Len(frames) \in Nat /\ Len(frames) > 0 /\ DOMAIN frames = 1..Len(frames)
      /\ Top = frames[Len(frames)] /\ LocalsOK(Top) /\ Len(Top.vals) = Place(Top.node, Top.part)
      /\ Top.vals \in Seq(IRValue)
  BY <1>2, TopIs DEF Ready
<1>4. Len(frames) = 1 /\ Top.node = Function(fn.body)
  <2>1. Len(frames) \in DOMAIN frames /\ frames[Len(frames)].node.type = "function"
    BY <1>1, <1>3
  <2> QED BY <1>2, <1>3, <2>1, BottomIs DEF Ready
<1>5. Top.part = 1
  BY <1>1, <1>3 DEF LocalsOK
<1>6. Place(Top.node, 1) = 1
  BY <1>1, PlaceOf
<1>7. DOMAIN frames = {1}
  BY <1>3, <1>4
<1> QED BY <1>1, <1>2, <1>3, <1>4, <1>5, <1>6, <1>7

LEMMA FinishBad ==
  ASSUME TypeInv, Finish
  PROVE  Bad(frames[1]) <=> phase' = "refused"
<1>1. Top = frames[1] /\ Len(Top.vals) = 1 /\ Top.vals \in Seq(IRValue)
  BY FinishTop
<1>2. Bad(Top) <=> Top.vals[1] = NoValue
  BY <1>1, BadIs
<1>3. phase' = "refused" <=> Top.vals[1] = NoValue
  BY DEF Finish
<1> QED BY <1>1, <1>2, <1>3

LEMMA FinishWellFormed ==
  ASSUME TypeInv, GenerationInv, Finish
  PROVE  WellFormed'
<1> DEFINE instr == Instr("ret", "", 0, Top.vals, <<>>)
<1>1. SUFFICES ASSUME phase' = "generated", NEW b \in DOMAIN ir'.blocks
               PROVE  /\ ir'.blocks[b] # <<>> /\ Terminators(ir'.blocks[b]) = {Len(ir'.blocks[b])}
                      /\ \A i \in DOMAIN ir'.blocks[b] :
                           ir'.blocks[b][i].op = "phi" =>
                             /\ i = 1 /\ IsInjective(ir'.blocks[b][i].at)
                             /\ ToSet(ir'.blocks[b][i].at) =
                                  {p \in DOMAIN ir'.blocks : b \in Successors(ir'.blocks[p])}
  BY DEF WellFormed, Terminators, Successors, IsInjective, ToSet, Last
<1>2. /\ Ready /\ DOMAIN frames = {1} /\ Top = frames[1] /\ Top.node.type = "function"
      /\ Top.vals \in Seq(IRValue)
  BY FinishTop
<1>3. Fine
  BY <1>1, <1>2, FinishBad DEF Fine
<1>4. Blocks(ir, frames)
  BY <1>2, <1>3 DEF GenerationInv, Ready
<1>5. Awaited(frames) = {}
  BY <1>2 DEF Awaited, Waits
<1>6. Shape(ir, {}) /\ ir \in Builder
  BY <1>2, <1>4, <1>5 DEF Blocks, Ready
<1>7. ir' = Effect(ir, "ret", Top.vals, <<>>)
  BY <1>1 DEF Finish
<1>8. instr \in Instruction /\ instr.op = "ret" /\ ir' = Insert(ir, instr) /\ ir' \in Builder
  <2> DEFINE none == <<>>
  <2>1. none \in Seq(Nat) /\ "ret" \in Op
    BY DEF Op
  <2> HIDE DEF none
  <2>2. LET s == Instr("ret", "", 0, Top.vals, none)
        IN  /\ s \in Instruction /\ s.op = "ret" /\ s.at = none
            /\ Effect(ir, "ret", Top.vals, none) = Insert(ir, s)
            /\ Effect(ir, "ret", Top.vals, none) \in Builder
    BY ONLY <1>2, <1>6, <2>1, EffectIs
  <2> QED BY <1>7, <2>2 DEF none
<1> HIDE DEF instr
<1>9. ir'.cur = ir.cur /\ ir'.blocks = Insert(ir, instr).blocks
  BY <1>6, <1>8 DEF Insert, Builder
<1> QED BY <1>1, <1>6, <1>8, <1>9, ReturnCloses

LEMMA FinishRefuses ==
  ASSUME TypeInv, GenerationInv, Finish
  PROVE  RefusesUnknown'
<1>1. /\ Ready /\ Len(frames) = 1 /\ DOMAIN frames = {1} /\ Top = frames[1]
      /\ Top.node = Function(fn.body) /\ Top.part = 1 /\ phase = "generating" /\ UNCHANGED fn
      /\ fn.body \in Bodies
  BY FinishTop DEF Ready
<1>2. SUFFICES ASSUME Distinct(fn.body)
               PROVE  phase' = "generated" <=> Scoped(fn.body, ToSet(fn.params))
  BY <1>1 DEF RefusesUnknown, Distinct, IsInjective, Names, ToSet
<1>3. NamesOK(frames, NamedValues)
  BY <1>1, <1>2 DEF GenerationInv
<1>4. phase' \in {"generated", "refused"}
  BY DEF Finish
<1>5. CASE phase' = "refused"
  <2>1. FirstBad(frames, 1)
    <3>1. 1..(1 - 1) = {}
      OBVIOUS
    <3> QED BY <1>5, <3>1, FinishBad DEF FirstBad
  <2>2. UnscopedFn(frames, 1)
    BY <1>1, <1>3, <2>1 DEF NamesOK
  <2> QED BY <1>5, <2>2 DEF UnscopedFn
<1>6. CASE phase' = "generated"
  <2>1. \A k \in DOMAIN frames : ~Bad(frames[k])
    BY <1>1, <1>6, FinishBad
  <2>2. InScopeSoFar(frames, NamedValues)
    BY <1>3, <2>1 DEF NamesOK
  <2>3. frames[1].node.of = <<fn.body>>
    BY <1>1, FunctionIs
  <2>4. 1 \in Done(frames[1], 1 = Len(frames))
    <3>1. fn.body.type \notin {"name", "absent"}
      <4>1. fn.body \in Nodes(fn.body)
        BY <1>1, NodesAssumption
      <4>2. fn.body.type \in {"number", "variable", "call", "unary", "binary", "if", "for", "var"}
        BY <1>1, <4>1, NodeShape
      <4> QED BY <4>2
    <3>2. 1 \in Parts(frames[1].node)
      BY <2>3, <3>1 DEF Parts
    <3> QED BY <1>1, <3>2 DEF Done
  <2>5. Scoped(frames[1].node.of[1], Seen(frames, 1) \cup Introduced(frames[1].node, 1))
    BY <1>1, <2>2, <2>4 DEF InScopeSoFar
  <2>6. Seen(frames, 1) = ToSet(fn.params) /\ Introduced(frames[1].node, 1) = {}
    BY <1>1, SeenFirst, RootIntroduces
  <2> DEFINE S == ToSet(fn.params)
  <2> HIDE DEF S
  <2>7. S \cup {} = S /\ frames[1].node.of[1] = fn.body
    BY <2>3
  <2>8. Scoped(fn.body, S \cup {})
    BY <2>5, <2>6, <2>7 DEF S
  <2> QED BY <1>6, <2>7, <2>8 DEF S
<1> QED BY <1>4, <1>5, <1>6

LEMMA NamesPrime ==
  ASSUME UNCHANGED fn, NamesOK(frames', NamedValues')
  PROVE  NamesOK(frames, NamedValues)'
<1>0. \A k : Seen(frames, k)' = Seen(frames', k)
  BY DEF Seen, Introduced, InScope, Names, ToSet
<1>1. ASSUME InScopeSoFar(frames', NamedValues') PROVE InScopeSoFar(frames, NamedValues)'
  <2>1. (\A k \in DOMAIN frames : \A i \in Done(frames[k], k = Len(frames)) :
       Scoped(frames[k].node.of[i], Seen(frames, k) \cup Introduced(frames[k].node, i)))'
    BY <1>0, <1>1 DEF InScopeSoFar
  <2>2. (\A k \in DOMAIN frames : \A i \in DOMAIN frames[k].old :
       frames[k].old[i] # 0 <=> Names(frames[k].node)[i] \in Seen(frames, k))'
    BY <1>0, <1>1 DEF InScopeSoFar
  <2>3. ({n \in Name : NamedValues[n] # 0} = Seen(frames, Len(frames)) \cup Opened(frames[Len(frames)]))'
    BY <1>0, <1>1 DEF InScopeSoFar
  <2> QED BY <2>1, <2>2, <2>3 DEF InScopeSoFar
<1>2. (\A k \in DOMAIN frames : ~Bad(frames[k]))' => \A k \in DOMAIN frames' : ~Bad(frames'[k])
  BY DEF Bad, NoValue, ToSet
<1>3. (\A k \in DOMAIN frames : FirstBad(frames, k) => UnscopedFn(frames, k))'
  <2>1. \A k : FirstBad(frames, k)' = FirstBad(frames', k)
    BY DEF FirstBad, Bad, NoValue, ToSet
  <2>2. \A k : UnscopedFn(frames, k)' = UnscopedFn(frames', k)
    BY <1>0 DEF UnscopedFn, ToSet
  <2> QED BY <2>1, <2>2 DEF NamesOK
<1> QED BY <1>1, <1>2, <1>3 DEF NamesOK

\* The other actions.
LEMMA CodegenInv ==
  ASSUME TypeInv, GenerationInv, Codegen
  PROVE  GenerationInv'
<1>1. phase = "generating" /\ UNCHANGED <<fn, phase>>
  BY DEF Codegen, GenNumber, GenVariable, GenCall, GenAssignment, GenBinary, GenIf, GenFor, GenVar,
     ReturnNullptr, Reaches, Generating
<1>2. Ready /\ fn.params \in Params
  BY <1>1 DEF TypeInv, Ready
<1>3. ValsOK /\ ForsOK /\ (Fine => Blocks(ir, frames)) /\ (Distinct(fn.body) => NamesOK(frames, NamedValues))
  BY <1>1 DEF GenerationInv
<1>4. Proceeds
  BY <1>2, <1>3, CodegenProceeds
<1>5. ValsOK' /\ ForsOK'
  BY <1>2, <1>3, <1>4, ValsStep, ForsStep
<1>6. Fine' => Blocks(ir, frames)'
  BY <1>2, <1>3, BlocksStep
<1>7. Distinct(fn.body)' => NamesOK(frames, NamedValues)'
  <2>1. Distinct(fn.body) => NamesOK(frames', NamedValues')
    BY <1>2, <1>3, NamesStep
  <2>2. Distinct(fn.body)' => Distinct(fn.body)
    BY <1>1 DEF Distinct, IsInjective, Names
  <2>3. NamesOK(frames', NamedValues') => NamesOK(frames, NamedValues)'
    BY <1>1, NamesPrime
  <2> QED BY <2>1, <2>2, <2>3
<1> QED BY <1>5, <1>6, <1>7 DEF GenerationInv

-----------------------------------------------------------------------------
(* The invariants of code generation.                                      *)

CodeGenInv == TypeInv /\ GenerationInv /\ WellFormed /\ RefusesUnknown

LEMMA CodeGenStep == CodeGenInv /\ [CodeGenNext]_state => CodeGenInv'
<1> SUFFICES ASSUME CodeGenInv, [CodeGenNext]_state PROVE CodeGenInv'
  OBVIOUS
<1>1. TypeInv' /\ TypeInv /\ GenerationInv /\ WellFormed /\ RefusesUnknown
  BY TypeStep DEF CodeGenInv
<1>2. CASE Generate
  <2>1. phase' = "generating"
    BY <1>2, GenerateIs
  <2> QED BY <1>1, <1>2, <2>1, GenerateInv DEF CodeGenInv, WellFormed, RefusesUnknown
<1>3. CASE Codegen
  <2>1. phase' = "generating"
    BY <1>3 DEF Codegen, GenNumber, GenVariable, GenCall, GenAssignment, GenBinary, GenIf, GenFor, GenVar,
       ReturnNullptr, Reaches, Generating
  <2> QED BY <1>1, <1>3, <2>1, CodegenInv DEF CodeGenInv, WellFormed, RefusesUnknown
<1>4. CASE Finish
  <2>1. phase' \in {"generated", "refused"}
    BY <1>4 DEF Finish
  <2> QED BY <1>1, <1>4, <2>1, FinishWellFormed, FinishRefuses DEF CodeGenInv, GenerationInv
<1>5. CASE CallFunction \/ Execute \/ Cut \/ Forget
  <2>1. phase' \in {"running", "returned", "cut", "idle"}
    BY <1>5 DEF CallFunction, Execute, Cut, Forget
  <2> QED BY <1>1, <2>1 DEF CodeGenInv, GenerationInv, WellFormed, RefusesUnknown
<1>6. CASE UNCHANGED state
  <2>1. UNCHANGED <<phase, fn, ir, frames, NamedValues>>
    BY <1>6 DEF state
  <2>2. GenerationInv'
    <3> SUFFICES ASSUME phase' = "generating" PROVE GenerationInv'
      BY DEF GenerationInv
    <3>1. ValsOK /\ ForsOK /\ (Fine => Blocks(ir, frames)) /\ (Distinct(fn.body) => NamesOK(frames, NamedValues))
      BY <1>1, <2>1 DEF GenerationInv
    <3>2. ValsOK' /\ ForsOK' /\ (Fine' => Fine)
      BY <2>1, <3>1 DEF ValsOK, ForsOK, Fine, Bad, Other, NoValue, ToSet
    <3>3. Blocks(ir, frames) => Blocks(ir, frames)'
      BY <2>1, PrimedBlocks
    <3>4. Distinct(fn.body)' => Distinct(fn.body)
      BY <2>1 DEF Distinct, IsInjective, Names
    <3>5. NamesOK(frames, NamedValues) => NamesOK(frames, NamedValues)'
      BY <2>1, NamesPrime
    <3> QED BY <3>1, <3>2, <3>3, <3>4, <3>5 DEF GenerationInv
  <2>3. WellFormed'
    BY <1>1, <2>1 DEF WellFormed, Terminators, Successors, IsInjective, ToSet, Last
  <2>4. RefusesUnknown'
    BY <1>1, <2>1 DEF RefusesUnknown, Distinct, IsInjective, Names, ToSet
  <2> QED BY <1>1, <2>2, <2>3, <2>4 DEF CodeGenInv
<1> QED BY <1>2, <1>3, <1>4, <1>5, <1>6 DEF CodeGenNext

LEMMA CodeGenStart == CodeGenInit => CodeGenInv
BY DEF CodeGenInit, CodeGenInv, TypeInv, GenerationInv, WellFormed, RefusesUnknown

\* For all functions: while one is generated, the activations have the shape of its
\* tree, the blocks begun so far are those that the activations will fill or branch to,
\* and the table has exactly the names that are visible, until the first error; from
\* then on the outermost activation that knows of the error can not be generated.
THEOREM CodeGenInvariance == CodeGenSpec => []CodeGenInv
BY CodeGenStart, CodeGenStep, PTL DEF CodeGenSpec

\* For all functions, through every nesting of if and for: each block ends with its only
\* branch, and a phi comes first and names the blocks that lead to it and no other.
THEOREM BlocksAreWellFormed == CodeGenSpec => []WellFormed
<1>1. CodeGenInv => WellFormed
  BY DEF CodeGenInv
<1> QED BY <1>1, CodeGenInvariance, PTL

\* For all functions, one after the other: a function is refused exactly if it names a
\* variable that is not visible there or a function that is not declared, whatever for
\* and var did to the table and whatever an earlier error left in it.
THEOREM UnknownNamesRefused == CodeGenSpec => []RefusesUnknown
<1>1. CodeGenInv => RefusesUnknown
  BY DEF CodeGenInv
<1> QED BY <1>1, CodeGenInvariance, PTL
=============================================================================
