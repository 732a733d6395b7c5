------------------------- MODULE Profiling_proofs -------------------------
(***************************************************************************)
(* The profiling tools lose and invent no count, whatever program they     *)
(* instrument and however long it runs: the properties of Profiling, for   *)
(* every value of its constants.                                           *)
(*                                                                         *)
(* The counts of a run are spread over the reports, the runtime's map and  *)
(* the activations of the stack; each step of the program or the runtime   *)
(* moves a count from one of these places to another.  What an activation  *)
(* holds follows from where it is in its block, and sums over the stack    *)
(* change by what the last activation gains or loses.                      *)
(***************************************************************************)
EXTENDS Profiling, Integers, FiniteSetTheorems, SequenceTheorems,
        WellFoundedInduction, TLAPS

-----------------------------------------------------------------------------
(* Induction over the natural numbers, on a set.                           *)

\* A set of natural numbers has a least member.
LEMMA LeastNatural ==
  ASSUME NEW S \in SUBSET Nat, S # {}
  PROVE  \E m \in S : \A k \in S : m <= k
<1> DEFINE R == OpToRel(<, Nat)
<1>1. \E m \in S : \A k \in S : ~(<<k, m>> \in R)
  <2> HIDE DEF R
  <2> QED BY NatLessThanWellFounded, WFMin DEF R
<1>2. ASSUME NEW k \in Nat, NEW m \in Nat, k < m PROVE <<k, m>> \in R
  BY <1>2 DEF OpToRel
<1>3. PICK m \in S : \A k \in S : ~(<<k, m>> \in R)
  BY <1>1
<1>4. \A k \in S : ~(k < m)
  BY <1>2, <1>3
<1> HIDE DEF R
<1>5. \A k \in S : m \in Nat /\ k \in Nat
  BY <1>3
<1>6. \A k \in S : m <= k
  BY <1>4, <1>5
<1> QED BY <1>3, <1>6

\* A set that has 0, and the successor of each of its members, has every number.
LEMMA Induct ==
  ASSUME NEW S \in SUBSET Nat, 0 \in S, \A n \in S : n + 1 \in S
  PROVE  S = Nat
<1> DEFINE T == Nat \ S
<1>1. SUFFICES ASSUME T # {} PROVE FALSE
  OBVIOUS
<1>2. PICK m \in T : \A k \in T : m <= k
  BY <1>1, LeastNatural
<1>3. m # 0 /\ m \in Nat /\ m - 1 \in Nat
  BY <1>2
<1>4. m - 1 \notin T
  BY <1>2, <1>3
<1>5. m - 1 \in S /\ (m - 1) + 1 = m
  BY <1>3, <1>4
<1> QED BY <1>2, <1>5

-----------------------------------------------------------------------------
(* Sums.                                                                   *)

\* The sums of the first numbers of a sequence, and that they are what the
\* recursion of SumOf says.
Sums(s) == CHOOSE sum : sum = [n \in 0..Len(s) |-> IF n = 0 THEN 0 ELSE sum[n - 1] + s[n]]

\* There is a function that adds up the numbers of a sequence one by one.
LEMMA SumsExist ==
  ASSUME NEW s \in Seq(Nat), NEW n \in Nat
  PROVE  \E f : f = [k \in 0..n |-> IF k = 0 THEN 0 ELSE f[k - 1] + s[k]]
<1> DEFINE Adds(g, m) == g = [k \in 0..m |-> IF k = 0 THEN 0 ELSE g[k - 1] + s[k]]
           S == {m \in Nat : \E g : Adds(g, m)}
<1>1. 0 \in S
  <2>1. Adds([k \in 0..0 |-> 0], 0)
    OBVIOUS
  <2> HIDE DEF Adds
  <2> QED BY <2>1
<1>2. ASSUME NEW m \in S PROVE m + 1 \in S
  <2>1. m \in Nat
    OBVIOUS
  <2>2. PICK g : Adds(g, m)
    OBVIOUS
  <2> DEFINE h == [k \in 0..(m + 1) |-> IF k = m + 1 THEN g[m] + s[m + 1] ELSE g[k]]
  <2>3. ASSUME NEW k \in 0..(m + 1) PROVE h[k] = IF k = 0 THEN 0 ELSE h[k - 1] + s[k]
    <3>1. CASE k = m + 1
      BY <2>1, <3>1
    <3>2. CASE k # m + 1
      BY <2>1, <2>2, <3>2
    <3> QED BY <3>1, <3>2
  <2>4. Adds(h, m + 1)
    BY <2>3
  <2> HIDE DEF Adds, h
  <2> QED BY <2>1, <2>4
<1>3. S = Nat
  <2>1. S \in SUBSET Nat
    OBVIOUS
  <2> HIDE DEF S
  <2> QED BY <2>1, <1>1, <1>2, Induct
<1> QED BY <1>3

\* SumOf is the last of the sums, and each sum adds a number to the one before.
LEMMA SumsRecur ==
  ASSUME NEW s \in Seq(Nat)
  PROVE  /\ SumOf(s) = Sums(s)[Len(s)]
         /\ Sums(s)[0] = 0
         /\ \A n \in 1..Len(s) : Sums(s)[n] = Sums(s)[n - 1] + s[n]
<1>1. \E f : f = [k \in 0..Len(s) |-> IF k = 0 THEN 0 ELSE f[k - 1] + s[k]]
  BY SumsExist
<1>2. Sums(s) = [k \in 0..Len(s) |-> IF k = 0 THEN 0 ELSE Sums(s)[k - 1] + s[k]]
  BY <1>1, Zenon DEF Sums
<1>3. SumOf(s) = Sums(s)[Len(s)]
  BY DEF SumOf, Sums
<1> HIDE DEF Sums
<1> DEFINE sum == Sums(s)
<1> HIDE DEF sum
<1>4. sum = [k \in 0..Len(s) |-> IF k = 0 THEN 0 ELSE sum[k - 1] + s[k]]
  BY <1>2 DEF sum
<1>5. sum[0] = 0 /\ \A n \in 1..Len(s) : sum[n] = sum[n - 1] + s[n]
  BY <1>4
<1> QED BY <1>3, <1>5 DEF sum

\* The sums of a sequence are those of a longer one.
LEMMA SumsAgree ==
  ASSUME NEW s \in Seq(Nat), NEW t \in Seq(Nat), Len(s) <= Len(t),
         \A k \in 1..Len(s) : s[k] = t[k],
         NEW n \in 0..Len(s)
  PROVE  Sums(s)[n] = Sums(t)[n] /\ Sums(s)[n] \in Nat
<1> DEFINE Agree(k) == k <= Len(s) => Sums(s)[k] = Sums(t)[k] /\ Sums(s)[k] \in Nat
           S == {k \in Nat : Agree(k)}
<1>1. 0 \in S
  BY SumsRecur
<1>2. ASSUME NEW k \in S PROVE k + 1 \in S
  <2> SUFFICES ASSUME k + 1 <= Len(s)
               PROVE  Sums(s)[k + 1] = Sums(t)[k + 1] /\ Sums(s)[k + 1] \in Nat
    OBVIOUS
  <2>1. k \in Nat /\ k + 1 \in 1..Len(s) /\ k + 1 \in 1..Len(t) /\ (k + 1) - 1 = k
    OBVIOUS
  <2>2. Sums(s)[k] = Sums(t)[k] /\ Sums(s)[k] \in Nat
    BY <2>1
  <2>3. Sums(s)[k + 1] = Sums(s)[k] + s[k + 1] /\ Sums(t)[k + 1] = Sums(t)[k] + t[k + 1]
    BY <2>1, SumsRecur
  <2>4. s[k + 1] = t[k + 1] /\ s[k + 1] \in Nat
    BY <2>1
  <2> DEFINE here == Sums(s)[k]
             x == s[k + 1]
  <2>5. here \in Nat /\ x \in Nat /\ Sums(s)[k + 1] = here + x /\ Sums(t)[k + 1] = here + x
    BY <2>2, <2>3, <2>4
  <2> HIDE DEF here, x
  <2> QED BY <2>5
<1>3. S = Nat
  <2>1. S \in SUBSET Nat
    OBVIOUS
  <2> HIDE DEF S
  <2> QED BY <2>1, <1>1, <1>2, Induct
<1>4. n \in S
  BY <1>3
<1> QED BY <1>4

\* A sum is a number, that of no numbers is 0, and one more number is added to it.
LEMMA SumOfAppend ==
  ASSUME NEW s \in Seq(Nat), NEW x \in Nat
  PROVE  SumOf(s) \in Nat /\ SumOf(<<>>) = 0 /\ SumOf(Append(s, x)) = SumOf(s) + x
<1> DEFINE t == Append(s, x)
<1>1. t \in Seq(Nat) /\ Len(t) = Len(s) + 1 /\ t[Len(t)] = x /\ \A k \in 1..Len(s) : s[k] = t[k]
  OBVIOUS
<1> HIDE DEF t
<1>2. Len(s) \in Nat /\ Len(t) \in 1..Len(t) /\ Len(t) - 1 = Len(s)
  BY <1>1
<1>3. Sums(t)[Len(t)] = Sums(t)[Len(s)] + x
  BY <1>1, <1>2, SumsRecur
<1>4. Sums(s)[Len(s)] = Sums(t)[Len(s)] /\ Sums(s)[Len(s)] \in Nat
  BY <1>1, <1>2, SumsAgree
<1>5. SumOf(<<>>) = 0
  <2>1. <<>> \in Seq(Nat) /\ Len(<<>>) = 0
    OBVIOUS
  <2> QED BY <2>1, SumsRecur
<1> QED BY <1>1, <1>3, <1>4, <1>5, SumsRecur DEF t

\* Only the last number of a sequence changes.
LEMMA SumOfLast ==
  ASSUME NEW s \in Seq(Nat), NEW t \in Seq(Nat), Len(s) = Len(t), Len(s) > 0,
         \A k \in 1..(Len(s) - 1) : s[k] = t[k]
  PROVE  SumOf(t) + s[Len(s)] = SumOf(s) + t[Len(t)]
<1> DEFINE n == Len(s)
           r == SubSeq(s, 1, n - 1)
<1>1. n \in Nat /\ n > 0 /\ s[n] \in Nat /\ t[n] \in Nat
  OBVIOUS
<1>2. r \in Seq(Nat)
  OBVIOUS
<1>3. s = Append(r, s[n]) /\ t = Append(r, t[n])
  <2>1. r \in Seq(Nat) /\ Len(r) = n - 1 /\ \A k \in 1..(n - 1) : r[k] = s[k] /\ r[k] = t[k]
    OBVIOUS
  <2>2. n \in Nat /\ n > 0 /\ Len(s) = n /\ Len(t) = n
    OBVIOUS
  <2> HIDE DEF r, n
  <2>3. s = Append(r, s[n])
    BY <2>1, <2>2
  <2>4. t = Append(r, t[n])
    BY <2>1, <2>2
  <2> QED BY <2>3, <2>4
<1> HIDE DEF r, n
<1>4. SumOf(s) = SumOf(r) + s[n] /\ SumOf(t) = SumOf(r) + t[n] /\ SumOf(r) \in Nat
  BY <1>1, <1>2, <1>3, SumOfAppend
<1> QED BY <1>1, <1>4 DEF n

-----------------------------------------------------------------------------
(* Sequences that are put together.                                        *)

\* What FlattenSeq puts together of the first of some sequences.
Flat(ss) ==
  CHOOSE flat : flat = [i \in 1..Len(ss) |-> IF i = 1 THEN ss[i] ELSE flat[i - 1] \o ss[i]]

\* There is a function that puts sequences together one by one.
LEMMA FlatExists ==
  ASSUME NEW ss, NEW n \in Nat
  PROVE  \E f : f = [i \in 1..n |-> IF i = 1 THEN ss[i] ELSE f[i - 1] \o ss[i]]
<1> DEFINE Puts(g, m) == g = [i \in 1..m |-> IF i = 1 THEN ss[i] ELSE g[i - 1] \o ss[i]]
           S == {m \in Nat : \E g : Puts(g, m)}
<1>1. 0 \in S
  <2>1. Puts([i \in 1..0 |-> ss[i]], 0)
    OBVIOUS
  <2> HIDE DEF Puts
  <2> QED BY <2>1
<1>2. ASSUME NEW m \in S PROVE m + 1 \in S
  <2>1. m \in Nat
    OBVIOUS
  <2>2. PICK g : Puts(g, m)
    OBVIOUS
  <2> DEFINE h == [i \in 1..(m + 1) |->
                     IF i = 1 THEN ss[i] ELSE IF i = m + 1 THEN g[m] \o ss[i] ELSE g[i]]
  <2>3. ASSUME NEW i \in 1..(m + 1) PROVE h[i] = IF i = 1 THEN ss[i] ELSE h[i - 1] \o ss[i]
    <3>1. i = 1 => h[i] = ss[i]
      OBVIOUS
    <3>2. i = m + 1 /\ i # 1 => h[i] = g[m] \o ss[i]
      OBVIOUS
    <3>3. i # 1 /\ i # m + 1 => h[i] = g[i]
      OBVIOUS
    <3>4. i # 1 => h[i - 1] = g[i - 1]
      <4> SUFFICES ASSUME i # 1 PROVE h[i - 1] = g[i - 1]
        OBVIOUS
      <4>1. i - 1 \in 1..m /\ i - 1 # m + 1
        BY <2>1
      <4>2. i - 1 = 1 => g[i - 1] = ss[i - 1]
        BY <2>2, <4>1
      <4> QED BY <2>1, <4>1, <4>2
    <3> HIDE DEF h
    <3>5. i # 1 /\ i # m + 1 => g[i] = g[i - 1] \o ss[i]
      <4> SUFFICES ASSUME i # 1, i # m + 1 PROVE g[i] = g[i - 1] \o ss[i]
        OBVIOUS
      <4>1. i \in 1..m
        BY <2>1
      <4> HIDE DEF S
      <4> QED BY <2>2, <4>1
    <3>6. i = m + 1 => i - 1 = m
      BY <2>1
    <3> QED BY <3>1, <3>2, <3>3, <3>4, <3>5, <3>6
  <2>4. Puts(h, m + 1)
    BY <2>3
  <2> HIDE DEF Puts, h
  <2> QED BY <2>1, <2>4
<1>3. S = Nat
  <2>1. S \in SUBSET Nat
    OBVIOUS
  <2> HIDE DEF S
  <2> QED BY <2>1, <1>1, <1>2, Induct
<1> QED BY <1>3

\* FlattenSeq is the last of these, and each adds one sequence to the one before.
LEMMA FlatRecur ==
  ASSUME NEW E, NEW ss \in Seq(Seq(E)), Len(ss) > 0
  PROVE  /\ FlattenSeq(ss) = Flat(ss)[Len(ss)]
         /\ Flat(ss)[1] = ss[1]
         /\ \A i \in 2..Len(ss) : Flat(ss)[i] = Flat(ss)[i - 1] \o ss[i]
<1>1. Len(ss) \in Nat /\ Len(ss) # 0
  OBVIOUS
<1>2. \E f : f = [i \in 1..Len(ss) |-> IF i = 1 THEN ss[i] ELSE f[i - 1] \o ss[i]]
  BY <1>1, FlatExists
<1>3. Flat(ss) = [i \in 1..Len(ss) |-> IF i = 1 THEN ss[i] ELSE Flat(ss)[i - 1] \o ss[i]]
  BY <1>2, Zenon DEF Flat
<1>4. FlattenSeq(ss) = Flat(ss)[Len(ss)]
  BY <1>1 DEF FlattenSeq, Flat
<1> DEFINE flat == Flat(ss)
<1> HIDE DEF flat
<1>5. flat = [i \in 1..Len(ss) |-> IF i = 1 THEN ss[i] ELSE flat[i - 1] \o ss[i]]
  BY <1>3 DEF flat
<1>6. flat[1] = ss[1]
  BY <1>1, <1>5
<1>7. ASSUME NEW i \in 2..Len(ss) PROVE flat[i] = flat[i - 1] \o ss[i]
  <2>1. i \in 1..Len(ss) /\ i # 1
    BY <1>1
  <2> QED BY <1>5, <2>1
<1> QED BY <1>4, <1>6, <1>7 DEF flat

\* What is put together of the first sequences does not depend on the ones after.
LEMMA FlatAgrees ==
  ASSUME NEW E, NEW ss \in Seq(Seq(E)), NEW tt \in Seq(Seq(E)), Len(ss) <= Len(tt),
         \A i \in 1..Len(ss) : ss[i] = tt[i],
         NEW n \in 1..Len(ss)
  PROVE  Flat(ss)[n] = Flat(tt)[n] /\ Flat(ss)[n] \in Seq(E)
<1> DEFINE Agree(k) == k + 1 <= Len(ss) =>
                         Flat(ss)[k + 1] = Flat(tt)[k + 1] /\ Flat(ss)[k + 1] \in Seq(E)
           S == {k \in Nat : Agree(k)}
<1>0. Len(ss) > 0 /\ Len(tt) > 0 /\ Len(ss) \in Nat /\ Len(tt) \in Nat
  OBVIOUS
<1>1. 0 \in S
  <2>1. ss[1] = tt[1] /\ ss[1] \in Seq(E)
    BY <1>0
  <2>2. Flat(ss)[1] = ss[1] /\ Flat(tt)[1] = tt[1]
    BY <1>0, FlatRecur
  <2> QED BY <2>1, <2>2
<1>2. ASSUME NEW k \in S PROVE k + 1 \in S
  <2>1. k \in Nat /\ k + 1 \in Nat
    OBVIOUS
  <2> SUFFICES ASSUME (k + 1) + 1 <= Len(ss)
               PROVE  /\ Flat(ss)[(k + 1) + 1] = Flat(tt)[(k + 1) + 1]
                      /\ Flat(ss)[(k + 1) + 1] \in Seq(E)
    BY <2>1
  <2> DEFINE i == (k + 1) + 1
  <2>2. i \in 2..Len(ss) /\ i \in 2..Len(tt) /\ i - 1 = k + 1
    BY <1>0, <2>1
  <2>3. Flat(ss)[i - 1] = Flat(tt)[i - 1] /\ Flat(ss)[i - 1] \in Seq(E)
    BY <1>0, <2>1, <2>2
  <2> HIDE DEF i
  <2>4. Flat(ss)[i] = Flat(ss)[i - 1] \o ss[i] /\ Flat(tt)[i] = Flat(tt)[i - 1] \o tt[i]
    BY <1>0, <2>2, FlatRecur
  <2>5. ss[i] = tt[i] /\ ss[i] \in Seq(E)
    BY <2>2
  <2>6. Flat(ss)[i - 1] \o ss[i] \in Seq(E)
    BY <2>3, <2>5
  <2>7. Flat(ss)[i] = Flat(tt)[i] /\ Flat(ss)[i] \in Seq(E)
    BY <2>3, <2>4, <2>5, <2>6
  <2> QED BY <2>7 DEF i
<1>3. S = Nat
  <2>1. S \in SUBSET Nat
    OBVIOUS
  <2> HIDE DEF S
  <2> QED BY <2>1, <1>1, <1>2, Induct
<1>4. n - 1 \in Nat /\ (n - 1) + 1 = n /\ n <= Len(ss)
  BY <1>0
<1>5. n - 1 \in S
  BY <1>3, <1>4
<1>6. Agree(n - 1)
  BY <1>5
<1> QED BY <1>4, <1>6

\* One more sequence goes to the end of what the others give.
LEMMA FlattenAppend ==
  ASSUME NEW E, NEW ss \in Seq(Seq(E)), NEW x \in Seq(E)
  PROVE  /\ FlattenSeq(<<>>) = <<>> /\ FlattenSeq(ss) \in Seq(E)
         /\ FlattenSeq(Append(ss, x)) = FlattenSeq(ss) \o x
<1> DEFINE tt == Append(ss, x)
<1>1. tt \in Seq(Seq(E)) /\ Len(tt) = Len(ss) + 1 /\ tt[Len(tt)] = x
      /\ \A i \in 1..Len(ss) : ss[i] = tt[i]
  OBVIOUS
<1> HIDE DEF tt
<1>2. Len(ss) \in Nat /\ Len(tt) > 0 /\ Len(ss) <= Len(tt)
  BY <1>1
<1>3. FlattenSeq(<<>>) = <<>>
  BY DEF FlattenSeq
<1>4. CASE Len(ss) = 0
  <2>1. ss = <<>> /\ Len(tt) = 1
    BY <1>1, <1>4
  <2>2. FlattenSeq(tt) = x
    BY <1>1, <1>2, <2>1, FlatRecur
  <2>3. x = <<>> \o x /\ FlattenSeq(ss) = <<>> /\ <<>> \in Seq(E)
    BY <1>3, <2>1
  <2>4. FlattenSeq(tt) = FlattenSeq(ss) \o x
    BY <2>2, <2>3
  <2> QED BY <1>3, <2>3, <2>4 DEF tt
<1>5. CASE Len(ss) # 0
  <2>1. Len(ss) > 0 /\ Len(ss) \in 1..Len(ss) /\ Len(tt) \in 2..Len(tt) /\ Len(tt) - 1 = Len(ss)
    BY <1>1, <1>2, <1>5
  <2>2. Flat(tt)[Len(tt)] = Flat(tt)[Len(ss)] \o x
    BY <1>1, <1>2, <2>1, FlatRecur
  <2>3. Flat(ss)[Len(ss)] = Flat(tt)[Len(ss)] /\ Flat(ss)[Len(ss)] \in Seq(E)
    BY <1>1, <1>2, <2>1, FlatAgrees
  <2>4. FlattenSeq(ss) = Flat(ss)[Len(ss)] /\ FlattenSeq(tt) = Flat(tt)[Len(tt)]
    BY <1>1, <1>2, <2>1, FlatRecur
  <2> QED BY <1>3, <2>2, <2>3, <2>4 DEF tt
<1> QED BY <1>4, <1>5

\* A sequence that is not empty is its front, and its last element.
LEMMA FrontAndLast ==
  ASSUME NEW E, NEW s \in Seq(E), s # <<>>
  PROVE  /\ Front(s) \in Seq(E) /\ Len(Front(s)) = Len(s) - 1 /\ Last(s) \in E
         /\ s = Append(Front(s), Last(s))
         /\ \A i \in 1..(Len(s) - 1) : Front(s)[i] = s[i]
<1>1. Len(s) \in Nat \ {0}
  OBVIOUS
<1>2. Front(s) \in Seq(E) /\ Len(Front(s)) = Len(s) - 1
  <2>1. Len(s) - 1 \in Nat /\ Front(s) = SubSeq(s, 1, Len(s) - 1)
    BY <1>1 DEF Front
  <2> DEFINE m == 1
             n == Len(s) - 1
  <2>2. m \in Int /\ n \in Int /\ \A i \in m..n : s[i] \in E
    BY <1>1
  <2>3. m = 1 /\ n \in Nat
    BY <2>1
  <2> HIDE DEF m, n
  <2>4. /\ SubSeq(s, m, n) \in Seq(E)
        /\ Len(SubSeq(s, m, n)) = IF m <= n THEN n - m + 1 ELSE 0
    BY <2>2, SubSeqProperties
  <2>5. (IF m <= n THEN n - m + 1 ELSE 0) = n
    BY <2>3
  <2> QED BY <2>1, <2>4, <2>5 DEF m, n
<1>3. Last(s) \in E /\ Last(s) = s[Len(s)]
  BY <1>1 DEF Last
<1>4. \A i \in 1..(Len(s) - 1) : Front(s)[i] = s[i]
  BY <1>1 DEF Front
<1>5. s = Append(Front(s), Last(s))
  BY <1>1, <1>2, <1>3, <1>4
<1> QED BY <1>2, <1>3, <1>4, <1>5

\* A sequence with one more element, as a function.
LEMMA AppendIs ==
  ASSUME NEW E, NEW s \in Seq(E), NEW x \in E
  PROVE  Append(s, x) = [i \in 1..(Len(s) + 1) |-> IF i = Len(s) + 1 THEN x ELSE s[i]]
<1> DEFINE f == [i \in 1..(Len(s) + 1) |-> IF i = Len(s) + 1 THEN x ELSE s[i]]
<1>1. f \in [1..(Len(s) + 1) -> E] /\ f[Len(s) + 1] = x /\ \A i \in 1..Len(s) : f[i] = s[i]
  OBVIOUS
<1> HIDE DEF f
<1>2. Append(s, x) = f
  BY <1>1
<1> QED BY <1>2 DEF f

\* Sequences of one element each give the sequence of these.
LEMMA FlattenOnes ==
  ASSUME NEW E, NEW s \in Seq(E)
  PROVE  FlattenSeq([i \in DOMAIN s |-> <<s[i]>>]) = s
<1> DEFINE ones(t) == [i \in DOMAIN t |-> <<t[i]>>]
           S == {n \in Nat : \A t \in Seq(E) : Len(t) = n => FlattenSeq(ones(t)) = t}
<1>1. 0 \in S
  <2> SUFFICES ASSUME NEW t \in Seq(E), Len(t) = 0 PROVE FlattenSeq(ones(t)) = t
    OBVIOUS
  <2>1. t = <<>> /\ ones(t) = <<>>
    OBVIOUS
  <2>2. <<>> \in Seq(Seq(E)) /\ <<>> \in Seq(E)
    OBVIOUS
  <2> HIDE DEF ones
  <2> QED BY <2>1, <2>2, FlattenAppend
<1>2. ASSUME NEW n \in S PROVE n + 1 \in S
  <2>1. n \in Nat /\ n + 1 \in Nat
    OBVIOUS
  <2> SUFFICES ASSUME NEW t \in Seq(E), Len(t) = n + 1 PROVE FlattenSeq(ones(t)) = t
    BY <2>1
  <2> DEFINE a == Front(t)
             e == Last(t)
  <2>2. a \in Seq(E) /\ Len(a) = n /\ e \in E /\ t = Append(a, e)
    <3>1. t # <<>>
      BY <2>1
    <3> QED BY <2>1, <3>1, FrontAndLast
  <2>3. FlattenSeq(ones(a)) = a
    BY <2>2
  <2> HIDE DEF a, e
  <2>4. ones(Append(a, e)) = Append(ones(a), <<e>>) /\ ones(a) \in Seq(Seq(E)) /\ <<e>> \in Seq(E)
    <3>1. \A i \in 1..n : <<a[i]>> \in Seq(E)
      BY <2>2
    <3>2. ones(a) \in Seq(Seq(E)) /\ Len(ones(a)) = n
      BY <2>1, <2>2, <3>1
    <3>3. DOMAIN Append(a, e) = 1..(n + 1)
      BY <2>1, <2>2
    <3>4. \A i \in 1..(n + 1) : Append(a, e)[i] = IF i = n + 1 THEN e ELSE a[i]
      BY <2>1, <2>2
    <3>5. ones(Append(a, e)) = [i \in 1..(n + 1) |-> IF i = n + 1 THEN <<e>> ELSE <<a[i]>>]
      BY <3>3, <3>4
    <3>6. Append(ones(a), <<e>>) = [i \in 1..(n + 1) |-> IF i = n + 1 THEN <<e>> ELSE <<a[i]>>]
      BY <2>1, <2>2, <3>2
    <3> QED BY <2>2, <3>2, <3>5, <3>6
  <2> HIDE DEF ones
  <2>5. FlattenSeq(Append(ones(a), <<e>>)) = FlattenSeq(ones(a)) \o <<e>>
    BY <2>4, FlattenAppend
  <2>6. a \o <<e>> = Append(a, e)
    BY <2>2
  <2> QED BY <2>2, <2>3, <2>4, <2>5, <2>6
<1>3. S = Nat
  <2>1. S \in SUBSET Nat
    OBVIOUS
  <2> HIDE DEF S
  <2> QED BY <2>1, <1>1, <1>2, Induct
<1>4. Len(s) \in S
  BY <1>3
<1> QED BY <1>4

-----------------------------------------------------------------------------
(* Counters of a width.                                                    *)

\* One more multiple of a number is larger by it at least.
LEMMA LargerMultiple ==
  ASSUME NEW m \in Nat \ {0}, NEW q \in Int, NEW r \in Int, q < r
  PROVE  m * q \in Int /\ m * r \in Int /\ m * q + m <= m * r
<1>1. PICK d \in Nat : r = q + 1 + d
  <2>1. r - q - 1 \in Nat /\ r = q + 1 + (r - q - 1)
    OBVIOUS
  <2> QED BY <2>1
<1>2. m * r = m * q + m + m * d
  BY <1>1
<1>3. m * d >= 0 /\ m * d \in Int /\ m * q \in Int /\ m * r \in Int
  OBVIOUS
<1> QED BY <1>2, <1>3

\* What a division leaves is unique.
LEMMA SameRemainder ==
  ASSUME NEW m \in Nat \ {0}, NEW q \in Int, NEW r \in Int,
         NEW a \in 0..(m - 1), NEW b \in 0..(m - 1), m * q + a = m * r + b
  PROVE  a = b
<1>1. m * q \in Int /\ m * r \in Int
  OBVIOUS
<1>2. CASE q < r
  BY <1>1, <1>2, LargerMultiple
<1>3. CASE r < q
  BY <1>1, <1>3, LargerMultiple
<1> QED BY <1>2, <1>3

\* What Wrap leaves, and of what it takes a multiple away.
LEMMA WrapDivides ==
  ASSUME NEW a \in Nat
  PROVE  Wrap(a) \in 0..(2^Width - 1) /\ \E q \in Int : a = 2^Width * q + Wrap(a)
<1> DEFINE m == 2^Width
<1>1. m \in Nat \ {0}
  BY ProgramAssumption
<1> HIDE DEF m
<1>2. a = m * (a \div m) + (a % m)
  BY <1>1
<1>3. a % m \in 0..(m - 1) /\ a \div m \in Int
  BY <1>1
<1> QED BY <1>2, <1>3 DEF m, Wrap

\* Two numbers that differ by a multiple are the same counter.
LEMMA SameWrap ==
  ASSUME NEW a \in Nat, NEW b \in Nat, NEW q \in Int, NEW r \in Int, NEW c \in Nat,
         a = 2^Width * q + c, b = 2^Width * r + c
  PROVE  Wrap(a) = Wrap(b)
<1> DEFINE m == 2^Width
<1>1. m \in Nat \ {0}
  BY ProgramAssumption
<1>2. PICK s \in Int : c = m * s + Wrap(c)
  BY WrapDivides
<1>3. PICK t \in Int : a = m * t + Wrap(a)
  BY WrapDivides
<1>4. PICK u \in Int : b = m * u + Wrap(b)
  BY WrapDivides
<1>5. Wrap(a) \in 0..(m - 1) /\ Wrap(b) \in 0..(m - 1) /\ Wrap(c) \in 0..(m - 1)
  BY WrapDivides
<1>6. a = m * q + c /\ b = m * r + c
  OBVIOUS
<1> HIDE DEF m
<1>7. m * (q + s) = m * q + m * s /\ m * (r + s) = m * r + m * s
  BY <1>1
<1>8. m * q \in Int /\ m * s \in Int /\ m * r \in Int /\ m * t \in Int /\ m * u \in Int
  BY <1>1
<1>9. m * t + Wrap(a) = m * (q + s) + Wrap(c)
  BY <1>2, <1>3, <1>5, <1>6, <1>7, <1>8
<1>10. m * u + Wrap(b) = m * (r + s) + Wrap(c)
  BY <1>2, <1>4, <1>5, <1>6, <1>7, <1>8
<1>11. q + s \in Int /\ r + s \in Int
  OBVIOUS
<1>12. Wrap(a) = Wrap(c)
  BY <1>1, <1>3, <1>5, <1>9, <1>11, SameRemainder
<1>13. Wrap(b) = Wrap(c)
  BY <1>1, <1>4, <1>5, <1>10, <1>11, SameRemainder
<1> QED BY <1>12, <1>13

\* A counter that wraps before a sum is as good as one that wraps after it.
LEMMA WrapInside ==
  ASSUME NEW a \in Nat, NEW b \in Nat
  PROVE  Wrap(b) \in Nat /\ Wrap(a + Wrap(b)) = Wrap(a + b)
<1> DEFINE m == 2^Width
<1>1. m \in Nat \ {0}
  BY ProgramAssumption
<1>2. PICK q \in Int : b = m * q + Wrap(b)
  BY WrapDivides
<1>3. Wrap(b) \in Nat
  <2>1. Wrap(b) \in 0..(m - 1)
    BY WrapDivides
  <2> HIDE DEF m
  <2> QED BY <1>1, <2>1
<1>4. a + Wrap(b) = m * 0 + (a + Wrap(b)) /\ a + b = m * q + (a + Wrap(b))
  <2> HIDE DEF m
  <2>1. m * q \in Int /\ m * 0 = 0
    BY <1>1
  <2> QED BY <1>2, <1>3, <2>1
<1>5. a + Wrap(b) \in Nat /\ a + b \in Nat
  BY <1>3
<1> QED BY <1>3, <1>4, <1>5, SameWrap

\* Counters that are the same stay the same.
LEMMA WrapBoth ==
  ASSUME NEW a \in Nat, NEW b \in Nat, NEW c \in Nat, Wrap(a) = Wrap(b)
  PROVE  Wrap(a + c) = Wrap(b + c)
<1>1. Wrap(c + a) = Wrap(c + Wrap(a)) /\ Wrap(c + b) = Wrap(c + Wrap(b))
  BY WrapInside
<1>2. c + a = a + c /\ c + b = b + c
  OBVIOUS
<1> QED BY <1>1, <1>2

-----------------------------------------------------------------------------
(* How often an opcode occurs among some instructions.                     *)

Places(c, m, n, op) == {i \in m..n : c[i].op = op}
Number(c, m, n, op) == Cardinality(Places(c, m, n, op))
One(e, op) == IF e.op = op THEN 1 ELSE 0

\* The number at an interval of places is a number, and none at no place.
LEMMA NumberType ==
  ASSUME NEW c, NEW op, NEW m, NEW n, m \in Int, n \in Int
  PROVE  /\ IsFiniteSet(Places(c, m, n, op)) /\ Number(c, m, n, op) \in Nat
         /\ n < m => Number(c, m, n, op) = 0
<1>1. IsFiniteSet(m..n)
  BY FS_Interval
<1>2. IsFiniteSet(Places(c, m, n, op))
  BY <1>1, FS_Subset DEF Places
<1>3. n < m => Places(c, m, n, op) = {}
  BY DEF Places
<1> QED BY <1>2, <1>3, FS_CardinalityType, FS_EmptySet DEF Number

\* Numbers at places that are apart add up.
LEMMA NumberSplits ==
  ASSUME NEW c, NEW op, NEW m, NEW n, NEW k, NEW j,
         m \in Int, n \in Int, k \in Int, j \in Int, j = k + 1, m <= j, k <= n
  PROVE  Number(c, m, n, op) = Number(c, m, k, op) + Number(c, j, n, op)
<1> DEFINE A == Places(c, m, k, op)
           B == Places(c, j, n, op)
<1>1. IsFiniteSet(A) /\ IsFiniteSet(B)
  BY NumberType
<1>2. A \cap B = {} /\ Places(c, m, n, op) = A \cup B
  BY DEF Places
<1> HIDE DEF A, B
<1>3. Cardinality(A) \in Nat /\ Cardinality(B) \in Nat
  BY <1>1, FS_CardinalityType
<1>4. Cardinality(A \cup B) = Cardinality(A) + Cardinality(B) - Cardinality(A \cap B)
  BY <1>1, FS_Union
<1>5. Cardinality(A \cap B) = 0
  BY <1>2, FS_EmptySet
<1>6. Cardinality(A \cup B) = Cardinality(A) + Cardinality(B)
  BY <1>3, <1>4, <1>5
<1> QED BY <1>2, <1>6 DEF Number, A, B

\* The same for the first places.
LEMMA FirstSplits ==
  ASSUME NEW c, NEW op, NEW n, NEW k, NEW j,
         n \in Int, k \in Int, j \in Int, j = k + 1, 1 <= j, k <= n
  PROVE  Number(c, 1, n, op) = Number(c, 1, k, op) + Number(c, j, n, op)
<1> DEFINE m == 1
<1>1. m \in Int /\ m <= j
  OBVIOUS
<1> HIDE DEF m
<1>2. Number(c, m, n, op) = Number(c, m, k, op) + Number(c, j, n, op)
  BY <1>1, NumberSplits
<1> QED BY <1>2 DEF m

\* At one place there is one or none.
LEMMA NumberAtOne ==
  ASSUME NEW c, NEW op, NEW n, n \in Int
  PROVE  Number(c, n, n, op) = One(c[n], op)
<1>1. n..n = {n}
  OBVIOUS
<1>2. Places(c, n, n, op) = IF c[n].op = op THEN {n} ELSE {}
  BY <1>1 DEF Places
<1>3. Cardinality({n}) = 1 /\ Cardinality({}) = 0
  BY FS_Singleton, FS_EmptySet
<1> QED BY <1>2, <1>3 DEF Number, One

\* Instructions with the same opcodes have the same numbers.
LEMMA NumberSame ==
  ASSUME NEW c, NEW d, NEW op, NEW m, NEW n, \A i \in m..n : c[i].op = d[i].op
  PROVE  Number(c, m, n, op) = Number(d, m, n, op)
<1>1. Places(c, m, n, op) = Places(d, m, n, op)
  BY DEF Places
<1> QED BY <1>1 DEF Number

\* Of an opcode that no place has there is none.
LEMMA NumberNone ==
  ASSUME NEW c, NEW op, NEW m, NEW n, \A i \in m..n : c[i].op # op
  PROVE  Number(c, m, n, op) = 0
<1>1. Places(c, m, n, op) = {}
  BY DEF Places
<1> QED BY <1>1, FS_EmptySet DEF Number

-----------------------------------------------------------------------------
(* Blocks that are instrumented.                                           *)

Instrumented(t, b) == IF t = "count" THEN Counting(b) ELSE Biasing(b)

Returns(b) == Last(b.code).op = "ret"

\* What the passes insert before the last instruction.
Inserted(t, b) ==
  IF t = "count"
  THEN IF Returns(b) THEN <<RuntimeCall("update", Counts(b.code)), RuntimeCall("print", Empty)>>
       ELSE <<RuntimeCall("update", Counts(b.code))>>
  ELSE IF Returns(b) THEN <<RuntimeCall("printBranch", Empty)>>
       ELSE IF Len(b.succ) > 1 THEN <<RuntimeCall("updateBranch", Empty)>> ELSE <<>>

\* The instructions of a program that is instrumented.
Entries(p, b) == [op : Ops \cup RuntimeOps, callee : 0..Len(p), counts : {Empty, Counts(b.code)}]

\* What a block of a program is, and what is inserted, by ProgramAssumption.
LEMMA BlockShape ==
  ASSUME NEW p \in Programs, NEW f \in DOMAIN p, NEW b \in Blocks(p, f)
  PROVE  /\ b.code \in Seq(Entries(p, b)) /\ b.code # <<>> /\ Len(b.code) \in Nat \ {0}
         /\ \A i \in 1..Len(b.code) :
              /\ b.code[i].op \in Ops /\ b.code[i].op \notin RuntimeOps
              /\ b.code[i].callee \in 0..Len(p)
              /\ b.code[i].op \in {"br", "ret"} <=> i = Len(b.code)
         /\ Last(b.code) = b.code[Len(b.code)] /\ Last(b.code).op \in {"br", "ret"}
         /\ "ret" \in OpsOf(b.code) <=> Returns(b)
         /\ ~Returns(b) => Len(b.succ) \in {1, 2}
         /\ b.succ \in Seq(DOMAIN p[f])
<1>1. /\ b \in [code : Seq(Instructions(p)), succ : Seq(DOMAIN p[f])] /\ b.code # <<>>
      /\ \A i \in DOMAIN b.code : b.code[i].op \in {"br", "ret"} <=> i = Len(b.code)
      /\ Last(b.code).op = "br" => Len(b.succ) \in {1, 2}
  BY DEF Blocks
<1> DEFINE c == b.code
<1>2. c \in Seq(Instructions(p)) /\ c # <<>> /\ b.succ \in Seq(DOMAIN p[f])
  BY <1>1
<1>3. /\ Instructions(p) \subseteq Entries(p, b)
      /\ \A e \in Instructions(p) : e.op \in Ops /\ e.op \notin RuntimeOps /\ e.callee \in 0..Len(p)
  BY ProgramAssumption DEF Instructions, Entries
<1>4. \A i \in 1..Len(c) : c[i].op \in {"br", "ret"} <=> i = Len(c)
  BY <1>1, <1>2
<1> HIDE DEF c
<1>5. Len(c) \in Nat \ {0} /\ Len(c) \in 1..Len(c)
  BY <1>2
<1>6. \A i \in 1..Len(c) : c[i] \in Instructions(p)
  BY <1>2
<1>7. c \in Seq(Entries(p, b))
  BY <1>2, <1>3
<1>8. Last(c) = c[Len(c)] /\ Last(c).op \in {"br", "ret"}
  BY <1>4, <1>5 DEF Last
<1>9. "ret" \in OpsOf(c) <=> Last(c).op = "ret"
  BY <1>2, <1>4, <1>5, <1>8 DEF OpsOf
<1> QED BY <1>1, <1>2, <1>3, <1>4, <1>5, <1>6, <1>7, <1>8, <1>9 DEF c, Returns

\* What is inserted are calls of the runtime.
LEMMA InsertedShape ==
  ASSUME NEW p \in Programs, NEW t, NEW b
  PROVE  /\ Inserted(t, b) \in Seq(Entries(p, b)) /\ Len(Inserted(t, b)) \in Nat
         /\ \A i \in 1..Len(Inserted(t, b)) : Inserted(t, b)[i].op \in RuntimeOps
<1>1. ASSUME NEW op \in RuntimeOps, NEW n \in {Empty, Counts(b.code)}
      PROVE  RuntimeCall(op, n) \in Entries(p, b) /\ RuntimeCall(op, n).op = op
  <2>1. p \in Seq(Range(p))
    BY ProgramAssumption
  <2>2. 0 \in 0..Len(p)
    BY <2>1
  <2> QED BY <2>2 DEF RuntimeCall, Entries
<1> DEFINE u == RuntimeCall("update", Counts(b.code))
           r == RuntimeCall("print", Empty)
           v == RuntimeCall("updateBranch", Empty)
           s == RuntimeCall("printBranch", Empty)
<1>2. {u, r, v, s} \subseteq Entries(p, b)
      /\ {u.op, r.op, v.op, s.op} \subseteq RuntimeOps
  BY <1>1 DEF RuntimeOps
<1>3. Inserted(t, b) \in {<<u, r>>, <<u>>, <<s>>, <<v>>, <<>>}
  BY DEF Inserted
<1> HIDE DEF u, r, v, s
<1> DEFINE Calls(m) == m \in Seq(Entries(p, b)) /\ Len(m) \in Nat
                       /\ \A i \in 1..Len(m) : m[i].op \in RuntimeOps
<1>4. Calls(<<u>>) /\ Calls(<<s>>) /\ Calls(<<v>>)
  <2>1. ASSUME NEW e, e \in Entries(p, b), e.op \in RuntimeOps PROVE Calls(<<e>>)
    <3>1. <<e>> \in Seq(Entries(p, b)) /\ Len(<<e>>) = 1 /\ <<e>>[1] = e
      BY <2>1
    <3>2. \A i \in 1..1 : i = 1
      OBVIOUS
    <3> QED BY <2>1, <3>1, <3>2
  <2> HIDE DEF Calls
  <2> QED BY <1>2, <2>1
<1>5. Calls(<<u, r>>)
  <2>1. u \in Entries(p, b) /\ r \in Entries(p, b) /\ u.op \in RuntimeOps /\ r.op \in RuntimeOps
    BY <1>2
  <2>2. <<u, r>> \in Seq(Entries(p, b)) /\ Len(<<u, r>>) = 2
    BY <2>1
  <2>3. \A i \in 1..2 : <<u, r>>[i] = u \/ <<u, r>>[i] = r
    OBVIOUS
  <2> QED BY <2>1, <2>2, <2>3
<1>6. Calls(<<>>)
  <2>1. <<>> \in Seq(Entries(p, b)) /\ Len(<<>>) = 0 /\ 1..0 = {}
    OBVIOUS
  <2> QED BY <2>1
<1>7. Calls(Inserted(t, b))
  <2> HIDE DEF Calls
  <2> QED BY <1>3, <1>4, <1>5, <1>6
<1> QED BY <1>7

\* The report is inserted in a block that returns.
LEMMA ReportIs ==
  ASSUME NEW p \in Programs, NEW f \in DOMAIN p, NEW b \in Blocks(p, f), NEW op
  PROVE  Report(b.code, op) = IF Returns(b) THEN <<RuntimeCall(op, Empty)>> ELSE <<>>
BY BlockShape DEF Report

\* What an element was put at the end of, and that element.
LEMMA AppendFront ==
  ASSUME NEW E, NEW s \in Seq(E), NEW x \in E
  PROVE  Front(Append(s, x)) = s /\ Last(Append(s, x)) = x
<1>1. Len(Append(s, x)) = Len(s) + 1 /\ Append(s, x)[Len(s) + 1] = x
  OBVIOUS
<1>2. SubSeq(Append(s, x), 1, Len(s)) = s
  OBVIOUS
<1> QED BY <1>1, <1>2 DEF Front, Last

\* The places of two sequences that are put together.
LEMMA ConcatPlaces ==
  ASSUME NEW E, NEW s \in Seq(E), NEW t \in Seq(E)
  PROVE  /\ s \o t \in Seq(E) /\ Len(s \o t) = Len(s) + Len(t)
         /\ \A i \in 1..Len(s) : (s \o t)[i] = s[i]
         /\ \A i \in 1..Len(t) : (s \o t)[Len(s) + i] = t[i]
<1>1. s \o t \in Seq(E) /\ Len(s \o t) = Len(s) + Len(t)
  OBVIOUS
<1>2. \A i \in 1..Len(s) : (s \o t)[i] = s[i]
  OBVIOUS
<1>3. \A i \in 1..Len(t) : (s \o t)[Len(s) + i] = t[i]
  OBVIOUS
<1> QED BY <1>1, <1>2, <1>3

\* Putting sequences together, in steps.
LEMMA Concats ==
  ASSUME NEW E, NEW s \in Seq(E), NEW x \in E, NEW y \in E
  PROVE  /\ s \o <<>> = s /\ (s \o <<x>>) \o <<y>> = s \o <<x, y>>
         /\ s \o <<x>> = Append(s, x) /\ Append(s, x) \in Seq(E)
<1>1. s \o <<>> = s /\ s \o <<x>> = Append(s, x) /\ Append(s, x) \in Seq(E)
  OBVIOUS
<1>2. (s \o <<x>>) \o <<y>> = s \o <<x, y>>
  <2> DEFINE l == (s \o <<x>>) \o <<y>>
             r == s \o <<x, y>>
  <2>1. l \in Seq(E) /\ r \in Seq(E) /\ Len(l) = Len(s) + 2 /\ Len(r) = Len(s) + 2
    OBVIOUS
  <2>2. \A i \in 1..Len(s) : l[i] = s[i] /\ r[i] = s[i]
    OBVIOUS
  <2>3. l[Len(s) + 1] = x /\ r[Len(s) + 1] = x /\ l[Len(s) + 2] = y /\ r[Len(s) + 2] = y
    OBVIOUS
  <2> HIDE DEF l, r
  <2>4. \A i \in 1..(Len(s) + 2) : l[i] = r[i]
    BY <2>2, <2>3
  <2>5. l = r
    BY <2>1, <2>4
  <2> QED BY <2>5 DEF l, r
<1> QED BY <1>1, <1>2

\* CountDynamicInstructions inserts what Inserted says.
LEMMA CountingInserts ==
  ASSUME NEW p \in Programs, NEW f \in DOMAIN p, NEW b \in Blocks(p, f)
  PROVE  Counting(b) = Front(b.code) \o Inserted("count", b) \o <<Last(b.code)>>
<1> DEFINE u == RuntimeCall("update", Counts(b.code))
           r == RuntimeCall("print", Empty)
           a == Front(b.code)
           l == Last(b.code)
<1>1. a \in Seq(Entries(p, b)) /\ l \in Entries(p, b)
  BY BlockShape, FrontAndLast
<1>2. u \in Entries(p, b) /\ r \in Entries(p, b)
  <2>1. p \in Seq(Range(p))
    BY ProgramAssumption
  <2>2. 0 \in 0..Len(p)
    BY <2>1
  <2> QED BY <2>2 DEF RuntimeCall, Entries, RuntimeOps
<1>3. Counting(b) = a \o <<u>> \o (IF Returns(b) THEN <<r>> ELSE <<>>) \o <<l>>
  BY ReportIs DEF Counting
<1>4. Inserted("count", b) = IF Returns(b) THEN <<u, r>> ELSE <<u>>
  BY DEF Inserted
<1> HIDE DEF u, r, a, l
<1>5. a \o <<u>> \o <<r>> = a \o <<u, r>> /\ a \o <<u>> \o <<>> = a \o <<u>>
  BY <1>1, <1>2, Concats
<1> QED BY <1>3, <1>4, <1>5 DEF a, l

\* ProfilingBranchBias inserts what Inserted says.
LEMMA BiasingInserts ==
  ASSUME NEW p \in Programs, NEW f \in DOMAIN p, NEW b \in Blocks(p, f)
  PROVE  Biasing(b) = Front(b.code) \o Inserted("bias", b) \o <<Last(b.code)>>
<1> DEFINE c == b.code
           a == Front(c)
           l == Last(c)
           v == RuntimeCall("updateBranch", Empty)
           s == RuntimeCall("printBranch", Empty)
           E == Entries(p, b)
           Seen(i) == IF c[i].op = "br" /\ Len(b.succ) > 1 THEN <<v, c[i]>> ELSE <<c[i]>>
           seen == FlattenSeq([i \in DOMAIN c |-> Seen(i)])
           biased == l.op = "br" /\ Len(b.succ) > 1
           ones == [i \in DOMAIN a |-> <<a[i]>>]
<1>1. /\ c \in Seq(E) /\ c # <<>> /\ Len(c) \in Nat \ {0} /\ a \in Seq(E) /\ Len(a) = Len(c) - 1
      /\ l \in E /\ l = c[Len(c)] /\ l.op \in {"br", "ret"}
         /\ \A i \in 1..(Len(c) - 1) : a[i] = c[i]
      /\ \A i \in 1..Len(c) : c[i].op \in {"br", "ret"} <=> i = Len(c)
  BY BlockShape, FrontAndLast
<1>2. v \in E /\ s \in E
  <2>1. p \in Seq(Range(p))
    BY ProgramAssumption
  <2>2. 0 \in 0..Len(p)
    BY <2>1
  <2> QED BY <2>2 DEF RuntimeCall, Entries, RuntimeOps
<1>3. /\ Biasing(b) = Front(seen) \o (IF Returns(b) THEN <<s>> ELSE <<>>) \o <<Last(seen)>>
      /\ Inserted("bias", b) = IF Returns(b) THEN <<s>> ELSE IF Len(b.succ) > 1 THEN <<v>> ELSE <<>>
      /\ Returns(b) <=> l.op = "ret"
  BY ReportIs DEF Biasing, Inserted, Returns
<1>4. [i \in DOMAIN c |-> Seen(i)] = Append(ones, IF biased THEN <<v, l>> ELSE <<l>>)
  <2>1. DOMAIN c = 1..Len(c) /\ DOMAIN a = 1..(Len(c) - 1)
    BY <1>1
  <2>2. \A i \in 1..(Len(c) - 1) : Seen(i) = <<a[i]>>
    <3> TAKE i \in 1..(Len(c) - 1)
    <3>1. i \in 1..Len(c) /\ i # Len(c) /\ a[i] = c[i]
      BY <1>1
    <3>2. c[i].op # "br"
      BY <1>1, <3>1
    <3> QED BY <3>1, <3>2
  <2>3. Seen(Len(c)) = IF biased THEN <<v, l>> ELSE <<l>>
    BY <1>1
  <2> DEFINE x == IF biased THEN <<v, l>> ELSE <<l>>
             n == Len(c)
  <2>4. x \in Seq(E) /\ ones \in Seq(Seq(E)) /\ Len(ones) = n - 1
        /\ \A i \in 1..(n - 1) : ones[i] = <<a[i]>>
    <3>1. \A i \in 1..(n - 1) : <<a[i]>> \in Seq(E)
      BY <1>1
    <3>2. ones = [i \in 1..(n - 1) |-> <<a[i]>>]
      BY <2>1
    <3>3. n - 1 \in Nat
      BY <1>1
    <3>4. x \in Seq(E)
      BY <1>1, <1>2
    <3> HIDE DEF ones, E, a
    <3> QED BY <3>1, <3>2, <3>3, <3>4
  <2>5. n \in Nat \ {0} /\ DOMAIN c = 1..n
    BY <1>1, <2>1
  <2> HIDE DEF Seen, x, n, ones, a, c
  <2>6. Append(ones, x) = [i \in 1..n |-> IF i = n THEN x ELSE <<a[i]>>]
    <3>1. Len(ones) + 1 = n
      BY <2>4, <2>5
    <3>2. Append(ones, x) = [i \in 1..n |-> IF i = n THEN x ELSE ones[i]]
      BY <2>4, <3>1, AppendIs
    <3>3. \A i \in 1..n : (IF i = n THEN x ELSE ones[i]) = (IF i = n THEN x ELSE <<a[i]>>)
      <4>1. \A i \in 1..n : i # n => i \in 1..(n - 1)
        BY <2>5
      <4> QED BY <2>4, <4>1
    <3> QED BY <3>2, <3>3
  <2>7. [i \in 1..n |-> Seen(i)] = [i \in 1..n |-> IF i = n THEN x ELSE <<a[i]>>]
    <3>1. ASSUME NEW i \in 1..n PROVE Seen(i) = IF i = n THEN x ELSE <<a[i]>>
      <4>1. CASE i = n
        BY <2>3, <4>1 DEF x, n
      <4>2. CASE i # n
        <5>1. i \in 1..(n - 1)
          BY <2>5, <4>2
        <5> QED BY <2>2, <4>2, <5>1 DEF n
      <4> QED BY <4>1, <4>2
    <3> QED BY <3>1
  <2> QED BY <2>5, <2>6, <2>7 DEF x
<1>5. FlattenSeq(ones) = a /\ ones \in Seq(Seq(E))
  <2>1. FlattenSeq(ones) = a
    BY <1>1, FlattenOnes
  <2>2. \A i \in DOMAIN a : <<a[i]>> \in Seq(E)
    BY <1>1
  <2>3. DOMAIN a = 1..Len(a) /\ Len(a) \in Nat
    BY <1>1
  <2> HIDE DEF a, E
  <2>4. ones \in Seq(Seq(E))
    BY <2>2, <2>3
  <2> QED BY <2>1, <2>4
<1>6. seen = a \o (IF biased THEN <<v, l>> ELSE <<l>>)
  <2> DEFINE x == IF biased THEN <<v, l>> ELSE <<l>>
  <2>1. x \in Seq(E)
    BY <1>1, <1>2
  <2> HIDE DEF x, ones, Seen, E
  <2>2. FlattenSeq(Append(ones, x)) = FlattenSeq(ones) \o x
    BY <1>5, <2>1, FlattenAppend
  <2>3. [i \in DOMAIN c |-> Seen(i)] = Append(ones, x)
    BY <1>4 DEF x
  <2>4. seen = a \o x
    BY <1>5, <2>2, <2>3
  <2> QED BY <2>4 DEF x
<1> HIDE DEF seen, a, l, v, s, E, ones, Seen
<1>7. CASE biased
  <2>1. Append(a, v) \in Seq(E) /\ a \o <<v>> = Append(a, v) /\ seen = Append(Append(a, v), l)
    <3>0. a \in Seq(E) /\ v \in E /\ l \in E
      BY <1>1, <1>2
    <3>1. a \o <<v, l>> = (a \o <<v>>) \o <<l>> /\ a \o <<v>> = Append(a, v)
          /\ Append(a, v) \in Seq(E)
      BY <3>0, Concats
    <3>2. Append(a, v) \o <<l>> = Append(Append(a, v), l)
      BY <1>1, <3>1, Concats
    <3> QED BY <1>6, <1>7, <3>1, <3>2
  <2>2. Front(seen) = a \o <<v>> /\ Last(seen) = l
    <3>1. Front(Append(Append(a, v), l)) = Append(a, v) /\ Last(Append(Append(a, v), l)) = l
      BY <1>1, <2>1, AppendFront
    <3> QED BY <2>1, <3>1
  <2>3. ~Returns(b) /\ Len(b.succ) > 1
    BY <1>3, <1>7
  <2>4. (a \o <<v>>) \o <<>> = a \o <<v>>
    BY <1>1, <2>1, Concats
  <2> QED BY <1>3, <2>2, <2>3, <2>4 DEF a, l
<1>8. CASE ~biased
  <2>1. seen = Append(a, l)
    BY <1>1, <1>6, <1>8, Concats
  <2>2. Front(seen) = a /\ Last(seen) = l
    <3>1. Front(Append(a, l)) = a /\ Last(Append(a, l)) = l
      BY <1>1, AppendFront
    <3> QED BY <2>1, <3>1
  <2>3. ~Returns(b) => ~(Len(b.succ) > 1)
    BY <1>1, <1>3, <1>8
  <2> QED BY <1>3, <2>2, <2>3 DEF a, l
<1> QED BY <1>7, <1>8

\* Where the instructions of a block are after it is instrumented.
LEMMA Laid ==
  ASSUME NEW p \in Programs, NEW f \in DOMAIN p, NEW b \in Blocks(p, f), NEW t \in {"count", "bias"}
  PROVE  LET k == Instrumented(t, b)
             m == Inserted(t, b)
             n == Len(b.code)
         IN  /\ k \in Seq(Entries(p, b)) /\ Len(k) = n + Len(m)
             /\ \A i \in 1..(n - 1) : k[i] = b.code[i]
             /\ \A i \in 1..Len(m) : k[n - 1 + i] = m[i]
             /\ k[n + Len(m)] = b.code[n]
<1> DEFINE k == Instrumented(t, b)
           m == Inserted(t, b)
           c == b.code
           a == Front(c)
           l == Last(c)
           E == Entries(p, b)
<1>1. k = a \o m \o <<l>>
  BY CountingInserts, BiasingInserts DEF Instrumented
<1>2. m \in Seq(E) /\ Len(m) \in Nat
  BY InsertedShape
<1>3. /\ a \in Seq(E) /\ Len(a) = Len(c) - 1 /\ l \in E /\ l = c[Len(c)]
      /\ Len(c) \in Nat \ {0} /\ \A i \in 1..(Len(c) - 1) : a[i] = c[i]
  BY BlockShape, FrontAndLast
<1> HIDE DEF k, m, c, a, l, E
<1>4. /\ a \o m \in Seq(E) /\ Len(a \o m) = Len(a) + Len(m)
      /\ \A i \in 1..Len(a) : (a \o m)[i] = a[i]
      /\ \A i \in 1..Len(m) : (a \o m)[Len(a) + i] = m[i]
  <2>1. a \in Seq(E) /\ m \in Seq(E)
    BY <1>2, <1>3
  <2> QED BY <2>1, ConcatPlaces
<1> DEFINE x == a \o m
<1> HIDE DEF x
<1>5. /\ x \o <<l>> \in Seq(E) /\ Len(x \o <<l>>) = Len(x) + 1
      /\ \A i \in 1..Len(x) : (x \o <<l>>)[i] = x[i]
      /\ (x \o <<l>>)[Len(x) + 1] = l
  <2>1. x \in Seq(E)
    BY <1>4 DEF x
  <2> QED BY <1>3, <2>1
<1>6. Len(x) = Len(c) - 1 + Len(m) /\ k = x \o <<l>>
  BY <1>1, <1>3, <1>4 DEF x
<1>7. k \in Seq(E) /\ Len(k) = Len(c) + Len(m) /\ k[Len(c) + Len(m)] = c[Len(c)]
  BY <1>2, <1>3, <1>5, <1>6
<1>8. ASSUME NEW i \in 1..(Len(c) - 1) PROVE k[i] = c[i]
  <2>1. i \in 1..Len(a) /\ i \in 1..Len(x)
    BY <1>2, <1>3, <1>6
  <2> QED BY <1>3, <1>4, <1>5, <1>6, <2>1 DEF x
<1>9. ASSUME NEW i \in 1..Len(m) PROVE k[Len(c) - 1 + i] = m[i]
  <2>1. Len(a) + i \in 1..Len(x) /\ Len(a) + i = Len(c) - 1 + i
    BY <1>2, <1>3, <1>6
  <2> QED BY <1>4, <1>5, <1>6, <2>1 DEF x
<1> QED BY <1>7, <1>8, <1>9 DEF k, m, c, E

\* The calls that are inserted, one by one.
LEMMA InsertedPlaces ==
  ASSUME NEW t \in {"count", "bias"}, NEW b
  PROVE  /\ t = "count" /\ Returns(b) =>
              /\ Len(Inserted(t, b)) = 2
                 /\ Inserted(t, b)[1] = RuntimeCall("update", Counts(b.code))
              /\ Inserted(t, b)[2].op = "print"
         /\ t = "count" /\ ~Returns(b) =>
              Len(Inserted(t, b)) = 1 /\ Inserted(t, b)[1] = RuntimeCall("update", Counts(b.code))
         /\ t = "bias" /\ Returns(b) =>
              Len(Inserted(t, b)) = 1 /\ Inserted(t, b)[1].op = "printBranch"
         /\ t = "bias" /\ ~Returns(b) /\ Len(b.succ) > 1 =>
              Len(Inserted(t, b)) = 1 /\ Inserted(t, b)[1].op = "updateBranch"
         /\ t = "bias" /\ ~Returns(b) /\ ~(Len(b.succ) > 1) => Len(Inserted(t, b)) = 0
<1>1. /\ t = "count" /\ Returns(b) =>
           Inserted(t, b) = <<RuntimeCall("update", Counts(b.code)), RuntimeCall("print", Empty)>>
      /\ t = "count" /\ ~Returns(b) => Inserted(t, b) = <<RuntimeCall("update", Counts(b.code))>>
      /\ t = "bias" /\ Returns(b) => Inserted(t, b) = <<RuntimeCall("printBranch", Empty)>>
      /\ t = "bias" /\ ~Returns(b) /\ Len(b.succ) > 1 =>
           Inserted(t, b) = <<RuntimeCall("updateBranch", Empty)>>
      /\ t = "bias" /\ ~Returns(b) /\ ~(Len(b.succ) > 1) => Inserted(t, b) = <<>>
  BY DEF Inserted
<1>2. \A op, n : RuntimeCall(op, n).op = op
  BY DEF RuntimeCall
<1> QED BY <1>1, <1>2

Reporting(t) == IF t = "count" THEN "print" ELSE "printBranch"

\* An instrumented block ends as the block did, after the report if it returns.
LEMMA InstrumentedEnds ==
  ASSUME NEW p \in Programs, NEW f \in DOMAIN p, NEW b \in Blocks(p, f), NEW t \in {"count", "bias"}
  PROVE  LET k == Instrumented(t, b)
         IN  /\ Len(k) \in Nat \ {0} /\ DOMAIN k = 1..Len(k) /\ k[Len(k)] = Last(b.code)
             /\ \A i \in 1..Len(k) :
                  /\ k[i].op \in {"br", "ret"} <=> i = Len(k)
                  /\ k[i].op \in Ops \cup RuntimeOps /\ k[i].callee \in 0..Len(p)
             /\ Returns(b) => Len(k) > 1 /\ k[Len(k) - 1].op = Reporting(t)
<1> DEFINE k == Instrumented(t, b)
           m == Inserted(t, b)
           c == b.code
           n == Len(c)
<1>1. /\ k \in Seq(Entries(p, b)) /\ Len(k) = n + Len(m)
      /\ \A i \in 1..(n - 1) : k[i] = c[i]
      /\ \A i \in 1..Len(m) : k[n - 1 + i] = m[i]
      /\ k[n + Len(m)] = c[n]
  BY Laid
<1>2. /\ n \in Nat \ {0} /\ Last(c) = c[n] /\ Last(c).op \in {"br", "ret"}
      /\ \A i \in 1..n : c[i].op \in {"br", "ret"} <=> i = n
  BY BlockShape
<1>3. Len(m) \in Nat /\ \A i \in 1..Len(m) : m[i].op \in RuntimeOps
  BY InsertedShape
<1>4. Returns(b) => Len(m) > 0 /\ m[Len(m)].op = Reporting(t)
  BY InsertedPlaces DEF Reporting
<1> HIDE DEF k, m, c, n
<1>5. Len(k) \in Nat \ {0} /\ DOMAIN k = 1..Len(k) /\ k[Len(k)] = Last(c)
  BY <1>1, <1>2, <1>3
<1>6. ASSUME NEW i \in 1..Len(k) PROVE k[i].op \in {"br", "ret"} <=> i = Len(k)
  <2>1. CASE i = Len(k)
    BY <1>2, <1>5, <2>1
  <2>2. CASE i < n
    <3>1. i \in 1..(n - 1) /\ i \in 1..n /\ i # n /\ i # Len(k)
      BY <1>1, <1>2, <1>3, <2>2
    <3> QED BY <1>1, <1>2, <3>1
  <2>3. CASE i >= n /\ i < Len(k)
    <3>1. i - n + 1 \in 1..Len(m) /\ n - 1 + (i - n + 1) = i
      BY <1>1, <1>2, <1>3, <2>3
    <3>2. k[i].op \in RuntimeOps
      BY <1>1, <1>3, <3>1
    <3> QED BY <2>3, <3>2 DEF RuntimeOps
  <2>4. i < n \/ (i >= n /\ i < Len(k)) \/ i = Len(k)
    <3>1. i \in Int /\ n \in Int /\ Len(k) \in Int /\ i <= Len(k)
      BY <1>2, <1>5
    <3> QED BY <3>1
  <2> QED BY <2>1, <2>2, <2>3, <2>4
<1>7. \A i \in 1..Len(k) : k[i].op \in Ops \cup RuntimeOps /\ k[i].callee \in 0..Len(p)
  <2>1. \A i \in 1..Len(k) : k[i] \in Entries(p, b)
    BY <1>1
  <2>2. \A e \in Entries(p, b) : e.op \in Ops \cup RuntimeOps /\ e.callee \in 0..Len(p)
    BY DEF Entries
  <2> QED BY <2>1, <2>2
<1>8. Returns(b) => Len(k) > 1 /\ k[Len(k) - 1].op = Reporting(t)
  <2> SUFFICES ASSUME Returns(b) PROVE Len(k) > 1 /\ k[Len(k) - 1].op = Reporting(t)
    OBVIOUS
  <2>1. Len(m) \in 1..Len(m) /\ n - 1 + Len(m) = Len(k) - 1 /\ Len(k) > 1
    BY <1>1, <1>2, <1>3, <1>4
  <2> QED BY <1>1, <1>4, <2>1
<1> QED BY <1>5, <1>6, <1>7, <1>8 DEF k, c

\* The counts of a block are added at one place, before its last instruction.
LEMMA CountsOnce ==
  ASSUME NEW p \in Programs, NEW f \in DOMAIN p, NEW b \in Blocks(p, f), NEW t \in {"count", "bias"}
  PROVE  LET k == Instrumented(t, b)
             n == Len(b.code)
         IN  /\ t = "count" => /\ n \in 1..Len(k) /\ n < Len(k) /\ k[n].counts = Counts(b.code)
                               /\ \A i \in 1..Len(k) : k[i].op = "update" <=> i = n
             /\ t = "bias" => \A i \in 1..Len(k) : k[i].op # "update"
<1> DEFINE k == Instrumented(t, b)
           m == Inserted(t, b)
           c == b.code
           n == Len(c)
<1>1. /\ k \in Seq(Entries(p, b)) /\ Len(k) = n + Len(m)
      /\ \A i \in 1..(n - 1) : k[i] = c[i]
      /\ \A i \in 1..Len(m) : k[n - 1 + i] = m[i]
      /\ k[n + Len(m)] = c[n]
  BY Laid
<1>2. n \in Nat \ {0} /\ \A i \in 1..n : c[i].op # "update"
  BY BlockShape DEF RuntimeOps
<1>3. /\ Len(m) \in {0, 1, 2}
      /\ t = "count" => /\ Len(m) > 0 /\ m[1].op = "update" /\ m[1].counts = Counts(c)
                        /\ Len(m) = 2 => m[2].op # "update"
      /\ t = "bias" => \A i \in 1..Len(m) : m[i].op # "update"
  <2>1. \A x : RuntimeCall("update", x).op = "update" /\ RuntimeCall("update", x).counts = x
    BY DEF RuntimeCall
  <2> QED BY <2>1, InsertedPlaces
<1> HIDE DEF k, m, n
<1>4. ASSUME NEW i \in 1..Len(k), i # n PROVE k[i].op # "update"
  <2>1. CASE i < n
    <3>1. i \in 1..(n - 1) /\ i \in 1..n
      BY <1>1, <1>2, <1>3, <2>1
    <3> QED BY <1>1, <1>2, <3>1
  <2>2. CASE i = Len(k)
    <3>1. k[i] = c[n] /\ n \in 1..n
      BY <1>1, <1>2, <2>2
    <3> QED BY <1>2, <3>1
  <2>3. CASE i > n /\ i < Len(k)
    <3>1. Len(m) = 2 /\ i = n + 1 /\ 2 \in 1..Len(m) /\ n - 1 + 2 = i
      BY <1>1, <1>2, <1>3, <2>3
    <3>2. k[i] = m[2]
      BY <1>1, <3>1
    <3> QED BY <1>3, <3>1, <3>2
  <2>4. i < n \/ i = Len(k) \/ (i > n /\ i < Len(k))
    <3>1. i \in Int /\ n \in Int /\ Len(k) \in Int /\ i <= Len(k) /\ i # n
      BY <1>2, <1>4
    <3> QED BY <3>1
  <2> QED BY <2>1, <2>2, <2>3, <2>4
<1>5. CASE t = "count"
  <2>1. n \in 1..Len(k) /\ n < Len(k) /\ 1 \in 1..Len(m) /\ n - 1 + 1 = n
    BY <1>1, <1>2, <1>3, <1>5
  <2>2. k[n] = m[1]
    BY <1>1, <2>1
  <2> QED BY <1>3, <1>4, <1>5, <2>1, <2>2 DEF k, n, c
<1>6. CASE t = "bias"
  <2>1. ASSUME n \in 1..Len(k) PROVE k[n].op # "update"
    <3>1. CASE Len(m) = 0
      <4>1. k[n] = c[n] /\ n \in 1..n
        BY <1>1, <1>2, <3>1
      <4> QED BY <1>2, <4>1
    <3>2. CASE Len(m) # 0
      <4>1. 1 \in 1..Len(m) /\ n - 1 + 1 = n
        BY <1>2, <1>3, <3>2
      <4> QED BY <1>1, <1>3, <1>6, <4>1
    <3> QED BY <3>1, <3>2
  <2> QED BY <1>4, <1>6, <2>1 DEF k, n, c
<1> QED BY <1>5, <1>6

\* The condition is reported right before each branch with two successors.
LEMMA BranchesReported ==
  ASSUME NEW p \in Programs, NEW f \in DOMAIN p, NEW b \in Blocks(p, f)
  PROVE  LET k == Instrumented("bias", b)
         IN  \A i \in 1..Len(k) :
               (i > 1 /\ k[i - 1].op = "updateBranch") <=> (k[i].op = "br" /\ Len(b.succ) > 1)
<1> DEFINE k == Instrumented("bias", b)
           m == Inserted("bias", b)
           c == b.code
           n == Len(c)
<1>1. /\ k \in Seq(Entries(p, b)) /\ Len(k) = n + Len(m)
      /\ \A i \in 1..(n - 1) : k[i] = c[i]
      /\ \A i \in 1..Len(m) : k[n - 1 + i] = m[i]
      /\ k[n + Len(m)] = c[n]
  BY Laid
<1>2. /\ n \in Nat \ {0} /\ c[n].op \in {"br", "ret"} /\ (c[n].op = "ret" <=> Returns(b))
      /\ \A i \in 1..n : c[i].op # "updateBranch"
  BY BlockShape DEF RuntimeOps, Returns
<1>3. /\ Len(m) \in {0, 1}
      /\ Len(m) = 1 => m[1].op = IF Returns(b) THEN "printBranch" ELSE "updateBranch"
      /\ ~Returns(b) /\ Len(b.succ) > 1 => Len(m) = 1
      /\ ~Returns(b) /\ ~(Len(b.succ) > 1) => Len(m) = 0
  BY InsertedPlaces
<1>4. k[Len(k)] = Last(c) /\ \A i \in 1..Len(k) : k[i].op = "br" => i = Len(k)
  BY InstrumentedEnds
<1> HIDE DEF k, m, n
<1>5. ASSUME NEW i \in 1..Len(k), k[i].op = "br", Len(b.succ) > 1
      PROVE  i > 1 /\ k[i - 1].op = "updateBranch"
  <2>1. i = n + Len(m) /\ k[i] = c[n]
    BY <1>1, <1>4, <1>5
  <2>2. ~Returns(b) /\ Len(m) = 1
    BY <1>2, <1>3, <1>5, <2>1
  <2>3. i > 1 /\ i - 1 = n - 1 + 1 /\ 1 \in 1..Len(m)
    BY <1>2, <2>1, <2>2
  <2>4. k[i - 1] = m[1]
    BY <1>1, <2>3
  <2> QED BY <1>3, <2>2, <2>3, <2>4
<1>6. ASSUME NEW i \in 1..Len(k), i > 1, k[i - 1].op = "updateBranch"
      PROVE  k[i].op = "br" /\ Len(b.succ) > 1
  <2>1. i \in Int /\ i - 1 \in Nat /\ i - 1 < n + Len(m) /\ i - 1 > 0
    BY <1>1, <1>6
  <2>2. ~(i - 1 < n)
    <3> SUFFICES ASSUME i - 1 < n PROVE FALSE
      OBVIOUS
    <3> DEFINE h == i - 1
    <3>1. h \in 1..(n - 1) /\ h \in 1..n /\ k[h].op = "updateBranch"
      BY <1>2, <1>6, <2>1
    <3> HIDE DEF h
    <3>2. k[h] = c[h] /\ c[h].op # "updateBranch"
      BY <1>1, <1>2, <3>1
    <3> QED BY <3>1, <3>2
  <2>3. Len(m) = 1 /\ i - 1 = n - 1 + 1 /\ 1 \in 1..Len(m) /\ i = n + Len(m)
    <3>1. n \in Int /\ Len(m) \in {0, 1} /\ ~(i - 1 < n) /\ i - 1 < n + Len(m) /\ i \in Int
      BY <1>2, <1>3, <2>1, <2>2
    <3>2. Len(m) = 1
      BY <3>1
    <3> QED BY <3>1, <3>2
  <2>4. k[i - 1] = m[1] /\ k[i] = c[n]
    BY <1>1, <2>3
  <2> QED BY <1>2, <1>3, <1>6, <2>3, <2>4
<1> QED BY <1>5, <1>6 DEF k

\* What is inserted has none of the program's opcodes.
LEMMA SameNumber ==
  ASSUME NEW p \in Programs, NEW f \in DOMAIN p, NEW b \in Blocks(p, f),
         NEW t \in {"count", "bias"},
         NEW op \in Ops
  PROVE  LET k == Instrumented(t, b) IN Number(k, 1, Len(k), op) = Times(op, b.code)
<1> DEFINE k == Instrumented(t, b)
           m == Inserted(t, b)
           c == b.code
           n == Len(c)
<1>1. /\ k \in Seq(Entries(p, b)) /\ Len(k) = n + Len(m)
      /\ \A i \in 1..(n - 1) : k[i] = c[i]
      /\ \A i \in 1..Len(m) : k[n - 1 + i] = m[i]
      /\ k[n + Len(m)] = c[n]
  BY Laid
<1>2. n \in Nat \ {0} /\ c \in Seq(Entries(p, b))
  BY BlockShape
<1>3. Len(m) \in Nat /\ \A i \in 1..Len(m) : m[i].op # op
  <2>1. op \notin RuntimeOps
    BY ProgramAssumption
  <2> QED BY <2>1, InsertedShape
<1> HIDE DEF k, m, n, c
<1> DEFINE z == Len(k)
<1>4. z \in Nat /\ z = n + Len(m) /\ k[z] = c[n]
  BY <1>1, <1>2, <1>3
<1> HIDE DEF z
<1>5. /\ Number(k, 1, z, op) = Number(k, 1, z - 1, op) + Number(k, z, z, op)
      /\ Number(k, 1, z - 1, op) = Number(k, 1, n - 1, op) + Number(k, n, z - 1, op)
      /\ Number(c, 1, n, op) = Number(c, 1, n - 1, op) + Number(c, n, n, op)
  <2> DEFINE y == z - 1
             x == n - 1
  <2>1. /\ z \in Int /\ y \in Int /\ z = y + 1 /\ 1 <= z /\ y <= z /\ 1 \in Int
        /\ n \in Int /\ x \in Int /\ n = x + 1 /\ 1 <= n /\ x <= y /\ x <= n
    BY <1>2, <1>3, <1>4
  <2> HIDE DEF x, y
  <2>2. Number(k, 1, z, op) = Number(k, 1, y, op) + Number(k, z, z, op)
    BY <2>1, FirstSplits
  <2>3. Number(k, 1, y, op) = Number(k, 1, x, op) + Number(k, n, y, op)
    BY <2>1, FirstSplits
  <2>4. Number(c, 1, n, op) = Number(c, 1, x, op) + Number(c, n, n, op)
    BY <2>1, FirstSplits
  <2> QED BY <2>2, <2>3, <2>4 DEF x, y
<1>6. Number(k, n, z - 1, op) = 0
  <2>1. \A i \in n..(z - 1) : k[i].op # op
    <3> TAKE i \in n..(z - 1)
    <3> DEFINE h == i - n + 1
    <3>1. h \in 1..Len(m) /\ n - 1 + h = i
      BY <1>2, <1>3, <1>4
    <3> HIDE DEF h
    <3>2. k[i] = m[h]
      BY <1>1, <3>1
    <3> QED BY <1>3, <3>1, <3>2
  <2> QED BY <2>1, NumberNone
<1>7. Number(k, 1, n - 1, op) = Number(c, 1, n - 1, op)
  <2>1. \A i \in 1..(n - 1) : k[i].op = c[i].op
    BY <1>1
  <2> QED BY <2>1, NumberSame
<1>8. Number(k, z, z, op) = Number(c, n, n, op)
  <2>1. z \in Int /\ n \in Int
    BY <1>2, <1>4
  <2> QED BY <1>4, <2>1, NumberAtOne
<1>9. Number(k, 1, n - 1, op) \in Nat
  <2>1. n - 1 \in Int /\ 1 \in Int
    BY <1>2
  <2> QED BY <2>1, NumberType
<1>10. Number(c, 1, n, op) = Times(op, c)
  <2>1. DOMAIN c = 1..n
    BY <1>2 DEF n
  <2> QED BY <2>1 DEF Number, Places, Times
<1>11. Number(k, 1, z, op) = Times(op, c)
  BY <1>5, <1>6, <1>7, <1>8, <1>9, <1>10
<1> QED BY <1>11 DEF k, c, z

\* A call of the runtime is not of the program, and every other instruction is.
LEMMA OwnAppend ==
  ASSUME NEW E, NEW s \in Seq(E), NEW e \in E
  PROVE  /\ Own(s) \in Seq(E)
         /\ Own(Append(s, e)) = IF e.op \in RuntimeOps THEN Own(s) ELSE Append(Own(s), e)
<1> DEFINE P(x) == IF x.op \in RuntimeOps THEN <<>> ELSE <<x>>
           Parts(t) == [i \in DOMAIN t |-> P(t[i])]
           n == Len(s)
           d == Append(s, e)
<1>1. /\ n \in Nat /\ DOMAIN s = 1..n /\ DOMAIN d = 1..(n + 1)
      /\ d[n + 1] = e /\ \A i \in 1..n : d[i] = s[i]
  OBVIOUS
<1>2. \A t : Own(t) = FlattenSeq(Parts(t))
  BY DEF Own
<1>3. \A x \in E : P(x) \in Seq(E)
  OBVIOUS
<1>4. P(e) = IF e.op \in RuntimeOps THEN <<>> ELSE <<e>>
  OBVIOUS
<1> HIDE DEF P, n, d
<1>5. Parts(s) \in Seq(Seq(E)) /\ Len(Parts(s)) = n
  <2>1. \A i \in 1..n : s[i] \in E
    BY DEF n
  <2> QED BY <1>1, <1>3, <2>1
<1>6. Parts(d) = Append(Parts(s), P(e))
  <2>1. Parts(d) = [i \in 1..(n + 1) |-> IF i = n + 1 THEN P(e) ELSE Parts(s)[i]]
    <3>1. \A i \in 1..(n + 1) : i # n + 1 => i \in 1..n
      BY <1>1
    <3> QED BY <1>1, <3>1
  <2>2. P(e) \in Seq(E)
    BY <1>3
  <2> HIDE DEF Parts
  <2>3. Append(Parts(s), P(e)) =
          [i \in 1..(Len(Parts(s)) + 1) |-> IF i = Len(Parts(s)) + 1 THEN P(e) ELSE Parts(s)[i]]
    BY <1>5, <2>2, AppendIs
  <2> QED BY <1>5, <2>1, <2>3
<1>7. P(e) \in Seq(E)
  BY <1>3
<1> HIDE DEF Parts
<1>8. Own(s) \in Seq(E) /\ Own(d) = Own(s) \o P(e)
  BY <1>2, <1>5, <1>6, <1>7, FlattenAppend
<1>9. Own(s) \o <<>> = Own(s) /\ Own(s) \o <<e>> = Append(Own(s), e)
  BY <1>8, Concats
<1> QED BY <1>4, <1>8, <1>9 DEF d

\* Instructions without calls of the runtime are those of the program.
LEMMA OwnSame ==
  ASSUME NEW E, NEW s \in Seq(E), \A i \in 1..Len(s) : s[i].op \notin RuntimeOps
  PROVE  Own(s) = s
<1>1. DOMAIN s = 1..Len(s)
  OBVIOUS
<1>2. [i \in DOMAIN s |-> IF s[i].op \in RuntimeOps THEN <<>> ELSE <<s[i]>>]
      = [i \in DOMAIN s |-> <<s[i]>>]
  BY <1>1
<1>3. Own(s) = FlattenSeq([i \in DOMAIN s |-> <<s[i]>>])
  BY <1>2 DEF Own
<1> QED BY <1>3, FlattenOnes

\* Without the calls that are inserted a block is what it was.
LEMMA OwnInstrumented ==
  ASSUME NEW p \in Programs, NEW f \in DOMAIN p, NEW b \in Blocks(p, f), NEW t \in {"count", "bias"}
  PROVE  Own(Instrumented(t, b)) = b.code
<1> DEFINE m == Inserted(t, b)
           c == b.code
           a == Front(c)
           l == Last(c)
           E == Entries(p, b)
<1>1. Instrumented(t, b) = a \o m \o <<l>>
  BY CountingInserts, BiasingInserts DEF Instrumented
<1>2. m \in Seq(E) /\ \A i \in 1..Len(m) : m[i].op \in RuntimeOps
  BY InsertedShape
<1>3. m = <<>> \/ (\E x : m = <<x>>) \/ (\E x, y : m = <<x, y>>)
  BY DEF Inserted
<1>4. /\ a \in Seq(E) /\ l \in E /\ c = Append(a, l) /\ Len(a) = Len(c) - 1 /\ Len(c) \in Nat \ {0}
      /\ \A i \in 1..(Len(c) - 1) : a[i] = c[i]
  BY BlockShape, FrontAndLast
<1>5. l.op \notin RuntimeOps /\ \A i \in 1..Len(c) : c[i].op \notin RuntimeOps
  BY BlockShape DEF RuntimeOps
<1> HIDE DEF m, c, a, l, E
<1>6. Own(a) = a
  <2>1. \A i \in 1..Len(a) : a[i].op \notin RuntimeOps
    BY <1>4, <1>5
  <2> QED BY <1>4, <2>1, OwnSame
<1>7. a \o m \in Seq(E) /\ Own(a \o m) = a
  <2>1. CASE m = <<>>
    <3>1. a \o <<>> = a
      BY <1>4, Concats
    <3> QED BY <1>4, <1>6, <2>1, <3>1
  <2>2. ASSUME NEW x, m = <<x>> PROVE a \o m \in Seq(E) /\ Own(a \o m) = a
    <3>1. x \in E /\ x.op \in RuntimeOps
      BY <1>2, <2>2
    <3>2. a \o <<x>> = Append(a, x) /\ Append(a, x) \in Seq(E)
      BY <1>4, <3>1, Concats
    <3>3. Own(Append(a, x)) = Own(a)
      BY <1>4, <3>1, OwnAppend
    <3> QED BY <1>6, <2>2, <3>2, <3>3
  <2>3. ASSUME NEW x, NEW y, m = <<x, y>> PROVE a \o m \in Seq(E) /\ Own(a \o m) = a
    <3> DEFINE d == Append(a, x)
    <3>1. Len(m) = 2 /\ m[1] = x /\ m[2] = y
      BY <2>3
    <3>2. x \in E /\ y \in E /\ x.op \in RuntimeOps /\ y.op \in RuntimeOps /\ m = <<x, y>>
      BY <1>2, <2>3, <3>1
    <3> HIDE DEF d
    <3>3. a \o <<x>> = d /\ d \in Seq(E) /\ (a \o <<x>>) \o <<y>> = a \o <<x, y>>
      <4>1. a \o <<x>> = Append(a, x) /\ Append(a, x) \in Seq(E)
        BY <1>4, <3>2, Concats
      <4>2. (a \o <<x>>) \o <<y>> = a \o <<x, y>>
        <5>1. a \in Seq(E) /\ x \in E /\ y \in E
          BY <1>4, <3>2
        <5> QED BY <5>1, Concats
      <4> QED BY <4>1, <4>2 DEF d
    <3>4. d \o <<y>> = Append(d, y) /\ Append(d, y) \in Seq(E)
      BY <3>2, <3>3, Concats
    <3>5. Own(Append(d, y)) = Own(d) /\ Own(d) = Own(a)
      <4>1. Own(Append(d, y)) = Own(d)
        BY <3>2, <3>3, OwnAppend
      <4>2. Own(d) = Own(a)
        BY <1>4, <3>2, OwnAppend DEF d
      <4> QED BY <4>1, <4>2
    <3> QED BY <1>6, <3>2, <3>3, <3>4, <3>5
  <2> QED BY <1>3, <2>1, <2>2, <2>3
<1>8. Own((a \o m) \o <<l>>) = Append(a, l)
  <2> DEFINE d == a \o m
  <2>1. d \in Seq(E) /\ Own(d) = a
    BY <1>7
  <2> HIDE DEF d
  <2>2. d \o <<l>> = Append(d, l)
    BY <1>4, <2>1, Concats
  <2>3. Own(Append(d, l)) = Append(Own(d), l)
    BY <1>4, <1>5, <2>1, OwnAppend
  <2>4. Own(d \o <<l>>) = Append(a, l)
    BY <2>1, <2>2, <2>3
  <2> QED BY <2>4 DEF d
<1> QED BY <1>1, <1>4, <1>8 DEF c

-----------------------------------------------------------------------------
(* What an activation holds, and how it changes with each instruction.     *)

\* At a place of some code: its counts were added, what was executed and not
\* counted, and what was counted and not executed.
Added1(k, i) == \E j \in 1..(i - 1) : k[j].op = "update"
Pending(k, i, op) == IF Added1(k, i) THEN 0 ELSE Number(k, 1, i - 1, op)
Ahead(k, i, op) == IF Added1(k, i) THEN Number(k, i, Len(k), op) ELSE 0

\* These are numbers.
LEMMA PendingType ==
  ASSUME NEW k, NEW op, NEW i, i \in Int, Len(k) \in Nat
  PROVE  Pending(k, i, op) \in Nat /\ Ahead(k, i, op) \in Nat
<1>1. Number(k, i, Len(k), op) \in Nat
  BY NumberType
<1> DEFINE m == 1
           h == i - 1
<1>2. m \in Int /\ h \in Int
  OBVIOUS
<1> HIDE DEF m, h
<1>3. Number(k, m, h, op) \in Nat
  BY <1>2, NumberType
<1> QED BY <1>1, <1>3 DEF Pending, Ahead, m, h

\* An instruction that is executed is pending from then on, or was ahead before.
LEMMA PendingMoves ==
  ASSUME NEW k, NEW op, NEW i, Len(k) \in Nat, i \in 1..Len(k), k[i].op # "update"
  PROVE  \/ /\ Pending(k, i + 1, op) = Pending(k, i, op) + One(k[i], op)
            /\ Ahead(k, i + 1, op) = Ahead(k, i, op)
         \/ /\ Pending(k, i + 1, op) = Pending(k, i, op)
            /\ Ahead(k, i, op) = Ahead(k, i + 1, op) + One(k[i], op)
<1> DEFINE j == i + 1
           h == i - 1
<1>1. /\ i \in Int /\ j \in Int /\ h \in Int /\ j = i + 1 /\ i = h + 1 /\ 1 <= i /\ i <= Len(k)
      /\ h <= i /\ j - 1 = i /\ Len(k) \in Int
  OBVIOUS
<1>2. Added1(k, j) <=> Added1(k, i)
  <2>1. \A x : x \in 1..i <=> x \in 1..h \/ x = i
    BY <1>1
  <2>2. Added1(k, j) <=> \E x \in 1..i : k[x].op = "update"
    BY <1>1 DEF Added1
  <2>3. Added1(k, i) <=> \E x \in 1..h : k[x].op = "update"
    BY DEF Added1
  <2> HIDE DEF j, h
  <2> QED BY <2>1, <2>2, <2>3
<1> HIDE DEF j, h
<1>3. Number(k, i, i, op) = One(k[i], op)
  BY <1>1, NumberAtOne
<1>4. CASE Added1(k, i)
  <2>1. Number(k, i, Len(k), op) = Number(k, i, i, op) + Number(k, j, Len(k), op)
    <3> DEFINE z == Len(k)
    <3>1. i \in Int /\ z \in Int /\ j \in Int /\ j = i + 1 /\ i <= j /\ i <= z
      BY <1>1
    <3> HIDE DEF z
    <3>2. Number(k, i, z, op) = Number(k, i, i, op) + Number(k, j, z, op)
      BY <3>1, NumberSplits
    <3> QED BY <3>2 DEF z
  <2>2. One(k[i], op) \in Nat /\ Number(k, j, Len(k), op) \in Nat
    BY <1>1, NumberType DEF One
  <2>3. Ahead(k, i, op) = Ahead(k, j, op) + One(k[i], op)
    BY <1>2, <1>3, <1>4, <2>1, <2>2 DEF Ahead
  <2>4. Pending(k, j, op) = Pending(k, i, op)
    BY <1>2, <1>4 DEF Pending
  <2> QED BY <2>3, <2>4 DEF j
<1>5. CASE ~Added1(k, i)
  <2>1. Number(k, 1, i, op) = Number(k, 1, h, op) + Number(k, i, i, op)
    <3>1. i \in Int /\ h \in Int /\ i = h + 1 /\ 1 <= i /\ h <= i
      BY <1>1
    <3> QED BY <3>1, FirstSplits
  <2>2. Pending(k, j, op) = Number(k, 1, j - 1, op) /\ Pending(k, i, op) = Number(k, 1, i - 1, op)
    BY <1>2, <1>5 DEF Pending
  <2>3. Pending(k, j, op) = Pending(k, i, op) + One(k[i], op)
    BY <1>1, <1>3, <2>1, <2>2 DEF h
  <2>4. Ahead(k, j, op) = Ahead(k, i, op)
    BY <1>2, <1>5 DEF Ahead
  <2> QED BY <2>3, <2>4 DEF j
<1> QED BY <1>4, <1>5

\* At the counts of a block, what was executed and what is ahead is all of it.
LEMMA PendingCounted ==
  ASSUME NEW p \in Programs, NEW f \in DOMAIN p, NEW b \in Blocks(p, f), NEW op \in Ops,
         NEW k, NEW i,
         k = Instrumented("count", b), i \in 1..Len(k), k[i].op = "update"
  PROVE  /\ k[i].counts = Counts(b.code)
         /\ Pending(k, i + 1, op) = 0 /\ Ahead(k, i, op) = 0
         /\ Pending(k, i, op) + Ahead(k, i + 1, op) = Times(op, b.code)
<1> DEFINE j == i + 1
           h == i - 1
<1>1. Len(k) \in Nat
  BY InstrumentedEnds
<1>2. /\ k[i].counts = Counts(b.code) /\ \A x \in 1..Len(k) : k[x].op = "update" <=> x = i
  BY CountsOnce
<1>3. /\ i \in Int /\ j \in Int /\ h \in Int /\ j = i + 1 /\ i = h + 1 /\ 1 <= i /\ i <= Len(k)
      /\ h <= i /\ j - 1 = i /\ Len(k) \in Int /\ 1 <= j
  BY <1>1
<1>4. Added1(k, j) /\ ~Added1(k, i)
  <2>1. Added1(k, j)
    <3>1. i \in 1..(j - 1)
      BY <1>3
    <3> HIDE DEF j
    <3> QED BY <3>1 DEF Added1
  <2>2. ASSUME NEW x \in 1..(i - 1) PROVE x \in 1..Len(k) /\ x # i
    BY <1>3
  <2> QED BY <1>2, <2>1, <2>2 DEF Added1
<1> HIDE DEF j, h
<1>5. Number(k, 1, Len(k), op) = Times(op, b.code)
  BY SameNumber
<1>6. Number(k, 1, Len(k), op) = Number(k, 1, i, op) + Number(k, j, Len(k), op)
  <2> DEFINE z == Len(k)
  <2>1. z \in Int /\ i \in Int /\ j \in Int /\ j = i + 1 /\ 1 <= j /\ i <= z
    BY <1>3
  <2> HIDE DEF z
  <2>2. Number(k, 1, z, op) = Number(k, 1, i, op) + Number(k, j, z, op)
    BY <2>1, FirstSplits
  <2> QED BY <2>2 DEF z
<1>7. Number(k, 1, i, op) = Number(k, 1, h, op) + Number(k, i, i, op)
  <2>1. i \in Int /\ h \in Int /\ i = h + 1 /\ 1 <= i /\ h <= i
    BY <1>3
  <2> QED BY <2>1, FirstSplits
<1>8. Number(k, i, i, op) = 0
  <2>1. op # "update"
    BY ProgramAssumption DEF RuntimeOps
  <2> QED BY <1>3, <2>1, NumberAtOne DEF One
<1>9. Pending(k, i, op) = Number(k, 1, h, op) /\ Ahead(k, j, op) = Number(k, j, Len(k), op)
  BY <1>4 DEF Pending, Ahead, h
<1>10. Pending(k, i, op) \in Nat /\ Ahead(k, j, op) \in Nat
  BY <1>1, <1>3, PendingType
<1>11. Pending(k, i, op) + Ahead(k, j, op) = Times(op, b.code)
  BY <1>5, <1>6, <1>7, <1>8, <1>9, <1>10
<1>12. Pending(k, j, op) = 0 /\ Ahead(k, i, op) = 0
  BY <1>4 DEF Pending, Ahead
<1> QED BY <1>2, <1>11, <1>12 DEF j

\* A block begins with nothing to count, and its last instruction is counted.
LEMMA PendingEnds ==
  ASSUME NEW p \in Programs, NEW f \in DOMAIN p, NEW b \in Blocks(p, f), NEW op \in Ops, NEW k,
         k = Instrumented("count", b)
  PROVE  /\ Pending(k, 1, op) = 0 /\ Ahead(k, 1, op) = 0
         /\ Pending(k, Len(k), op) = 0 /\ Ahead(k, Len(k), op) = One(k[Len(k)], op)
<1> DEFINE n == Len(b.code)
<1>1. Len(k) \in Nat \ {0}
  BY InstrumentedEnds
<1>2. n \in 1..Len(k) /\ n < Len(k) /\ k[n].op = "update"
  BY CountsOnce
<1> HIDE DEF n
<1>3. Added1(k, Len(k))
  <2>1. n \in 1..(Len(k) - 1)
    BY <1>1, <1>2
  <2> QED BY <1>2, <2>1 DEF Added1
<1>4. Pending(k, Len(k), op) = 0 /\ Ahead(k, Len(k), op) = One(k[Len(k)], op)
  <2>1. Len(k) \in Int
    BY <1>1
  <2> QED BY <1>3, <2>1, NumberAtOne DEF Pending, Ahead
<1>5. 1..(1 - 1) = {}
  OBVIOUS
<1>6. ~Added1(k, 1) /\ Places(k, 1, 1 - 1, op) = {}
  BY <1>5 DEF Added1, Places
<1>7. Pending(k, 1, op) = 0 /\ Ahead(k, 1, op) = 0
  BY <1>6, FS_EmptySet DEF Pending, Ahead, Number
<1> QED BY <1>4, <1>7

-----------------------------------------------------------------------------
(* What the activations of a stack hold together.                          *)

Together(w, s) == SumOf([j \in DOMAIN s |-> w[s[j]]])

\* It changes by what the last activation gains or loses.
Changes(A, w, s, a) ==
  /\ Together(w, s) \in Nat
  /\ s = <<>> => Together(w, s) = 0
  /\ Append(s, a) \in Seq(A) /\ Together(w, Append(s, a)) = Together(w, s) + w[a]
  /\ s # <<>> =>
       /\ [s EXCEPT ![Len(s)] = a] \in Seq(A)
       /\ Together(w, [s EXCEPT ![Len(s)] = a]) + w[s[Len(s)]] = Together(w, s) + w[a]
       /\ Front(s) \in Seq(A) /\ Together(w, Front(s)) + w[s[Len(s)]] = Together(w, s)

\* Pushing, replacing or popping the last activation changes the sum by its own share.
LEMMA TogetherChanges ==
  ASSUME NEW A, NEW w \in [A -> Nat], NEW s \in Seq(A), NEW a \in A
  PROVE  Changes(A, w, s, a)
<1> DEFINE Of(t) == [j \in DOMAIN t |-> w[t[j]]]
<1>1. ASSUME NEW t \in Seq(A)
      PROVE  Of(t) \in Seq(Nat) /\ Len(Of(t)) = Len(t) /\ \A j \in 1..Len(t) : Of(t)[j] = w[t[j]]
  OBVIOUS
<1>2. \A t : Together(w, t) = SumOf(Of(t))
  BY DEF Together
<1>3. ASSUME NEW t \in Seq(A), NEW x \in A
      PROVE  /\ Append(t, x) \in Seq(A)
             /\ Together(w, Append(t, x)) = Together(w, t) + w[x]
  <2> DEFINE d == Append(t, x)
  <2>1. /\ d \in Seq(A) /\ Len(d) = Len(t) + 1 /\ d[Len(t) + 1] = x
        /\ \A j \in 1..Len(t) : d[j] = t[j]
    OBVIOUS
  <2>2. w[x] \in Nat
    OBVIOUS
  <2> HIDE DEF d, Of
  <2>3. /\ Of(d) \in Seq(Nat) /\ Len(Of(d)) = Len(d) /\ Of(t) \in Seq(Nat) /\ Len(Of(t)) = Len(t)
        /\ \A j \in 1..Len(d) : Of(d)[j] = w[d[j]]
        /\ \A j \in 1..Len(t) : Of(t)[j] = w[t[j]]
    BY <1>1, <2>1
  <2>4. Of(d) = Append(Of(t), w[x])
    <3>1. /\ Len(Of(d)) = Len(Of(t)) + 1 /\ Of(d)[Len(Of(t)) + 1] = w[x]
          /\ \A j \in 1..Len(Of(t)) : Of(d)[j] = Of(t)[j]
      <4>1. Len(t) \in Nat /\ Len(t) + 1 \in 1..Len(d) /\ \A j \in 1..Len(t) : j \in 1..Len(d)
        BY <2>1
      <4> QED BY <2>1, <2>3, <4>1
    <3> QED BY <2>2, <2>3, <3>1
  <2>5. SumOf(Append(Of(t), w[x])) = SumOf(Of(t)) + w[x]
    BY <2>2, <2>3, SumOfAppend
  <2>6. Together(w, d) = Together(w, t) + w[x]
    BY <1>2, <2>4, <2>5
  <2> QED BY <2>1, <2>6 DEF d
<1>4. Together(w, s) \in Nat
  BY <1>1, <1>2, SumOfAppend
<1>5. s = <<>> => Together(w, s) = 0
  <2>1. Of(<<>>) = <<>> /\ <<>> \in Seq(Nat) /\ 0 \in Nat
    OBVIOUS
  <2>2. SumOf(<<>>) = 0
    BY <2>1, SumOfAppend
  <2> QED BY <1>2, <2>1, <2>2
<1>6. ASSUME s # <<>>
      PROVE  /\ [s EXCEPT ![Len(s)] = a] \in Seq(A)
             /\ Together(w, [s EXCEPT ![Len(s)] = a]) + w[s[Len(s)]] = Together(w, s) + w[a]
             /\ Front(s) \in Seq(A) /\ Together(w, Front(s)) + w[s[Len(s)]] = Together(w, s)
  <2> DEFINE r == Front(s)
             l == Last(s)
             d == [s EXCEPT ![Len(s)] = a]
  <2>1. r \in Seq(A) /\ Len(r) = Len(s) - 1 /\ l \in A /\ s = Append(r, l)
        /\ \A i \in 1..(Len(s) - 1) : r[i] = s[i]
    BY <1>6, FrontAndLast
  <2>2. l = s[Len(s)] /\ Len(s) \in Nat \ {0}
    BY <1>6 DEF Last
  <2>3. d \in Seq(A) /\ d = Append(r, a)
    <3>1. d \in Seq(A) /\ Len(d) = Len(s) /\ d[Len(s)] = a /\ \A i \in 1..(Len(s) - 1) : d[i] = s[i]
      BY <2>2
    <3> HIDE DEF d, r, l
    <3>2. d = Append(r, a)
      BY <2>1, <2>2, <3>1
    <3> QED BY <3>1, <3>2
  <2> HIDE DEF r, l, d, Of
  <2>4. Together(w, s) = Together(w, r) + w[l] /\ Together(w, d) = Together(w, r) + w[a]
    BY <1>3, <2>1, <2>3
  <2>5. Together(w, r) \in Nat /\ w[l] \in Nat /\ w[a] \in Nat
    BY <1>1, <1>2, <2>1, SumOfAppend
  <2>6. Together(w, d) + w[l] = Together(w, s) + w[a] /\ Together(w, r) + w[l] = Together(w, s)
    BY <2>4, <2>5
  <2> QED BY <2>1, <2>2, <2>3, <2>6 DEF r, d
<1> QED BY <1>3, <1>4, <1>5, <1>6 DEF Changes

-----------------------------------------------------------------------------
(* The inductive invariant.                                                *)

\* The pass instrumented this block.
Passed(f, b) == pc # "pass" \/ f < pos.fn \/ (f = pos.fn /\ b < pos.block)

\* The code is the program's with the blocks instrumented that the pass went by.
CodeShape ==
  /\ DOMAIN code = DOMAIN program
  /\ \A f \in DOMAIN program :
       /\ DOMAIN code[f] = DOMAIN program[f]
       /\ \A b \in DOMAIN program[f] :
            code[f][b] = [code |-> IF Passed(f, b) THEN Instrumented(tool, program[f][b])
                                   ELSE program[f][b].code,
                          succ |-> program[f][b].succ]

\* The pass is at a block, and a program is run with one of the tools.
PlaceShape ==
  /\ program \in Programs
  /\ tool \in {"count", "bias"}
  /\ pc \in {"pass", "run", "returned", "exited"}
  /\ pos \in [fn : DOMAIN program, block : Nat]
  /\ pos.block \in DOMAIN program[pos.fn]

\* The activations that there may be in some code of a program.
Activations(p, c) ==
  {a \in [fn : DOMAIN p, block : Nat, i : Nat, cond : BOOLEAN] :
     a.block \in DOMAIN p[a.fn] /\ a.i \in 1..Len(c[a.fn][a.block].code)}

\* The opcode that an activation executed last.
Before(a) == CodeOf(a)[a.i - 1].op

\* The activations are in their blocks, and all but the last one are after a call.
StackShape ==
  /\ stack \in Seq(Activations(program, code))
  /\ stack = <<>> <=> pc \in {"pass", "returned"}
  /\ \A k \in 1..(Len(stack) - 1) : stack[k].i > 1 /\ Before(stack[k]) = "call"

\* The counters are numbers, and zero before the run.
CountersShape ==
  /\ instr_map \in [DOMAIN instr_map -> Nat] /\ DOMAIN instr_map \subseteq Ops
  /\ executed \in [Ops -> Nat] /\ printed \in [Ops -> Nat]
  /\ branch_count \in [taken : Nat, total : Nat]
  /\ printedBranch \in [taken : Nat, total : Nat]
  /\ branched \in [taken : Nat, total : Nat]

\* After a report the runtime has no counts, until more of them are made.
Reported ==
  /\ stack # <<>> /\ Active.i > 1 =>
       /\ Before(Active) = "print" => instr_map = Empty
       /\ Before(Active) = "printBranch" => branch_count = NoBranches
  /\ pc = "returned" => /\ tool = "count" => instr_map = Empty
                        /\ tool = "bias" => branch_count = NoBranches

\* Before the run nothing is counted.
Fresh ==
  pc = "pass" => /\ instr_map = Empty /\ executed = Zero /\ printed = Zero
                 /\ branch_count = NoBranches /\ printedBranch = NoBranches /\ branched = NoBranches

\* Together they are inductive.
IInv ==
  /\ PlaceShape /\ CodeShape /\ StackShape /\ CountersShape /\ Fresh /\ Reported
  /\ NothingLost /\ BranchesCounted

\* A program has its blocks.
LEMMA ProgramBlocks ==
  ASSUME NEW p \in Programs
  PROVE  /\ p \in Seq(Range(p)) /\ Len(p) \in Nat \ {0} /\ DOMAIN p = 1..Len(p)
         /\ \A f \in DOMAIN p :
              /\ p[f] \in Seq(Range(p[f])) /\ Len(p[f]) \in Nat \ {0} /\ DOMAIN p[f] = 1..Len(p[f])
              /\ \A b \in DOMAIN p[f] : p[f][b] \in Blocks(p, f)
<1>1. /\ p \in Seq(Range(p)) /\ p # <<>>
      /\ \A f \in DOMAIN p : p[f] \in Seq(Range(p[f])) /\ p[f] # <<>>
         /\ Range(p[f]) \subseteq Blocks(p, f)
  BY ProgramAssumption
<1>2. ASSUME NEW S, NEW s \in Seq(S), s # <<>> PROVE Len(s) \in Nat \ {0} /\ DOMAIN s = 1..Len(s)
  <2>1. Len(s) \in Nat \ {0}
    BY <1>2
  <2>2. DOMAIN s = 1..Len(s)
    OBVIOUS
  <2> QED BY <2>1, <2>2
<1>3. \A f \in DOMAIN p : \A b \in DOMAIN p[f] : p[f][b] \in Range(p[f])
  BY DEF Range
<1>4. ASSUME NEW f \in DOMAIN p
      PROVE  /\ p[f] \in Seq(Range(p[f])) /\ Len(p[f]) \in Nat \ {0} /\ DOMAIN p[f] = 1..Len(p[f])
             /\ \A b \in DOMAIN p[f] : p[f][b] \in Blocks(p, f)
  <2>1. p[f] \in Seq(Range(p[f])) /\ p[f] # <<>>
    BY <1>1
  <2>2. \A b \in DOMAIN p[f] : p[f][b] \in Blocks(p, f)
    BY <1>1, <1>3
  <2> QED BY <1>2, <2>1, <2>2
<1>5. Len(p) \in Nat \ {0} /\ DOMAIN p = 1..Len(p)
  BY <1>1, <1>2
<1> QED BY <1>1, <1>4, <1>5

-----------------------------------------------------------------------------
(* The activations of a program that runs.                                 *)

\* What an activation is in.
InBlock(a) == program[a.fn][a.block]

\* An activation is at an instruction of an instrumented block.
LEMMA AtPlace ==
  ASSUME PlaceShape, CodeShape, pc # "pass", NEW a \in Activations(program, code)
  PROVE  /\ program \in Programs /\ a.fn \in DOMAIN program /\ InBlock(a) \in Blocks(program, a.fn)
         /\ CodeOf(a) = Instrumented(tool, InBlock(a)) /\ code[a.fn][a.block].succ = InBlock(a).succ
         /\ a.i \in 1..Len(CodeOf(a)) /\ Len(CodeOf(a)) \in Nat \ {0} /\ a.i \in Nat
         /\ a.block \in DOMAIN program[a.fn] /\ a.cond \in BOOLEAN
<1>1. /\ a.fn \in DOMAIN program /\ a.block \in DOMAIN program[a.fn] /\ a.i \in Nat
      /\ a.i \in 1..Len(CodeOf(a)) /\ a.cond \in BOOLEAN
  BY DEF Activations, CodeOf
<1>2. program \in Programs /\ tool \in {"count", "bias"}
  BY DEF PlaceShape
<1>3. InBlock(a) \in Blocks(program, a.fn)
  BY <1>1, <1>2, ProgramBlocks DEF InBlock
<1>4. code[a.fn][a.block] = [code |-> Instrumented(tool, InBlock(a)), succ |-> InBlock(a).succ]
  BY <1>1 DEF CodeShape, Passed, InBlock
<1>5. CodeOf(a) = Instrumented(tool, InBlock(a)) /\ code[a.fn][a.block].succ = InBlock(a).succ
  BY <1>4 DEF CodeOf
<1>6. Len(CodeOf(a)) \in Nat \ {0}
  BY <1>1, <1>2, <1>3, <1>5, InstrumentedEnds
<1> QED BY <1>1, <1>2, <1>3, <1>5, <1>6

\* The last of the instructions there ends the block, and no other does.
LEMMA AtInstruction ==
  ASSUME PlaceShape, CodeShape, pc # "pass", NEW a \in Activations(program, code),
         NEW i \in 1..Len(CodeOf(a))
  PROVE  /\ CodeOf(a)[i].op \in {"br", "ret"} <=> i = Len(CodeOf(a))
         /\ CodeOf(a)[i].op \in Ops \cup RuntimeOps /\ CodeOf(a)[i].callee \in 0..Len(program)
BY AtPlace, InstrumentedEnds DEF PlaceShape

\* An activation goes on to the next instruction.
Advanced(a) == [a EXCEPT !.i = @ + 1]

\* It stays in its block, since a block ends in a terminator.
LEMMA AdvancedShape ==
  ASSUME PlaceShape, CodeShape, pc # "pass", NEW a \in Activations(program, code),
         a.i # Len(CodeOf(a))
  PROVE  /\ Advanced(a) \in Activations(program, code)
         /\ CodeOf(Advanced(a)) = CodeOf(a) /\ Advanced(a).i = a.i + 1 /\ Advanced(a).cond = a.cond
<1>1. a.i \in 1..Len(CodeOf(a)) /\ Len(CodeOf(a)) \in Nat \ {0}
  BY AtPlace
<1>2. a.i + 1 \in Nat /\ a.i + 1 \in 1..Len(CodeOf(a))
  BY <1>1
<1>3. a \in [fn : DOMAIN program, block : Nat, i : Nat, cond : BOOLEAN]
      /\ a.block \in DOMAIN program[a.fn]
  BY DEF Activations
<1> DEFINE d == Advanced(a)
<1>4. /\ d \in [fn : DOMAIN program, block : Nat, i : Nat, cond : BOOLEAN]
      /\ d.fn = a.fn /\ d.block = a.block /\ d.i = a.i + 1 /\ d.cond = a.cond
  BY <1>2, <1>3 DEF Advanced
<1> HIDE DEF d
<1>5. CodeOf(d) = CodeOf(a)
  BY <1>4 DEF CodeOf
<1>6. d \in Activations(program, code)
  BY <1>2, <1>3, <1>4 DEF Activations, CodeOf
<1> QED BY <1>4, <1>5, <1>6 DEF d

\* A block is entered at its first instruction.
LEMMA ActivationShape ==
  ASSUME PlaceShape, CodeShape, pc # "pass",
         NEW f, NEW b, NEW c, f \in DOMAIN program, b \in DOMAIN program[f], c \in BOOLEAN
  PROVE  Activation(f, b, c) \in Activations(program, code) /\ Activation(f, b, c).i = 1
<1> DEFINE d == Activation(f, b, c)
<1>1. d.fn = f /\ d.block = b /\ d.i = 1 /\ d.cond = c
  BY DEF Activation
<1>2. program \in Programs /\ tool \in {"count", "bias"}
  BY DEF PlaceShape
<1>3. program[f][b] \in Blocks(program, f) /\ b \in Nat
  BY <1>2, ProgramBlocks
<1>4. d \in [fn : DOMAIN program, block : Nat, i : Nat, cond : BOOLEAN]
  BY <1>3 DEF Activation
<1>5. code[f][b].code = Instrumented(tool, program[f][b])
  <2>1. code[f][b] = [code |-> Instrumented(tool, program[f][b]), succ |-> program[f][b].succ]
    BY DEF CodeShape, Passed
  <2> QED BY <2>1
<1>6. Len(code[f][b].code) \in Nat \ {0}
  BY <1>2, <1>3, <1>5, InstrumentedEnds
<1>7. 1 \in 1..Len(code[f][b].code)
  BY <1>6
<1> HIDE DEF d
<1>8. d \in Activations(program, code)
  BY <1>1, <1>4, <1>7 DEF Activations
<1> QED BY <1>1, <1>8 DEF d

\* What each activation holds: of an opcode, and of branches.
Pend(op) == [a \in Activations(program, code) |-> Pending(CodeOf(a), a.i, op)]
Lead(op) == [a \in Activations(program, code) |-> Ahead(CodeOf(a), a.i, op)]
Seen(a) == a.i > 1 /\ CodeOf(a)[a.i - 1].op = "updateBranch"
Bound == [a \in Activations(program, code) |-> IF Seen(a) THEN 1 ELSE 0]
BoundTaken == [a \in Activations(program, code) |-> IF Seen(a) /\ a.cond THEN 1 ELSE 0]

\* These are numbers.
LEMMA HoldsNumbers ==
  ASSUME PlaceShape, CodeShape, pc # "pass"
  PROVE  /\ Bound \in [Activations(program, code) -> Nat]
         /\ BoundTaken \in [Activations(program, code) -> Nat]
         /\ \A op : /\ Pend(op) \in [Activations(program, code) -> Nat]
                    /\ Lead(op) \in [Activations(program, code) -> Nat]
<1>1. ASSUME NEW a \in Activations(program, code), NEW op
      PROVE  Pending(CodeOf(a), a.i, op) \in Nat /\ Ahead(CodeOf(a), a.i, op) \in Nat
  <2>1. a.i \in Int /\ Len(CodeOf(a)) \in Nat
    BY AtPlace
  <2> QED BY <2>1, PendingType
<1>2. Bound \in [Activations(program, code) -> Nat]
      /\ BoundTaken \in [Activations(program, code) -> Nat]
  BY DEF Bound, BoundTaken
<1>3. ASSUME NEW op PROVE /\ Pend(op) \in [Activations(program, code) -> Nat]
                          /\ Lead(op) \in [Activations(program, code) -> Nat]
  BY <1>1 DEF Pend, Lead
<1> QED BY <1>2, <1>3

-----------------------------------------------------------------------------
(* The stack, and what is on it together, when the last activation goes on.*)

Forward == [stack EXCEPT ![Len(stack)].i = @ + 1]

\* A program that runs is at an instruction of the last activation.
LEMMA AtTop ==
  ASSUME PlaceShape, CodeShape, StackShape, pc = "run"
  PROVE  /\ stack \in Seq(Activations(program, code)) /\ stack # <<>>
         /\ Len(stack) \in Nat \ {0} /\ Len(stack) \in DOMAIN stack
         /\ Active = stack[Len(stack)] /\ Active \in Activations(program, code)
         /\ Instr = CodeOf(Active)[Active.i]
         /\ Instr.op \in {"br", "ret"} <=> Active.i = Len(CodeOf(Active))
         /\ Instr.op \in Ops \cup RuntimeOps /\ Instr.callee \in 0..Len(program)
<1>1. stack \in Seq(Activations(program, code)) /\ stack # <<>>
  BY DEF StackShape
<1>2. Len(stack) \in Nat \ {0}
  BY <1>1
<1>3. Len(stack) \in DOMAIN stack /\ stack[Len(stack)] \in Activations(program, code)
  BY <1>1, <1>2
<1>4. Active = stack[Len(stack)] /\ Instr = CodeOf(Active)[Active.i]
  BY DEF Active, Instr, CodeOf
<1>5. Active.i \in 1..Len(CodeOf(Active))
  BY <1>3, <1>4, AtPlace
<1>6. /\ Instr.op \in {"br", "ret"} <=> Active.i = Len(CodeOf(Active))
      /\ Instr.op \in Ops \cup RuntimeOps /\ Instr.callee \in 0..Len(program)
  BY <1>3, <1>4, <1>5, AtInstruction
<1> QED BY <1>1, <1>2, <1>3, <1>4, <1>6

\* The last activation advances, and the others stay where they are.
LEMMA ForwardShape ==
  ASSUME PlaceShape, CodeShape, StackShape, pc = "run", Instr.op \notin {"br", "ret"}
  PROVE  /\ Forward = [stack EXCEPT ![Len(stack)] = Advanced(Active)]
         /\ Advanced(Active) \in Activations(program, code) /\ Active.i \in Nat \ {0}
         /\ CodeOf(Advanced(Active)) = CodeOf(Active)
         /\ Advanced(Active).i = Active.i + 1 /\ Advanced(Active).cond = Active.cond
         /\ Forward \in Seq(Activations(program, code)) /\ Len(Forward) = Len(stack)
         /\ Forward # <<>> /\ Forward[Len(stack)] = Advanced(Active)
         /\ \A k \in 1..(Len(stack) - 1) : Forward[k] = stack[k]
<1>1. /\ stack \in Seq(Activations(program, code)) /\ Len(stack) \in Nat \ {0}
      /\ Active = stack[Len(stack)] /\ Active \in Activations(program, code)
      /\ Active.i # Len(CodeOf(Active)) /\ Len(stack) \in DOMAIN stack
  BY AtTop
<1>2. /\ Advanced(Active) \in Activations(program, code)
      /\ CodeOf(Advanced(Active)) = CodeOf(Active)
      /\ Advanced(Active).i = Active.i + 1 /\ Advanced(Active).cond = Active.cond
  BY <1>1, AdvancedShape
<1>3. Forward = [stack EXCEPT ![Len(stack)] = Advanced(Active)]
  BY <1>1 DEF Forward, Advanced
<1> DEFINE d == Advanced(Active)
<1> HIDE DEF d
<1>4. /\ Forward \in Seq(Activations(program, code)) /\ Len(Forward) = Len(stack)
      /\ Forward[Len(stack)] = d /\ \A k \in 1..(Len(stack) - 1) : Forward[k] = stack[k]
  <2>1. d \in Activations(program, code) /\ Forward = [stack EXCEPT ![Len(stack)] = d]
    BY <1>2, <1>3 DEF d
  <2> QED BY <1>1, <2>1
<1>5. Forward # <<>> /\ Active.i \in Nat \ {0}
  <2>1. Active.i \in 1..Len(CodeOf(Active))
    BY <1>1, AtPlace
  <2> QED BY <1>1, <1>4, <2>1
<1> QED BY <1>2, <1>3, <1>4, <1>5 DEF d

\* One more of some instructions was executed: they were counted or are to be counted.
Moves(op, s, t, d) ==
  \/ /\ Together(Pend(op), t) = Together(Pend(op), s) + d
     /\ Together(Lead(op), t) = Together(Lead(op), s)
  \/ /\ Together(Pend(op), t) = Together(Pend(op), s)
     /\ Together(Lead(op), s) = Together(Lead(op), t) + d

\* Sums are numbers, and change with the last activation.
LEMMA SumsChange ==
  ASSUME PlaceShape, CodeShape, pc # "pass",
         NEW w, w \in {Bound, BoundTaken} \cup {Pend(op) : op \in Ops} \cup {Lead(op) : op \in Ops},
         NEW s \in Seq(Activations(program, code)), NEW a \in Activations(program, code)
  PROVE  /\ Together(w, s) \in Nat /\ w[a] \in Nat
         /\ s = <<>> => Together(w, s) = 0
         /\ Append(s, a) \in Seq(Activations(program, code))
         /\ Together(w, Append(s, a)) = Together(w, s) + w[a]
         /\ s # <<>> =>
              /\ w[s[Len(s)]] \in Nat
              /\ [s EXCEPT ![Len(s)] = a] \in Seq(Activations(program, code))
              /\ Together(w, [s EXCEPT ![Len(s)] = a]) + w[s[Len(s)]] = Together(w, s) + w[a]
              /\ Front(s) \in Seq(Activations(program, code))
              /\ Together(w, Front(s)) + w[s[Len(s)]] = Together(w, s)
<1> DEFINE A == Activations(program, code)
<1>1. w \in [A -> Nat]
  BY HoldsNumbers
<1>2. s \in Seq(A) /\ a \in A
  OBVIOUS
<1> HIDE DEF A
<1>3. s # <<>> => s[Len(s)] \in A
  BY <1>2
<1>4. w[a] \in Nat /\ (s # <<>> => w[s[Len(s)]] \in Nat)
  BY <1>1, <1>2, <1>3
<1>5. Changes(A, w, s, a)
  BY <1>1, <1>2, TogetherChanges, Zenon
<1> QED BY <1>4, <1>5 DEF A, Changes

\* What is on the stack together when the last activation advances.
LEMMA ForwardSums ==
  ASSUME PlaceShape, CodeShape, StackShape, pc = "run", Instr.op \notin {"br", "ret"},
         NEW w, w \in {Bound, BoundTaken} \cup {Pend(op) : op \in Ops} \cup {Lead(op) : op \in Ops}
  PROVE  /\ Together(w, stack) \in Nat /\ Together(w, Forward) \in Nat
         /\ w[Active] \in Nat /\ w[Advanced(Active)] \in Nat
         /\ Together(w, Forward) + w[Active] = Together(w, stack) + w[Advanced(Active)]
<1> DEFINE a == Active
           d == Advanced(Active)
<1>1. /\ stack \in Seq(Activations(program, code)) /\ stack # <<>> /\ a = stack[Len(stack)]
      /\ a \in Activations(program, code)
  BY AtTop
<1>2. /\ Forward = [stack EXCEPT ![Len(stack)] = d] /\ d \in Activations(program, code)
      /\ Forward \in Seq(Activations(program, code))
  BY ForwardShape
<1> HIDE DEF a, d
<1>3. Together(w, [stack EXCEPT ![Len(stack)] = d]) + w[stack[Len(stack)]]
      = Together(w, stack) + w[d]
  BY <1>1, <1>2, SumsChange
<1>4. Together(w, stack) \in Nat /\ w[a] \in Nat /\ w[d] \in Nat /\ Together(w, Forward) \in Nat
  BY <1>1, <1>2, SumsChange
<1> QED BY <1>1, <1>2, <1>3, <1>4 DEF a, d

\* An activation that executes an instruction other than the counts.
LEMMA MovesForward ==
  ASSUME PlaceShape, CodeShape, StackShape, pc = "run", Instr.op \notin {"br", "ret", "update"},
         NEW op \in Ops
  PROVE  Moves(op, stack, Forward, One(Instr, op))
<1> DEFINE a == Active
           d == Advanced(Active)
           n == Len(stack)
           P == Pend(op)
           L == Lead(op)
<1>1. /\ stack \in Seq(Activations(program, code)) /\ stack # <<>> /\ a = stack[n]
      /\ a \in Activations(program, code) /\ Instr = CodeOf(a)[a.i]
  BY AtTop
<1>2. /\ Forward = [stack EXCEPT ![n] = d] /\ d \in Activations(program, code)
      /\ CodeOf(d) = CodeOf(a) /\ d.i = a.i + 1
  BY ForwardShape
<1>3. P[a] = Pending(CodeOf(a), a.i, op) /\ L[a] = Ahead(CodeOf(a), a.i, op)
  BY <1>1 DEF Pend, Lead
<1>4. P[d] = Pending(CodeOf(a), a.i + 1, op) /\ L[d] = Ahead(CodeOf(a), a.i + 1, op)
  BY <1>2 DEF Pend, Lead
<1>5. Len(CodeOf(a)) \in Nat /\ a.i \in 1..Len(CodeOf(a))
  BY <1>1, AtPlace
<1>6. \/ P[d] = P[a] + One(Instr, op) /\ L[d] = L[a]
      \/ P[d] = P[a] /\ L[a] = L[d] + One(Instr, op)
  BY <1>1, <1>3, <1>4, <1>5, PendingMoves
<1> HIDE DEF a, d, n, P, L
<1>7. /\ Together(P, stack) \in Nat /\ P[d] \in Nat /\ P[a] \in Nat /\ Together(P, Forward) \in Nat
      /\ Together(P, Forward) + P[a] = Together(P, stack) + P[d]
  BY ForwardSums DEF P, a, d
<1>8. /\ Together(L, stack) \in Nat /\ L[d] \in Nat /\ L[a] \in Nat /\ Together(L, Forward) \in Nat
      /\ Together(L, Forward) + L[a] = Together(L, stack) + L[d]
  BY ForwardSums DEF L, a, d
<1>9. One(Instr, op) \in Nat
  BY DEF One
<1> DEFINE o == One(Instr, op)
<1> HIDE DEF o
<1>10. CASE P[d] = P[a] + o /\ L[d] = L[a]
  <2>1. Together(P, Forward) = Together(P, stack) + o /\ Together(L, Forward) = Together(L, stack)
    BY <1>7, <1>8, <1>9, <1>10 DEF o
  <2> QED BY <2>1 DEF Moves, P, L, o
<1>11. CASE P[d] = P[a] /\ L[a] = L[d] + o
  <2>1. Together(P, Forward) = Together(P, stack) /\ Together(L, stack) = Together(L, Forward) + o
    BY <1>7, <1>8, <1>9, <1>11 DEF o
  <2> QED BY <2>1 DEF Moves, P, L, o
<1> QED BY <1>6, <1>10, <1>11 DEF o

\* An activation that begins has nothing to count.
LEMMA BeginsEmpty ==
  ASSUME PlaceShape, CodeShape, pc # "pass", tool = "count", NEW op \in Ops,
         NEW a \in Activations(program, code), a.i = 1
  PROVE  Pend(op)[a] = 0 /\ Lead(op)[a] = 0
<1>1. /\ program \in Programs /\ a.fn \in DOMAIN program /\ InBlock(a) \in Blocks(program, a.fn)
      /\ CodeOf(a) = Instrumented("count", InBlock(a))
  BY AtPlace
<1>2. Pending(CodeOf(a), 1, op) = 0 /\ Ahead(CodeOf(a), 1, op) = 0
  BY <1>1, PendingEnds
<1> QED BY <1>2 DEF Pend, Lead

\* At the end of its block an activation counted its last instruction.
LEMMA EndsCounted ==
  ASSUME PlaceShape, CodeShape, StackShape, pc = "run", Instr.op \in {"br", "ret"}, tool = "count",
         NEW op \in Ops
  PROVE  Pend(op)[Active] = 0 /\ Lead(op)[Active] = One(Instr, op)
<1> DEFINE a == Active
<1>1. a \in Activations(program, code) /\ Instr = CodeOf(a)[a.i] /\ a.i = Len(CodeOf(a))
  BY AtTop
<1>2. /\ program \in Programs /\ a.fn \in DOMAIN program /\ InBlock(a) \in Blocks(program, a.fn)
      /\ CodeOf(a) = Instrumented("count", InBlock(a))
  BY <1>1, AtPlace
<1> HIDE DEF a
<1> DEFINE k == CodeOf(a)
<1>3. Pending(k, Len(k), op) = 0 /\ Ahead(k, Len(k), op) = One(k[Len(k)], op)
  BY <1>2, PendingEnds
<1>4. Pend(op)[a] = Pending(k, a.i, op) /\ Lead(op)[a] = Ahead(k, a.i, op)
  BY <1>1 DEF Pend, Lead
<1> QED BY <1>1, <1>3, <1>4 DEF a


\* A call: the caller executes it, and the callee begins.
LEMMA MovesCall ==
  ASSUME PlaceShape, CodeShape, StackShape, pc = "run", Instr.op \notin {"br", "ret", "update"},
         tool = "count", NEW op \in Ops, NEW d \in Activations(program, code), d.i = 1
  PROVE  Moves(op, stack, Append(Forward, d), One(Instr, op))
<1> DEFINE P == Pend(op)
           L == Lead(op)
           t == Append(Forward, d)
           o == One(Instr, op)
<1>1. Moves(op, stack, Forward, o)
  BY MovesForward
<1>2. P[d] = 0 /\ L[d] = 0
  BY BeginsEmpty
<1>3. Forward \in Seq(Activations(program, code))
  BY ForwardShape
<1> HIDE DEF P, L, t, o
<1>4. Together(P, Forward) \in Nat /\ Together(P, t) = Together(P, Forward) + P[d]
  BY <1>3, SumsChange DEF P, t
<1>5. Together(L, Forward) \in Nat /\ Together(L, t) = Together(L, Forward) + L[d]
  BY <1>3, SumsChange DEF L, t
<1>6. Together(P, t) = Together(P, Forward) /\ Together(L, t) = Together(L, Forward)
  BY <1>2, <1>4, <1>5
<1>7. Moves(op, stack, t, o)
  BY <1>1, <1>6 DEF Moves, P, L
<1> QED BY <1>7 DEF t, o

\* A branch: a block ends, and another one begins.
LEMMA MovesBranch ==
  ASSUME PlaceShape, CodeShape, StackShape, pc = "run", Instr.op \in {"br", "ret"},
         tool = "count", NEW op \in Ops, NEW d \in Activations(program, code), d.i = 1
  PROVE  Moves(op, stack, [stack EXCEPT ![Len(stack)] = d], One(Instr, op))
<1> DEFINE P == Pend(op)
           L == Lead(op)
           t == [stack EXCEPT ![Len(stack)] = d]
           o == One(Instr, op)
           a == Active
<1>1. P[a] = 0 /\ L[a] = o
  BY EndsCounted
<1>2. P[d] = 0 /\ L[d] = 0
  BY BeginsEmpty
<1>3. /\ stack \in Seq(Activations(program, code)) /\ stack # <<>> /\ a = stack[Len(stack)]
      /\ a \in Activations(program, code)
  BY AtTop
<1> HIDE DEF P, L, t, o, a
<1>4. Together(P, stack) \in Nat /\ Together(P, t) + P[a] = Together(P, stack) + P[d]
      /\ t \in Seq(Activations(program, code))
  BY <1>3, SumsChange DEF P, t
<1>5. Together(L, stack) \in Nat /\ Together(L, t) + L[a] = Together(L, stack) + L[d]
  BY <1>3, SumsChange DEF L, t
<1>6. Together(P, t) \in Nat /\ Together(L, t) \in Nat
  BY <1>4, SumsChange DEF P, L
<1>7. o \in Nat
  BY DEF One, o
<1>8. Together(P, t) = Together(P, stack) /\ Together(L, stack) = Together(L, t) + o
  BY <1>1, <1>2, <1>4, <1>5, <1>6, <1>7
<1>9. Moves(op, stack, t, o)
  BY <1>8 DEF Moves, P, L
<1> QED BY <1>9 DEF t, o

\* A return: a block ends, and its activation with it.
LEMMA MovesReturn ==
  ASSUME PlaceShape, CodeShape, StackShape, pc = "run", Instr.op \in {"br", "ret"},
         tool = "count", NEW op \in Ops
  PROVE  Moves(op, stack, Front(stack), One(Instr, op))
<1> DEFINE P == Pend(op)
           L == Lead(op)
           t == Front(stack)
           o == One(Instr, op)
           a == Active
<1>1. P[a] = 0 /\ L[a] = o
  BY EndsCounted
<1>2. /\ stack \in Seq(Activations(program, code)) /\ stack # <<>> /\ a = stack[Len(stack)]
      /\ a \in Activations(program, code)
  BY AtTop
<1> HIDE DEF P, L, t, o, a
<1>3. /\ Together(P, stack) \in Nat /\ Together(P, t) + P[a] = Together(P, stack)
      /\ t \in Seq(Activations(program, code))
  BY <1>2, SumsChange DEF P, t
<1>4. Together(L, stack) \in Nat /\ Together(L, t) + L[a] = Together(L, stack)
  BY <1>2, SumsChange DEF L, t
<1>5. Together(P, t) \in Nat /\ Together(L, t) \in Nat
  BY <1>2, <1>3, SumsChange DEF P, L
<1>6. o \in Nat
  BY DEF One, o
<1>7. Together(P, t) = Together(P, stack) /\ Together(L, stack) = Together(L, t) + o
  BY <1>1, <1>3, <1>4, <1>5, <1>6
<1>8. Moves(op, stack, t, o)
  BY <1>7 DEF Moves, P, L
<1> QED BY <1>8 DEF t, o

\* The counts of a block: what was pending is counted, and what is ahead is too.
LEMMA MovesCounts ==
  ASSUME PlaceShape, CodeShape, StackShape, pc = "run", Instr.op = "update", tool = "count",
         NEW op \in Ops
  PROVE  /\ Instr.counts = Counts(InBlock(Active).code)
         /\ \E u, c \in Nat :
              /\ u + c = Times(op, InBlock(Active).code)
              /\ Together(Pend(op), stack) = Together(Pend(op), Forward) + u
              /\ Together(Lead(op), Forward) = Together(Lead(op), stack) + c
<1> DEFINE a == Active
           d == Advanced(Active)
           n == Len(stack)
           P == Pend(op)
           L == Lead(op)
           b == InBlock(Active)
           k == CodeOf(Active)
<1>1. /\ stack \in Seq(Activations(program, code)) /\ stack # <<>> /\ a = stack[n]
      /\ a \in Activations(program, code) /\ Instr = k[a.i]
  BY AtTop
<1>2. /\ Forward = [stack EXCEPT ![n] = d] /\ d \in Activations(program, code)
      /\ CodeOf(d) = k /\ d.i = a.i + 1
  BY ForwardShape
<1>3. P[a] = Pending(k, a.i, op) /\ L[a] = Ahead(k, a.i, op)
  BY <1>1 DEF Pend, Lead
<1>4. P[d] = Pending(k, a.i + 1, op) /\ L[d] = Ahead(k, a.i + 1, op)
  BY <1>2 DEF Pend, Lead
<1>5. /\ program \in Programs /\ a.fn \in DOMAIN program /\ b \in Blocks(program, a.fn)
      /\ k = Instrumented("count", b) /\ a.i \in 1..Len(k)
  BY <1>1, AtPlace
<1> HIDE DEF a, d, n, P, L, b, k
<1> DEFINE i == a.i
<1>6. i \in 1..Len(k) /\ k[i].op = "update" /\ k[i] = Instr
  BY <1>1, <1>5
<1>7. /\ k[i].counts = Counts(b.code)
      /\ Pending(k, i + 1, op) = 0 /\ Ahead(k, i, op) = 0
      /\ Pending(k, i, op) + Ahead(k, i + 1, op) = Times(op, b.code)
  <2> HIDE DEF i
  <2> QED BY <1>5, <1>6, PendingCounted
<1>8. P[d] = 0 /\ L[a] = 0 /\ P[a] + L[d] = Times(op, b.code)
  BY <1>3, <1>4, <1>7
<1>9. /\ Together(P, stack) \in Nat /\ P[d] \in Nat /\ P[a] \in Nat /\ Together(P, Forward) \in Nat
      /\ Together(P, Forward) + P[a] = Together(P, stack) + P[d]
  BY ForwardSums DEF P, a, d
<1>10. /\ Together(L, stack) \in Nat /\ L[d] \in Nat /\ L[a] \in Nat /\ Together(L, Forward) \in Nat
       /\ Together(L, Forward) + L[a] = Together(L, stack) + L[d]
  BY ForwardSums DEF L, a, d
<1>11. Together(P, stack) = Together(P, Forward) + P[a]
       /\ Together(L, Forward) = Together(L, stack) + L[d]
  BY <1>8, <1>9, <1>10
<1>12. Instr.counts = Counts(b.code)
  BY <1>6, <1>7
<1> QED BY <1>8, <1>9, <1>10, <1>11, <1>12 DEF P, L, b


Unit(x) == IF x THEN 1 ELSE 0

\* An activation saw its branch when the branch is next, and it has two ways.
LEMMA SeenNext ==
  ASSUME PlaceShape, CodeShape, pc # "pass", tool = "bias", NEW a \in Activations(program, code)
  PROVE  /\ Seen(a) <=> CodeOf(a)[a.i].op = "br" /\ Len(InBlock(a).succ) > 1
         /\ Bound[a] = Unit(Seen(a)) /\ BoundTaken[a] = Unit(Seen(a) /\ a.cond)
<1>1. /\ program \in Programs /\ a.fn \in DOMAIN program /\ InBlock(a) \in Blocks(program, a.fn)
      /\ CodeOf(a) = Instrumented("bias", InBlock(a)) /\ a.i \in 1..Len(CodeOf(a))
  BY AtPlace
<1> DEFINE k == CodeOf(a)
           i == a.i
<1> HIDE DEF k, i
<1>2. (i > 1 /\ k[i - 1].op = "updateBranch") <=> (k[i].op = "br" /\ Len(InBlock(a).succ) > 1)
  BY <1>1, BranchesReported DEF k, i
<1>3. Seen(a) <=> k[i].op = "br" /\ Len(InBlock(a).succ) > 1
  BY <1>2 DEF Seen, k, i
<1> QED BY <1>3 DEF Bound, BoundTaken, Unit, k, i

\* A call of the runtime binds an activation to its branch, and nothing else does.
LEMMA BoundForward ==
  ASSUME PlaceShape, CodeShape, StackShape, pc = "run", Instr.op \notin {"br", "ret"}, tool = "bias"
  PROVE  LET u == Instr.op = "updateBranch" IN
         /\ Together(Bound, stack) \in Nat /\ Together(BoundTaken, stack) \in Nat
         /\ Together(Bound, Forward) = Together(Bound, stack) + Unit(u)
         /\ Together(BoundTaken, Forward) = Together(BoundTaken, stack) + Unit(u /\ Active.cond)
<1> DEFINE a == Active
           d == Advanced(Active)
           u == Instr.op = "updateBranch"
<1>1. a \in Activations(program, code) /\ Instr = CodeOf(a)[a.i]
  BY AtTop
<1>2. /\ d \in Activations(program, code) /\ CodeOf(d) = CodeOf(a) /\ a.i \in Nat \ {0}
      /\ d.i = a.i + 1 /\ d.cond = a.cond
  BY ForwardShape
<1>3. ~Seen(a) /\ Bound[a] = Unit(Seen(a)) /\ BoundTaken[a] = Unit(Seen(a) /\ a.cond)
  BY <1>1, SeenNext
<1>4. Bound[d] = Unit(Seen(d)) /\ BoundTaken[d] = Unit(Seen(d) /\ d.cond)
  BY <1>2, SeenNext
<1>5. Seen(d) <=> u
  <2>1. d.i > 1 /\ d.i - 1 = a.i
    BY <1>2
  <2> QED BY <1>1, <1>2, <2>1 DEF Seen
<1>6. /\ Together(Bound, stack) \in Nat /\ Together(Bound, Forward) \in Nat
      /\ Together(Bound, Forward) + Bound[a] = Together(Bound, stack) + Bound[d]
  BY ForwardSums
<1>7. /\ Together(BoundTaken, stack) \in Nat /\ Together(BoundTaken, Forward) \in Nat
      /\ Together(BoundTaken, Forward) + BoundTaken[a] = Together(BoundTaken, stack) + BoundTaken[d]
  BY ForwardSums
<1>8. Bound[a] = 0 /\ BoundTaken[a] = 0
  BY <1>3 DEF Unit
<1>9. Bound[d] = Unit(u) /\ BoundTaken[d] = Unit(u /\ a.cond)
  <2>1. (Seen(d) /\ d.cond) <=> (u /\ a.cond)
    BY <1>2, <1>5
  <2> QED BY <1>4, <1>5, <2>1 DEF Unit
<1> HIDE DEF a, d, u
<1>10. Unit(u) \in Nat /\ Unit(u /\ a.cond) \in Nat
  BY DEF Unit
<1>11. Together(Bound, Forward) = Together(Bound, stack) + Unit(u)
  BY <1>6, <1>8, <1>9, <1>10
<1>12. Together(BoundTaken, Forward) = Together(BoundTaken, stack) + Unit(u /\ a.cond)
  BY <1>7, <1>8, <1>9, <1>10
<1> QED BY <1>6, <1>7, <1>11, <1>12 DEF u, a

\* An activation that begins has no branch.
LEMMA BoundAppend ==
  ASSUME PlaceShape, CodeShape, pc # "pass", NEW s \in Seq(Activations(program, code)),
         NEW d \in Activations(program, code), d.i = 1
  PROVE  /\ Together(Bound, Append(s, d)) = Together(Bound, s)
         /\ Together(BoundTaken, Append(s, d)) = Together(BoundTaken, s)
<1>1. Bound[d] = 0 /\ BoundTaken[d] = 0
  BY DEF Bound, BoundTaken, Seen
<1>2. Together(Bound, Append(s, d)) = Together(Bound, s) + Bound[d] /\ Together(Bound, s) \in Nat
  BY SumsChange
<1>3. /\ Together(BoundTaken, Append(s, d)) = Together(BoundTaken, s) + BoundTaken[d]
      /\ Together(BoundTaken, s) \in Nat
  BY SumsChange
<1> QED BY <1>1, <1>2, <1>3

\* A block that ends executes the branch it was bound to.
LEMMA BoundEnds ==
  ASSUME PlaceShape, CodeShape, StackShape, pc = "run", Instr.op \in {"br", "ret"}, tool = "bias",
         NEW t, t = Front(stack) \/ \E d \in Activations(program, code) :
                                      d.i = 1 /\ t = [stack EXCEPT ![Len(stack)] = d]
  PROVE  LET u == Instr.op = "br" /\ Len(InBlock(Active).succ) > 1 IN
         /\ Together(Bound, t) \in Nat /\ Together(BoundTaken, t) \in Nat
         /\ Together(Bound, stack) = Together(Bound, t) + Unit(u)
         /\ Together(BoundTaken, stack) = Together(BoundTaken, t) + Unit(u /\ Active.cond)
<1> DEFINE a == Active
           u == Instr.op = "br" /\ Len(InBlock(Active).succ) > 1
<1>1. /\ a \in Activations(program, code) /\ Instr = CodeOf(a)[a.i] /\ a = stack[Len(stack)]
      /\ stack \in Seq(Activations(program, code)) /\ stack # <<>>
  BY AtTop
<1>2. Bound[a] = Unit(u) /\ BoundTaken[a] = Unit(u /\ a.cond)
  <2>1. Seen(a) <=> u
    BY <1>1, SeenNext
  <2>2. Bound[a] = Unit(Seen(a)) /\ BoundTaken[a] = Unit(Seen(a) /\ a.cond)
    BY <1>1, SeenNext
  <2> QED BY <2>1, <2>2 DEF Unit
<1> HIDE DEF a, u
<1>3. Unit(u) \in Nat /\ Unit(u /\ a.cond) \in Nat
  BY DEF Unit
<1>4. CASE t = Front(stack)
  <2>1. /\ t \in Seq(Activations(program, code)) /\ Together(Bound, stack) \in Nat
        /\ Together(Bound, t) + Bound[a] = Together(Bound, stack)
    BY <1>1, <1>4, SumsChange
  <2>2. /\ Together(BoundTaken, stack) \in Nat
        /\ Together(BoundTaken, t) + BoundTaken[a] = Together(BoundTaken, stack)
    BY <1>1, <1>4, SumsChange
  <2>3. Together(Bound, t) \in Nat /\ Together(BoundTaken, t) \in Nat
    BY <1>1, <2>1, SumsChange
  <2> QED BY <1>2, <1>3, <2>1, <2>2, <2>3 DEF u, a
<1>5. ASSUME NEW d \in Activations(program, code), d.i = 1, t = [stack EXCEPT ![Len(stack)] = d]
      PROVE  /\ Together(Bound, t) \in Nat /\ Together(BoundTaken, t) \in Nat
             /\ Together(Bound, stack) = Together(Bound, t) + Unit(u)
             /\ Together(BoundTaken, stack) = Together(BoundTaken, t) + Unit(u /\ a.cond)
  <2>1. Bound[d] = 0 /\ BoundTaken[d] = 0
    BY <1>5 DEF Bound, BoundTaken, Seen
  <2>2. ASSUME NEW w \in {Bound, BoundTaken}
        PROVE  /\ Together(w, stack) \in Nat /\ Together(w, t) \in Nat
               /\ Together(w, t) + w[a] = Together(w, stack) + w[d]
    <3>1. w \in {Bound, BoundTaken} \cup {Pend(op) : op \in Ops} \cup {Lead(op) : op \in Ops}
      OBVIOUS
    <3>2. /\ [stack EXCEPT ![Len(stack)] = d] \in Seq(Activations(program, code))
          /\ Together(w, stack) \in Nat
          /\ Together(w, [stack EXCEPT ![Len(stack)] = d]) + w[stack[Len(stack)]]
             = Together(w, stack) + w[d]
      <4>1. PlaceShape /\ CodeShape /\ pc # "pass"
        OBVIOUS
      <4>2. stack \in Seq(Activations(program, code)) /\ stack # <<>>
        BY <1>1
      <4> QED BY <3>1, <4>1, <4>2, SumsChange
    <3>3. t \in Seq(Activations(program, code))
      BY <1>5, <3>2
    <3>4. Together(w, t) \in Nat
      BY <1>1, <3>1, <3>3, SumsChange
    <3> QED BY <1>1, <1>5, <3>2, <3>4
  <2>3. /\ Together(Bound, stack) \in Nat /\ Together(Bound, t) \in Nat
        /\ Together(Bound, t) + Bound[a] = Together(Bound, stack) + Bound[d]
    BY <2>2
  <2>4. /\ Together(BoundTaken, stack) \in Nat /\ Together(BoundTaken, t) \in Nat
        /\ Together(BoundTaken, t) + BoundTaken[a] = Together(BoundTaken, stack) + BoundTaken[d]
    BY <2>2
  <2> QED BY <1>2, <1>3, <2>1, <2>3, <2>4
<1> QED BY <1>4, <1>5 DEF u, a

-----------------------------------------------------------------------------
(* The properties, with what is on the stack together.                     *)

\* The counts of an opcode are all there, and those of branches.
Balanced(op, s, m, pr, ex) ==
  Wrap(pr[op] + (IF op \in DOMAIN m THEN m[op] ELSE 0) + Together(Pend(op), s))
  = Wrap(ex[op] + Together(Lead(op), s))
BranchesBalanced(s, count, pr, ex) ==
  /\ pr.total + count.total = ex.total + Together(Bound, s)
  /\ pr.taken + count.taken = ex.taken + Together(BoundTaken, s)

\* This is what NothingLost and BranchesCounted say.
LEMMA AllBalanced ==
  ASSUME stack \in Seq(Activations(program, code))
  PROVE  /\ NothingLost <=>
              (tool = "count" => \A op \in Ops : Balanced(op, stack, instr_map, printed, executed))
         /\ BranchesCounted <=>
              (tool = "bias" => BranchesBalanced(stack, branch_count, printedBranch, branched))
<1> DEFINE A == Activations(program, code)
           s == stack
<1>1. \A k \in DOMAIN s : s[k] \in A
  OBVIOUS
<1>2. ASSUME NEW op \in Ops
      PROVE  /\ InAll(LAMBDA a : Uncounted(a, op)) = Together(Pend(op), s)
             /\ InAll(LAMBDA a : Counted(a, op)) = Together(Lead(op), s)
  <2>1. \A a \in A : Uncounted(a, op) = Pend(op)[a] /\ Counted(a, op) = Lead(op)[a]
    BY DEF Uncounted, Counted, Updated, Among, Pend, Lead, Pending, Ahead, Added1, Number, Places
  <2>2. [k \in DOMAIN s |-> Uncounted(s[k], op)] = [k \in DOMAIN s |-> Pend(op)[s[k]]]
    BY <1>1, <2>1
  <2>3. [k \in DOMAIN s |-> Counted(s[k], op)] = [k \in DOMAIN s |-> Lead(op)[s[k]]]
    BY <1>1, <2>1
  <2> QED BY <2>2, <2>3 DEF InAll, Together
<1>3. NothingLost <=>
        (tool = "count" => \A op \in Ops : Balanced(op, s, instr_map, printed, executed))
  BY <1>2 DEF NothingLost, Balanced
<1>4. /\ InAll(LAMBDA a : IF Seen(a) THEN 1 ELSE 0) = Together(Bound, s)
      /\ InAll(LAMBDA a : IF Seen(a) /\ a.cond THEN 1 ELSE 0) = Together(BoundTaken, s)
  <2>1. [k \in DOMAIN s |-> IF Seen(s[k]) THEN 1 ELSE 0] = [k \in DOMAIN s |-> Bound[s[k]]]
    BY <1>1 DEF Bound
  <2>2. [k \in DOMAIN s |-> IF Seen(s[k]) /\ s[k].cond THEN 1 ELSE 0]
        = [k \in DOMAIN s |-> BoundTaken[s[k]]]
    BY <1>1 DEF BoundTaken
  <2> QED BY <2>1, <2>2 DEF InAll, Together
<1>5. BranchesCounted <=>
        (tool = "bias" => BranchesBalanced(s, branch_count, printedBranch, branched))
  BY <1>4 DEF BranchesCounted, BranchesBalanced, Seen
<1> QED BY <1>3, <1>5

\* It is what they say after a step of a program that runs.
LEMMA AllBalancedNext ==
  ASSUME stack' \in Seq(Activations(program, code)),
         program' = program, tool' = tool, code' = code
  PROVE  /\ (NothingLost)' <=>
              (tool = "count" =>
                \A op \in Ops : Balanced(op, stack', instr_map', printed', executed'))
         /\ (BranchesCounted)' <=>
              (tool = "bias" => BranchesBalanced(stack', branch_count', printedBranch', branched'))
<1> DEFINE A == Activations(program, code)
           s == stack'
<1>1. \A k \in DOMAIN s : s[k] \in A
  OBVIOUS
<1>2. ASSUME NEW op \in Ops
      PROVE  /\ InAll(LAMBDA a : Uncounted(a, op))' = Together(Pend(op), s)
             /\ InAll(LAMBDA a : Counted(a, op))' = Together(Lead(op), s)
  <2>1. \A a \in A : Uncounted(a, op) = Pend(op)[a] /\ Counted(a, op) = Lead(op)[a]
    BY DEF Uncounted, Counted, Updated, Among, Pend, Lead, Pending, Ahead, Added1, Number, Places
  <2>2. [k \in DOMAIN s |-> Uncounted(s[k], op)] = [k \in DOMAIN s |-> Pend(op)[s[k]]]
    BY <1>1, <2>1
  <2>3. [k \in DOMAIN s |-> Counted(s[k], op)] = [k \in DOMAIN s |-> Lead(op)[s[k]]]
    BY <1>1, <2>1
  <2> QED BY <2>2, <2>3 DEF InAll, Together, Uncounted, Counted, Updated, Among, CodeOf
<1>3. (NothingLost)' <=>
        (tool = "count" => \A op \in Ops : Balanced(op, s, instr_map', printed', executed'))
  BY <1>2 DEF NothingLost, Balanced
<1>4. /\ InAll(LAMBDA a : IF Seen(a) THEN 1 ELSE 0)' = Together(Bound, s)
      /\ InAll(LAMBDA a : IF Seen(a) /\ a.cond THEN 1 ELSE 0)' = Together(BoundTaken, s)
  <2>1. [k \in DOMAIN s |-> IF Seen(s[k]) THEN 1 ELSE 0] = [k \in DOMAIN s |-> Bound[s[k]]]
    BY <1>1 DEF Bound
  <2>2. [k \in DOMAIN s |-> IF Seen(s[k]) /\ s[k].cond THEN 1 ELSE 0]
        = [k \in DOMAIN s |-> BoundTaken[s[k]]]
    BY <1>1 DEF BoundTaken
  <2> QED BY <2>1, <2>2 DEF InAll, Together, Seen, CodeOf
<1>5. (BranchesCounted)' <=>
        (tool = "bias" => BranchesBalanced(s, branch_count', printedBranch', branched'))
  BY <1>4 DEF BranchesCounted, BranchesBalanced, Seen
<1> QED BY <1>3, <1>5

\* Instructions that are executed keep the balance.
LEMMA StepBalanced ==
  ASSUME PlaceShape, CodeShape, CountersShape, pc # "pass", NEW op \in Ops,
         NEW s \in Seq(Activations(program, code)), NEW t \in Seq(Activations(program, code)),
         NEW d, d \in Nat, NEW ex, ex[op] = executed[op] + d,
         Moves(op, s, t, d), Balanced(op, s, instr_map, printed, executed)
  PROVE  Balanced(op, t, instr_map, printed, ex)
<1> DEFINE v == IF op \in DOMAIN instr_map THEN instr_map[op] ELSE 0
           x == printed[op]
           e == executed[op]
           f == ex[op]
           ps == Together(Pend(op), s)
           pt == Together(Pend(op), t)
           ls == Together(Lead(op), s)
           lt == Together(Lead(op), t)
<1>1. v \in Nat /\ x \in Nat /\ e \in Nat /\ f = e + d
  BY DEF CountersShape
<1>2. ps \in Nat /\ pt \in Nat /\ ls \in Nat /\ lt \in Nat
  <2>1. /\ Pend(op) \in [Activations(program, code) -> Nat]
        /\ Lead(op) \in [Activations(program, code) -> Nat]
    BY HoldsNumbers
  <2>2. ASSUME NEW A, NEW w \in [A -> Nat], NEW r \in Seq(A) PROVE Together(w, r) \in Nat
    <3> DEFINE q == [j \in DOMAIN r |-> w[r[j]]]
    <3>1. q \in Seq(Nat)
      OBVIOUS
    <3> HIDE DEF q
    <3>2. SumOf(q) \in Nat
      <4>1. 0 \in Nat
        OBVIOUS
      <4> QED BY <3>1, <4>1, SumOfAppend
    <3> QED BY <3>2 DEF Together, q
  <2> QED BY <2>1, <2>2
<1>3. Wrap(x + v + ps) = Wrap(e + ls)
  BY DEF Balanced
<1>4. (pt = ps + d /\ lt = ls) \/ (pt = ps /\ ls = lt + d)
  BY DEF Moves
<1>5. Balanced(op, t, instr_map, printed, ex) <=> Wrap(x + v + pt) = Wrap(f + lt)
  BY DEF Balanced
<1> HIDE DEF v, x, e, f, ps, pt, ls, lt
<1>6. CASE pt = ps + d /\ lt = ls
  <2> DEFINE y == x + v + ps
             z == e + ls
  <2>1. y \in Nat /\ z \in Nat /\ Wrap(y) = Wrap(z)
    BY <1>1, <1>2, <1>3
  <2> HIDE DEF y, z
  <2>2. Wrap(y + d) = Wrap(z + d)
    BY <2>1, WrapBoth
  <2>3. x + v + pt = y + d /\ f + lt = z + d
    BY <1>1, <1>2, <1>6 DEF y, z
  <2> QED BY <1>5, <2>2, <2>3
<1>7. CASE pt = ps /\ ls = lt + d
  <2>1. x + v + pt = x + v + ps /\ f + lt = e + ls
    BY <1>1, <1>2, <1>7
  <2> QED BY <1>3, <1>5, <2>1
<1> QED BY <1>4, <1>6, <1>7

\* The counts of a block go into the runtime's map, or none for an opcode it has not.
LEMMA AddedAt ==
  ASSUME NEW m, m \in [DOMAIN m -> Nat], NEW c, NEW op \in Ops, Times(op, c) \in Nat
  PROVE  LET v(x) == IF op \in DOMAIN x THEN x[op] ELSE 0
             n == Added(m, Counts(c))
         IN  \/ Times(op, c) = 0 /\ v(n) = v(m)
             \/ v(n) = Wrap(v(m) + Times(op, c))
<1> DEFINE w == Counts(c)
           n == Added(m, w)
<1>1. DOMAIN w = OpsOf(c) /\ \A o \in OpsOf(c) : w[o] = Times(o, c)
  BY DEF Counts
<1>2. DOMAIN n = DOMAIN m \cup DOMAIN w
  BY DEF Added
<1>3. \A o \in DOMAIN m \cup DOMAIN w :
        /\ o \notin DOMAIN w => n[o] = m[o]
        /\ o \in DOMAIN w /\ o \notin DOMAIN m => n[o] = Wrap(w[o])
        /\ o \in DOMAIN w /\ o \in DOMAIN m => n[o] = Wrap(m[o] + w[o])
  BY DEF Added
<1> HIDE DEF w, n
<1>4. CASE op \notin OpsOf(c)
  <2>1. {i \in DOMAIN c : c[i].op = op} = {}
    BY <1>4 DEF OpsOf
  <2>2. Times(op, c) = 0
    BY <2>1, FS_EmptySet DEF Times
  <2>3. op \in DOMAIN n <=> op \in DOMAIN m
    BY <1>1, <1>2, <1>4
  <2>4. op \in DOMAIN m => n[op] = m[op]
    BY <1>1, <1>3, <1>4
  <2> QED BY <2>2, <2>3, <2>4 DEF n, w
<1>5. CASE op \in OpsOf(c)
  <2>1. op \in DOMAIN n /\ w[op] = Times(op, c)
    BY <1>1, <1>2, <1>5
  <2>2. op \in DOMAIN m => n[op] = Wrap(m[op] + Times(op, c))
    BY <1>1, <1>3, <1>5, <2>1
  <2>3. op \notin DOMAIN m => n[op] = Wrap(0 + Times(op, c))
    <3>1. 0 + Times(op, c) = Times(op, c)
      OBVIOUS
    <3> QED BY <1>1, <1>3, <1>5, <2>1, <3>1
  <2> QED BY <1>5, <2>1, <2>2, <2>3 DEF n, w
<1> QED BY <1>4, <1>5

\* The counts of a block keep the balance.
LEMMA CountsBalanced ==
  ASSUME PlaceShape, CodeShape, StackShape, CountersShape, pc = "run", Instr.op = "update",
         tool = "count", NEW op \in Ops, Balanced(op, stack, instr_map, printed, executed)
  PROVE  Balanced(op, Forward, Added(instr_map, Instr.counts), printed, executed)
<1> DEFINE v == IF op \in DOMAIN instr_map THEN instr_map[op] ELSE 0
           m == Added(instr_map, Instr.counts)
           vm == IF op \in DOMAIN m THEN m[op] ELSE 0
           x == printed[op]
           e == executed[op]
           ps == Together(Pend(op), stack)
           pt == Together(Pend(op), Forward)
           ls == Together(Lead(op), stack)
           lt == Together(Lead(op), Forward)
           code1 == InBlock(Active).code
           n == Times(op, code1)
<1>1. v \in Nat /\ x \in Nat /\ e \in Nat
  BY DEF CountersShape
<1>2. ps \in Nat /\ pt \in Nat /\ ls \in Nat /\ lt \in Nat
  BY ForwardSums
<1>3. Instr.counts = Counts(code1)
  BY MovesCounts
<1>4. PICK u \in Nat, c \in Nat : u + c = n /\ ps = pt + u /\ lt = ls + c
  BY MovesCounts
<1>5. n \in Nat /\ ((n = 0 /\ vm = v) \/ vm = Wrap(v + n))
  <2>1. instr_map \in [DOMAIN instr_map -> Nat] /\ n \in Nat
    BY <1>4 DEF CountersShape
  <2> HIDE DEF code1
  <2> QED BY <1>3, <2>1, AddedAt
<1>6. Wrap(x + v + ps) = Wrap(e + ls)
  BY DEF Balanced
<1>7. Balanced(op, Forward, m, printed, executed) <=> Wrap(x + vm + pt) = Wrap(e + lt)
  BY DEF Balanced
<1> HIDE DEF v, m, vm, x, e, ps, pt, ls, lt, n
<1>8. CASE n = 0 /\ vm = v
  <2>1. x + vm + pt = x + v + ps /\ e + lt = e + ls
    BY <1>1, <1>2, <1>4, <1>8
  <2> QED BY <1>6, <1>7, <2>1 DEF m
<1>9. CASE vm = Wrap(v + n)
  <2> DEFINE y == x + v + ps
             z == e + ls
             q == x + pt
             r == v + n
  <2>1. y \in Nat /\ z \in Nat /\ Wrap(y) = Wrap(z) /\ q \in Nat /\ r \in Nat
    BY <1>1, <1>2, <1>5, <1>6
  <2>2. q + r = y + c /\ e + lt = z + c
    BY <1>1, <1>2, <1>4
  <2> HIDE DEF y, z, q, r
  <2>3. Wrap(r) \in Nat /\ Wrap(q + Wrap(r)) = Wrap(q + r)
    BY <2>1, WrapInside
  <2>4. Wrap(y + c) = Wrap(z + c)
    BY <2>1, WrapBoth
  <2>5. x + vm + pt = q + Wrap(r)
    BY <1>1, <1>2, <1>9, <2>3 DEF q, r
  <2> QED BY <1>7, <2>2, <2>3, <2>4, <2>5 DEF m
<1> QED BY <1>5, <1>8, <1>9

-----------------------------------------------------------------------------
(* The steps of a program that runs.                                       *)

\* All but the last activation of a stack are after a call.
Calling(s) == \A k \in 1..(Len(s) - 1) : s[k].i > 1 /\ Before(s[k]) = "call"
\* After a report nothing is left to report.
Empties(s, m, count) ==
  s # <<>> /\ s[Len(s)].i > 1 =>
    /\ Before(s[Len(s)]) = "print" => m = Empty
    /\ Before(s[Len(s)]) = "printBranch" => count = NoBranches

\* What a step of a program that runs has to keep, for the invariant.
RunStep ==
  /\ program' = program /\ tool' = tool /\ code' = code /\ pos' = pos
  /\ pc' \in {"run", "returned", "exited"}
  /\ stack' \in Seq(Activations(program, code))
  /\ stack' = <<>> <=> pc' = "returned"
  /\ Calling(stack')
  /\ (CountersShape)'
  /\ Empties(stack', instr_map', branch_count')
  /\ pc' = "returned" => /\ tool = "count" => instr_map' = Empty
                         /\ tool = "bias" => branch_count' = NoBranches
  /\ tool = "count" => \A op \in Ops : Balanced(op, stack', instr_map', printed', executed')
  /\ tool = "bias" => BranchesBalanced(stack', branch_count', printedBranch', branched')

\* This is enough.
LEMMA RunStepKeeps ==
  ASSUME IInv, pc # "pass", RunStep
  PROVE  IInv'
<1>1. /\ PlaceShape /\ CodeShape
      /\ program' = program /\ tool' = tool /\ code' = code /\ pos' = pos
      /\ pc' \in {"run", "returned", "exited"} /\ pc' # "pass"
  BY DEF IInv, RunStep
<1>2. (PlaceShape)'
  BY <1>1 DEF PlaceShape
<1>3. (CodeShape)'
  BY <1>1 DEF CodeShape, Passed
<1>4. stack' \in Seq(Activations(program, code)) /\ Calling(stack')
      /\ (stack' = <<>> <=> pc' = "returned")
  BY DEF RunStep
<1>5. (StackShape)'
  BY <1>1, <1>4 DEF StackShape, Calling, Before, CodeOf
<1>6. (CountersShape)'
  BY DEF RunStep
<1>7. (Fresh)'
  BY <1>1 DEF Fresh
<1>8. (Reported)'
  <2>1. Empties(stack', instr_map', branch_count')
    BY DEF RunStep
  <2>2. pc' = "returned" => /\ tool' = "count" => instr_map' = Empty
                            /\ tool' = "bias" => branch_count' = NoBranches
    BY <1>1 DEF RunStep
  <2> QED BY <1>1, <2>1, <2>2 DEF Reported, Empties, Before, CodeOf, Active
<1>9. (NothingLost)' /\ (BranchesCounted)'
  <2>1. /\ tool = "count" => \A op \in Ops : Balanced(op, stack', instr_map', printed', executed')
        /\ tool = "bias" => BranchesBalanced(stack', branch_count', printedBranch', branched')
    BY DEF RunStep
  <2> QED BY <1>1, <1>4, <2>1, AllBalancedNext
<1> QED BY <1>2, <1>3, <1>5, <1>6, <1>7, <1>8, <1>9 DEF IInv

\* What the invariant says of a program that runs.
LEMMA Runs ==
  ASSUME IInv, pc = "run"
  PROVE  /\ PlaceShape /\ CodeShape /\ StackShape /\ CountersShape /\ pc # "pass"
         /\ Calling(stack) /\ Empties(stack, instr_map, branch_count)
         /\ tool = "count" => \A op \in Ops : Balanced(op, stack, instr_map, printed, executed)
         /\ tool = "bias" => BranchesBalanced(stack, branch_count, printedBranch, branched)
<1>1. PlaceShape /\ CodeShape /\ StackShape /\ CountersShape /\ Reported /\ NothingLost
      /\ BranchesCounted
  BY DEF IInv
<1>2. stack \in Seq(Activations(program, code)) /\ Calling(stack)
  BY <1>1 DEF StackShape, Calling
<1>3. Empties(stack, instr_map, branch_count)
  BY <1>1 DEF Reported, Empties, Active
<1> QED BY <1>1, <1>2, <1>3, AllBalanced

\* The stack when the last activation goes on.
LEMMA ForwardKeeps ==
  ASSUME IInv, pc = "run", Instr.op \notin {"br", "ret"}
  PROVE  /\ Forward \in Seq(Activations(program, code)) /\ Forward # <<>> /\ Calling(Forward)
         /\ Len(Forward) = Len(stack) /\ Len(stack) \in Nat
         /\ Forward[Len(Forward)].i > 1 /\ Before(Forward[Len(Forward)]) = Instr.op
<1>1. PlaceShape /\ CodeShape /\ StackShape /\ Calling(stack)
  BY Runs
<1>2. /\ Forward \in Seq(Activations(program, code)) /\ Len(Forward) = Len(stack)
      /\ Forward # <<>> /\ Forward[Len(stack)] = Advanced(Active)
      /\ \A k \in 1..(Len(stack) - 1) : Forward[k] = stack[k]
      /\ CodeOf(Advanced(Active)) = CodeOf(Active)
      /\ Advanced(Active).i = Active.i + 1 /\ Active.i \in Nat \ {0}
  BY <1>1, ForwardShape
<1>3. Instr = CodeOf(Active)[Active.i] /\ Len(stack) \in Nat
  BY <1>1, AtTop
<1> DEFINE d == Advanced(Active)
<1>4. d.i > 1 /\ Before(d) = Instr.op
  <2>1. d.i = Active.i + 1 /\ Active.i \in Nat \ {0}
    BY <1>2
  <2> HIDE DEF d
  <2>2. d.i > 1 /\ d.i - 1 = Active.i
    BY <2>1
  <2> QED BY <1>2, <1>3, <2>2 DEF Before, d
<1>5. Calling(Forward)
  BY <1>1, <1>2 DEF Calling
<1> QED BY <1>2, <1>3, <1>4, <1>5

\* An instruction that is executed is one more of its opcode.
LEMMA OneMore ==
  ASSUME CountersShape, Instr.op \in Ops, executed' = [executed EXCEPT ![Instr.op] = @ + 1]
  PROVE  /\ executed' \in [Ops -> Nat]
         /\ \A op \in Ops : executed'[op] = executed[op] + One(Instr, op) /\ One(Instr, op) \in Nat
BY DEF CountersShape, One

\* What an executed instruction does to the counts, given what it does to the stack.
LEMMA ExecutedBalanced ==
  ASSUME IInv, pc = "run", tool = "count", executed' = [executed EXCEPT ![Instr.op] = @ + 1],
         Instr.op \in Ops, NEW t \in Seq(Activations(program, code)),
         \A op \in Ops : Moves(op, stack, t, One(Instr, op))
  PROVE  \A op \in Ops : Balanced(op, t, instr_map, printed, executed')
<1>1. /\ PlaceShape /\ CodeShape /\ CountersShape /\ pc # "pass"
      /\ stack \in Seq(Activations(program, code))
      /\ \A op \in Ops : Balanced(op, stack, instr_map, printed, executed)
  BY Runs DEF StackShape
<1>2. \A op \in Ops : executed'[op] = executed[op] + One(Instr, op) /\ One(Instr, op) \in Nat
  BY <1>1, OneMore
<1> TAKE op \in Ops
<1> DEFINE d == One(Instr, op)
           ex == executed'
<1>3. d \in Nat /\ ex[op] = executed[op] + d /\ Moves(op, stack, t, d)
  BY <1>2
<1> HIDE DEF d, ex
<1>4. Balanced(op, t, instr_map, printed, ex)
  BY <1>1, <1>3, StepBalanced
<1> QED BY <1>4 DEF ex

\* The runtime's calls are not of the program, and its opcodes are known.
LEMMA OpsApart ==
  /\ "call" \in Ops /\ "br" \in Ops /\ "ret" \in Ops
  /\ \A op \in Ops : op \notin {"update", "print", "updateBranch", "printBranch"}
BY ProgramAssumption DEF RuntimeOps

\* A step of the last activation to the next instruction.
LEMMA ForwardStep ==
  ASSUME IInv, pc = "run", Instr.op \notin {"br", "ret"}, stack' = Forward,
         program' = program, tool' = tool, code' = code, pos' = pos,
         pc' \in {"run", "exited"}, (CountersShape)',
         Instr.op = "print" => instr_map' = Empty,
         Instr.op = "printBranch" => branch_count' = NoBranches,
         tool = "count" => \A op \in Ops : Balanced(op, Forward, instr_map', printed', executed'),
         tool = "bias" => BranchesBalanced(Forward, branch_count', printedBranch', branched')
  PROVE  RunStep
<1>1. /\ Forward \in Seq(Activations(program, code)) /\ Forward # <<>> /\ Calling(Forward)
      /\ Before(Forward[Len(Forward)]) = Instr.op
  BY ForwardKeeps
<1>2. Empties(Forward, instr_map', branch_count')
  BY <1>1 DEF Empties
<1> QED BY <1>1, <1>2 DEF RunStep

\* Branches stay as they are, unless one is counted.
LEMMA BranchesSame ==
  ASSUME IInv, pc = "run", tool = "bias", Instr.op \notin {"br", "ret", "updateBranch"}
  PROVE  BranchesBalanced(Forward, branch_count, printedBranch, branched)
<1>1. /\ PlaceShape /\ CodeShape /\ StackShape
      /\ BranchesBalanced(stack, branch_count, printedBranch, branched)
  BY Runs
<1> DEFINE u == Instr.op = "updateBranch"
<1>2. /\ Together(Bound, stack) \in Nat /\ Together(BoundTaken, stack) \in Nat
      /\ Together(Bound, Forward) = Together(Bound, stack) + Unit(u)
      /\ Together(BoundTaken, Forward) = Together(BoundTaken, stack) + Unit(u /\ Active.cond)
  BY <1>1, BoundForward
<1>3. Unit(u) = 0 /\ Unit(u /\ Active.cond) = 0
  BY DEF Unit
<1> HIDE DEF u
<1>4. /\ Together(Bound, Forward) = Together(Bound, stack)
      /\ Together(BoundTaken, Forward) = Together(BoundTaken, stack)
  BY <1>2, <1>3
<1> QED BY <1>1, <1>4 DEF BranchesBalanced

\* Instructions of the program that go on to the next.
LEMMA GoesOn ==
  ASSUME IInv, Executing(Ops \ {"br", "ret"}), Advance, pc' \in {"run", "exited"},
         UNCHANGED <<program, tool, code, pos, runtime, branched>>
  PROVE  RunStep
<1>1. pc = "run" /\ Instr.op \in Ops /\ Instr.op \notin {"br", "ret"} /\ stack' = Forward
      /\ executed' = [executed EXCEPT ![Instr.op] = @ + 1]
  BY DEF Executing, Advance, Forward
<1>2. Instr.op \notin {"update", "print", "updateBranch", "printBranch"}
  BY <1>1, OpsApart
<1>3. /\ instr_map' = instr_map /\ branch_count' = branch_count /\ printed' = printed
      /\ printedBranch' = printedBranch /\ branched' = branched
      /\ program' = program /\ tool' = tool /\ code' = code /\ pos' = pos
  BY DEF runtime
<1>4. PlaceShape /\ CodeShape /\ StackShape /\ CountersShape
  BY <1>1, Runs
<1>5. (CountersShape)'
  <2>1. executed' \in [Ops -> Nat]
    BY <1>1, <1>4, OneMore
  <2> QED BY <1>3, <1>4, <2>1 DEF CountersShape
<1>6. ASSUME tool = "count"
      PROVE  \A op \in Ops : Balanced(op, Forward, instr_map', printed', executed')
  <2>1. \A op \in Ops : Moves(op, stack, Forward, One(Instr, op))
    BY <1>1, <1>2, <1>4, MovesForward
  <2>2. Forward \in Seq(Activations(program, code))
    BY <1>1, <1>4, ForwardShape
  <2>3. \A op \in Ops : Balanced(op, Forward, instr_map, printed, executed')
    BY <1>1, <1>6, <2>1, <2>2, ExecutedBalanced
  <2> QED BY <1>3, <2>3
<1>7. ASSUME tool = "bias"
      PROVE  BranchesBalanced(Forward, branch_count', printedBranch', branched')
  BY <1>1, <1>2, <1>3, <1>7, BranchesSame
<1> QED BY <1>1, <1>2, <1>3, <1>5, <1>6, <1>7, ForwardStep

\* A call: the callee's activation is on top of the caller's.
LEMMA CallStep ==
  ASSUME IInv, Call
  PROVE  RunStep
<1>1. /\ pc = "run" /\ Instr.op = "call" /\ Instr.callee # 0
      /\ executed' = [executed EXCEPT ![Instr.op] = @ + 1]
  BY DEF Call, Executing
<1>2. /\ instr_map' = instr_map /\ branch_count' = branch_count /\ printed' = printed
      /\ printedBranch' = printedBranch /\ branched' = branched
      /\ program' = program /\ tool' = tool /\ code' = code /\ pos' = pos /\ pc' = pc
  BY DEF Call, runtime
<1>3. PICK c \in BOOLEAN : stack' = Append(Forward, Activation(Instr.callee, 1, c))
  BY DEF Call, Forward
<1> DEFINE d == Activation(Instr.callee, 1, c)
<1>4. /\ PlaceShape /\ CodeShape /\ StackShape /\ CountersShape /\ pc # "pass"
      /\ tool = "bias" => BranchesBalanced(stack, branch_count, printedBranch, branched)
  BY <1>1, Runs
<1>5. Instr.callee \in DOMAIN program /\ 1 \in DOMAIN program[Instr.callee]
  <2>1. Instr.callee \in 0..Len(program)
    BY <1>1, <1>4, AtTop
  <2>2. program \in Programs
    BY <1>4 DEF PlaceShape
  <2>3. /\ Len(program) \in Nat \ {0} /\ DOMAIN program = 1..Len(program)
        /\ \A f \in DOMAIN program :
             Len(program[f]) \in Nat \ {0} /\ DOMAIN program[f] = 1..Len(program[f])
    BY <2>2, ProgramBlocks
  <2>4. Instr.callee \in DOMAIN program
    BY <1>1, <2>1, <2>3
  <2> QED BY <2>3, <2>4
<1>6. d \in Activations(program, code) /\ d.i = 1
  <2> DEFINE b == 1
  <2>1. b \in DOMAIN program[Instr.callee]
    BY <1>5
  <2> HIDE DEF b
  <2>2. Activation(Instr.callee, b, c) \in Activations(program, code)
        /\ Activation(Instr.callee, b, c).i = 1
    BY <1>4, <1>5, <2>1, ActivationShape
  <2> QED BY <2>2 DEF b
<1> HIDE DEF d
<1>7. /\ Forward \in Seq(Activations(program, code)) /\ Forward # <<>> /\ Calling(Forward)
      /\ Len(Forward) \in Nat
      /\ Forward[Len(Forward)].i > 1 /\ Before(Forward[Len(Forward)]) = "call"
  BY <1>1, ForwardKeeps
<1> DEFINE t == Append(Forward, d)
<1>8. stack' = t
  BY <1>3 DEF d
<1>9. /\ t \in Seq(Activations(program, code)) /\ t # <<>> /\ Len(t) = Len(Forward) + 1
         /\ t[Len(t)] = d
      /\ \A k \in 1..Len(Forward) : t[k] = Forward[k]
  <2> DEFINE A == Activations(program, code)
             s == Forward
  <2>1. s \in Seq(A) /\ d \in A
    BY <1>6, <1>7
  <2> HIDE DEF A, s
  <2>2. /\ Append(s, d) \in Seq(A) /\ Len(Append(s, d)) = Len(s) + 1 /\ Append(s, d)[Len(s) + 1] = d
        /\ \A k \in 1..Len(s) : Append(s, d)[k] = s[k]
    BY <2>1
  <2>3. Append(s, d) # <<>>
    BY <2>1
  <2> QED BY <2>2, <2>3 DEF A, s
<1> HIDE DEF t
<1>10. Calling(t)
  <2> SUFFICES ASSUME NEW k \in 1..(Len(t) - 1) PROVE t[k].i > 1 /\ Before(t[k]) = "call"
    BY DEF Calling
  <2>1. k \in 1..Len(Forward) /\ (k \in 1..(Len(Forward) - 1) \/ k = Len(Forward))
    BY <1>7, <1>9
  <2> QED BY <1>7, <1>9, <2>1 DEF Calling
<1>11. Empties(t, instr_map', branch_count')
  <2>1. ~(t[Len(t)].i > 1)
    BY <1>6, <1>9
  <2> QED BY <2>1 DEF Empties
<1>12. (CountersShape)'
  <2>1. executed' \in [Ops -> Nat]
    BY <1>1, <1>4, OpsApart, OneMore
  <2> QED BY <1>2, <1>4, <2>1 DEF CountersShape
<1>13. ASSUME tool = "count"
       PROVE  \A op \in Ops : Balanced(op, t, instr_map', printed', executed')
  <2>1. \A op \in Ops : Moves(op, stack, t, One(Instr, op))
    BY <1>1, <1>4, <1>6, <1>13, MovesCall DEF t
  <2>2. \A op \in Ops : Balanced(op, t, instr_map, printed, executed')
    BY <1>1, <1>9, <1>13, <2>1, OpsApart, ExecutedBalanced
  <2> QED BY <1>2, <2>2
<1>14. ASSUME tool = "bias"
       PROVE  BranchesBalanced(t, branch_count', printedBranch', branched')
  <2>1. BranchesBalanced(Forward, branch_count, printedBranch, branched)
    BY <1>1, <1>14, BranchesSame
  <2>2. Together(Bound, t) = Together(Bound, Forward)
        /\ Together(BoundTaken, t) = Together(BoundTaken, Forward)
    BY <1>4, <1>6, <1>7, BoundAppend DEF t
  <2> QED BY <1>2, <2>1, <2>2 DEF BranchesBalanced
<1> QED BY <1>1, <1>2, <1>8, <1>9, <1>10, <1>11, <1>12, <1>13, <1>14 DEF RunStep

\* A branch: the activation goes on in a successor of its block.
LEMMA BranchStep ==
  ASSUME IInv, Branch
  PROVE  RunStep
<1> DEFINE a == Active
           b == InBlock(Active)
           succ == code[Active.fn][Active.block].succ
           to == IF Len(succ) = 1 \/ Active.cond THEN succ[1] ELSE succ[2]
           n == Len(stack)
<1>1. /\ pc = "run" /\ Instr.op = "br" /\ executed' = [executed EXCEPT ![Instr.op] = @ + 1]
  BY DEF Branch, Executing
<1>2. /\ instr_map' = instr_map /\ branch_count' = branch_count /\ printed' = printed
      /\ printedBranch' = printedBranch
      /\ program' = program /\ tool' = tool /\ code' = code /\ pos' = pos /\ pc' = pc
  BY DEF Branch, runtime
<1>3. PICK c \in BOOLEAN : stack' = [stack EXCEPT ![n] = Activation(a.fn, to, c)]
  BY DEF Branch
<1>4. branched' = IF Len(succ) = 1 THEN branched
                  ELSE [taken |-> branched.taken + (IF a.cond THEN 1 ELSE 0),
                        total |-> branched.total + 1]
  BY DEF Branch
<1>5. /\ PlaceShape /\ CodeShape /\ StackShape /\ CountersShape /\ pc # "pass" /\ Calling(stack)
      /\ tool = "bias" => BranchesBalanced(stack, branch_count, printedBranch, branched)
  BY <1>1, Runs
<1>6. /\ a \in Activations(program, code) /\ Instr = CodeOf(a)[a.i] /\ a.i = Len(CodeOf(a))
      /\ stack \in Seq(Activations(program, code)) /\ stack # <<>> /\ n \in Nat \ {0}
  BY <1>1, <1>5, AtTop
<1>7. /\ program \in Programs /\ a.fn \in DOMAIN program /\ b \in Blocks(program, a.fn)
      /\ CodeOf(a) = Instrumented(tool, b) /\ succ = b.succ /\ tool \in {"count", "bias"}
      /\ a.cond \in BOOLEAN
  BY <1>5, <1>6, AtPlace DEF PlaceShape
<1> HIDE DEF a, b, succ, n
<1>8. ~Returns(b)
  <2>1. CodeOf(a)[Len(CodeOf(a))] = Last(b.code)
    BY <1>7, InstrumentedEnds
  <2>2. Last(b.code).op = "br"
    BY <1>1, <1>6, <2>1
  <2> QED BY <2>2 DEF Returns
<1>9. Len(succ) \in {1, 2} /\ succ \in Seq(DOMAIN program[a.fn])
  BY <1>7, <1>8, BlockShape
<1>10. to \in DOMAIN program[a.fn]
  <2>1. succ[1] \in DOMAIN program[a.fn]
    BY <1>9
  <2>2. Len(succ) = 2 => succ[2] \in DOMAIN program[a.fn]
    BY <1>9
  <2> QED BY <1>9, <2>1, <2>2 DEF a
<1> HIDE DEF to
<1> DEFINE d == Activation(a.fn, to, c)
           t == [stack EXCEPT ![n] = d]
<1>11. d \in Activations(program, code) /\ d.i = 1
  BY <1>5, <1>7, <1>10, ActivationShape
<1> HIDE DEF d
<1>12. /\ t \in Seq(Activations(program, code)) /\ Len(t) = n /\ t[n] = d
       /\ \A k \in 1..(n - 1) : t[k] = stack[k]
  BY <1>6, <1>11 DEF n
<1>13. stack' = t /\ t # <<>>
  <2>1. t # <<>>
    BY <1>6, <1>12
  <2> QED BY <1>3, <2>1 DEF d
<1>14. Calling(t)
  BY <1>5, <1>12 DEF Calling, n
<1>15. Empties(t, instr_map', branch_count')
  <2>1. ~(t[Len(t)].i > 1)
    BY <1>11, <1>12
  <2> QED BY <2>1 DEF Empties
<1>16. (CountersShape)'
  <2>1. executed' \in [Ops -> Nat]
    BY <1>1, <1>5, OpsApart, OneMore
  <2>2. branched' \in [taken : Nat, total : Nat]
    <3>1. branched \in [taken : Nat, total : Nat]
      BY <1>5 DEF CountersShape
    <3>2. branched.taken + (IF a.cond THEN 1 ELSE 0) \in Nat /\ branched.total + 1 \in Nat
      BY <3>1
    <3> QED BY <1>4, <3>1, <3>2
  <2> QED BY <1>2, <1>5, <2>1, <2>2 DEF CountersShape
<1>17. ASSUME tool = "count"
       PROVE  \A op \in Ops : Balanced(op, t, instr_map', printed', executed')
  <2>1. \A op \in Ops : Moves(op, stack, t, One(Instr, op))
    BY <1>1, <1>5, <1>11, <1>17, MovesBranch DEF n
  <2>2. \A op \in Ops : Balanced(op, t, instr_map, printed, executed')
    BY <1>1, <1>12, <1>17, <2>1, OpsApart, ExecutedBalanced
  <2> QED BY <1>2, <2>2
<1>18. ASSUME tool = "bias"
       PROVE  BranchesBalanced(t, branch_count', printedBranch', branched')
  <2> DEFINE u == Len(succ) > 1
  <2>1. \E x \in Activations(program, code) : x.i = 1 /\ t = [stack EXCEPT ![Len(stack)] = x]
    BY <1>11 DEF n
  <2> HIDE DEF t
  <2>2. /\ Together(Bound, t) \in Nat /\ Together(BoundTaken, t) \in Nat
        /\ Together(Bound, stack) = Together(Bound, t) + Unit(Instr.op = "br" /\ u)
        /\ Together(BoundTaken, stack) = Together(BoundTaken, t)
                                         + Unit((Instr.op = "br" /\ u) /\ a.cond)
    BY <1>1, <1>5, <1>7, <1>18, <2>1, BoundEnds DEF a, b
  <2>3. u <=> Len(succ) # 1
    <3>1. Len(succ) = 1 \/ Len(succ) = 2
      BY <1>9
    <3> QED BY <3>1
  <2> HIDE DEF u
  <2>4. /\ Unit(Instr.op = "br" /\ u) = Unit(u)
        /\ Unit((Instr.op = "br" /\ u) /\ a.cond) = Unit(u /\ a.cond)
    BY <1>1 DEF Unit
  <2>5. branched.taken \in Nat /\ branched.total \in Nat
    BY <1>5 DEF CountersShape
  <2>6. branched'.taken = branched.taken + Unit(u /\ a.cond)
        /\ branched'.total = branched.total + Unit(u)
    BY <1>4, <2>3, <2>5 DEF Unit
  <2>7. Unit(u) \in Nat /\ Unit(u /\ a.cond) \in Nat
    BY DEF Unit
  <2>8. BranchesBalanced(stack, branch_count, printedBranch, branched)
    BY <1>5, <1>18
  <2>9. branched'.total + Together(Bound, t) = branched.total + Together(Bound, stack)
    BY <2>2, <2>4, <2>5, <2>6, <2>7
  <2>10. branched'.taken + Together(BoundTaken, t) = branched.taken + Together(BoundTaken, stack)
    BY <2>2, <2>4, <2>5, <2>6, <2>7
  <2> QED BY <1>2, <2>8, <2>9, <2>10 DEF BranchesBalanced
<1> QED BY <1>1, <1>2, <1>12, <1>13, <1>14, <1>15, <1>16, <1>17, <1>18 DEF RunStep

\* A return: the caller goes on after its call, and a report was made before.
LEMMA ReturnStep ==
  ASSUME IInv, Return
  PROVE  RunStep
<1> DEFINE a == Active
           b == InBlock(Active)
           n == Len(stack)
           t == Front(stack)
<1>1. /\ pc = "run" /\ Instr.op = "ret" /\ executed' = [executed EXCEPT ![Instr.op] = @ + 1]
      /\ stack' = t /\ pc' = IF n = 1 THEN "returned" ELSE pc
  BY DEF Return, Executing
<1>2. /\ instr_map' = instr_map /\ branch_count' = branch_count /\ printed' = printed
      /\ printedBranch' = printedBranch /\ branched' = branched
      /\ program' = program /\ tool' = tool /\ code' = code /\ pos' = pos
  BY DEF Return, runtime
<1>3. /\ PlaceShape /\ CodeShape /\ StackShape /\ CountersShape /\ pc # "pass" /\ Calling(stack)
      /\ Empties(stack, instr_map, branch_count)
      /\ tool = "bias" => BranchesBalanced(stack, branch_count, printedBranch, branched)
  BY <1>1, Runs
<1>4. /\ a \in Activations(program, code) /\ Instr = CodeOf(a)[a.i] /\ a.i = Len(CodeOf(a))
      /\ stack \in Seq(Activations(program, code)) /\ stack # <<>> /\ n \in Nat \ {0}
      /\ a = stack[n]
  BY <1>1, <1>3, AtTop
<1>5. /\ program \in Programs /\ a.fn \in DOMAIN program /\ b \in Blocks(program, a.fn)
      /\ CodeOf(a) = Instrumented(tool, b) /\ tool \in {"count", "bias"}
  BY <1>3, <1>4, AtPlace DEF PlaceShape
<1>6. /\ t \in Seq(Activations(program, code)) /\ Len(t) = n - 1
      /\ \A k \in 1..(n - 1) : t[k] = stack[k]
  BY <1>4, FrontAndLast
<1>7. Empties(stack, instr_map, branch_count) /\ a.i > 1 /\ Before(a) = Reporting(tool)
  <2> HIDE DEF a, b
  <2>1. /\ CodeOf(a)[Len(CodeOf(a))] = Last(b.code) /\ Len(CodeOf(a)) \in Nat
        /\ Returns(b) => Len(CodeOf(a)) > 1 /\ CodeOf(a)[Len(CodeOf(a)) - 1].op = Reporting(tool)
    BY <1>5, InstrumentedEnds
  <2>2. Returns(b)
    BY <1>1, <1>4, <2>1 DEF Returns
  <2> QED BY <1>3, <1>4, <2>1, <2>2 DEF Before
<1>8. /\ tool = "count" => instr_map = Empty
      /\ tool = "bias" => branch_count = NoBranches
  BY <1>4, <1>7 DEF Empties, Reporting
<1> HIDE DEF a, b, n, t
<1>9. t = <<>> <=> n = 1
  BY <1>4, <1>6
<1>10. Calling(t)
  <2> SUFFICES ASSUME NEW k \in 1..(Len(t) - 1) PROVE t[k].i > 1 /\ Before(t[k]) = "call"
    BY DEF Calling
  <2>1. k \in 1..(n - 1)
    BY <1>4, <1>6
  <2> QED BY <1>3, <1>6, <2>1 DEF Calling, n
<1>11. Empties(t, instr_map', branch_count')
  <2> SUFFICES ASSUME t # <<>> PROVE Before(t[Len(t)]) = "call"
    BY DEF Empties
  <2>1. n - 1 \in 1..(n - 1)
    BY <1>4, <1>9
  <2> QED BY <1>3, <1>6, <2>1 DEF Calling, n
<1>12. (CountersShape)'
  <2>1. executed' \in [Ops -> Nat]
    BY <1>1, <1>3, OpsApart, OneMore
  <2> QED BY <1>2, <1>3, <2>1 DEF CountersShape
<1>13. ASSUME tool = "count"
       PROVE  \A op \in Ops : Balanced(op, t, instr_map', printed', executed')
  <2>1. \A op \in Ops : Moves(op, stack, t, One(Instr, op))
    BY <1>1, <1>3, <1>13, MovesReturn DEF t
  <2>2. \A op \in Ops : Balanced(op, t, instr_map, printed, executed')
    BY <1>1, <1>6, <1>13, <2>1, OpsApart, ExecutedBalanced
  <2> QED BY <1>2, <2>2
<1>14. ASSUME tool = "bias"
       PROVE  BranchesBalanced(t, branch_count', printedBranch', branched')
  <2> DEFINE u == Instr.op = "br" /\ Len(InBlock(Active).succ) > 1
  <2>1. /\ Together(Bound, t) \in Nat /\ Together(BoundTaken, t) \in Nat
        /\ Together(Bound, stack) = Together(Bound, t) + Unit(u)
        /\ Together(BoundTaken, stack) = Together(BoundTaken, t) + Unit(u /\ Active.cond)
    BY <1>1, <1>3, <1>14, BoundEnds DEF t
  <2>2. Unit(u) = 0 /\ Unit(u /\ Active.cond) = 0
    BY <1>1 DEF Unit
  <2> HIDE DEF u
  <2>3. Together(Bound, stack) = Together(Bound, t)
        /\ Together(BoundTaken, stack) = Together(BoundTaken, t)
    BY <2>1, <2>2
  <2> QED BY <1>2, <1>3, <1>14, <2>3 DEF BranchesBalanced
<1>15. stack' = t /\ pc' \in {"run", "returned"} /\ (stack' = <<>> <=> pc' = "returned")
  BY <1>1, <1>9
<1> QED BY <1>2, <1>6, <1>8, <1>10, <1>11, <1>12, <1>13, <1>14, <1>15 DEF RunStep

\* A call of the runtime that counts no instruction keeps the balance.
LEMMA NotCountedBalanced ==
  ASSUME IInv, pc = "run", tool = "count", Instr.op \in {"print", "updateBranch", "printBranch"}
  PROVE  \A op \in Ops : Balanced(op, Forward, instr_map, printed, executed)
<1>1. /\ PlaceShape /\ CodeShape /\ StackShape /\ CountersShape /\ pc # "pass"
      /\ \A op \in Ops : Balanced(op, stack, instr_map, printed, executed)
      /\ stack \in Seq(Activations(program, code))
  BY Runs DEF StackShape
<1> TAKE op \in Ops
<1>2. executed[op] \in Nat
  BY <1>1 DEF CountersShape
<1>3. Moves(op, stack, Forward, One(Instr, op)) /\ One(Instr, op) = 0
  BY <1>1, MovesForward, OpsApart DEF One
<1>4. Forward \in Seq(Activations(program, code))
  BY <1>1, ForwardShape
<1> DEFINE z == 0
           ex == executed
           t == Forward
<1>5. /\ z \in Nat /\ ex[op] = executed[op] + z /\ Moves(op, stack, t, z)
      /\ t \in Seq(Activations(program, code))
  BY <1>2, <1>3, <1>4
<1> HIDE DEF z, ex, t
<1>6. Balanced(op, t, instr_map, printed, ex)
  BY <1>1, <1>5, StepBalanced
<1> QED BY <1>6 DEF ex, t

\* The counts of a block are added to the runtime's.
LEMMA UpdateStep ==
  ASSUME IInv, UpdateInstrInfo
  PROVE  RunStep
<1>1. pc = "run" /\ Instr.op = "update" /\ stack' = Forward
  BY DEF UpdateInstrInfo, CallingRuntime, Advance, Forward
<1>2. /\ instr_map' = Added(instr_map, Instr.counts) /\ branch_count' = branch_count
      /\ printed' = printed /\ printedBranch' = printedBranch /\ branched' = branched
      /\ executed' = executed
      /\ program' = program /\ tool' = tool /\ code' = code /\ pos' = pos /\ pc' = pc
  BY DEF UpdateInstrInfo, CallingRuntime
<1>3. /\ PlaceShape /\ CodeShape /\ StackShape /\ CountersShape
      /\ tool = "count" => \A op \in Ops : Balanced(op, stack, instr_map, printed, executed)
  BY <1>1, Runs
<1>4. tool = "count"
  <2>1. Active \in Activations(program, code) /\ Instr = CodeOf(Active)[Active.i]
    BY <1>1, <1>3, AtTop
  <2>2. /\ program \in Programs /\ Active.fn \in DOMAIN program
        /\ InBlock(Active) \in Blocks(program, Active.fn)
        /\ CodeOf(Active) = Instrumented(tool, InBlock(Active))
        /\ Active.i \in 1..Len(CodeOf(Active))
    BY <1>1, <1>3, <2>1, AtPlace
  <2>3. tool = "bias" => \A i \in 1..Len(CodeOf(Active)) : CodeOf(Active)[i].op # "update"
    BY <2>2, CountsOnce
  <2>4. tool \in {"count", "bias"}
    BY <1>3 DEF PlaceShape
  <2> QED BY <1>1, <2>1, <2>2, <2>3, <2>4
<1>5. \A op \in Ops : Balanced(op, Forward, instr_map', printed', executed')
  BY <1>1, <1>2, <1>3, <1>4, CountsBalanced
<1>6. (CountersShape)'
  <2> DEFINE c == InBlock(Active).code
             m == Added(instr_map, Counts(c))
  <2>1. Active \in Activations(program, code) /\ program \in Programs
    BY <1>1, <1>3, AtTop DEF PlaceShape
  <2>2. Active.fn \in DOMAIN program /\ InBlock(Active) \in Blocks(program, Active.fn)
    BY <1>1, <1>3, <2>1, AtPlace
  <2>3. c \in Seq(Entries(program, InBlock(Active))) /\ \A i \in 1..Len(c) : c[i].op \in Ops
    BY <2>1, <2>2, BlockShape
  <2> HIDE DEF c
  <2>4. DOMAIN c = 1..Len(c) /\ Len(c) \in Nat
    BY <2>3
  <2>5. OpsOf(c) \subseteq Ops
    BY <2>3, <2>4 DEF OpsOf
  <2>6. \A op \in OpsOf(c) : Times(op, c) \in Nat
    <3>1. \A op : Times(op, c) = Number(c, 1, Len(c), op)
      BY <2>4 DEF Times, Number, Places
    <3> DEFINE x == 1
               y == Len(c)
    <3>2. x \in Int /\ y \in Int
      BY <2>4
    <3> HIDE DEF x, y
    <3>3. \A op : Number(c, x, y, op) \in Nat
      BY <3>2, NumberType
    <3> QED BY <3>1, <3>3 DEF x, y
  <2>7. /\ DOMAIN m = DOMAIN instr_map \cup OpsOf(c) /\ m = [op \in DOMAIN m |-> m[op]]
        /\ \A op \in DOMAIN m :
             /\ op \notin OpsOf(c) => op \in DOMAIN instr_map /\ m[op] = instr_map[op]
             /\ op \in OpsOf(c) /\ op \notin DOMAIN instr_map => m[op] = Wrap(Times(op, c))
             /\ op \in OpsOf(c) /\ op \in DOMAIN instr_map =>
                  m[op] = Wrap(instr_map[op] + Times(op, c))
    BY DEF Added, Counts
  <2>8. \A x \in Nat : Wrap(x) \in Nat
    <3> TAKE x \in Nat
    <3>1. 0 \in Nat /\ Wrap(x) \in Nat
      BY WrapInside
    <3> QED BY <3>1
  <2>9. instr_map \in [DOMAIN instr_map -> Nat] /\ DOMAIN instr_map \subseteq Ops
    BY <1>3 DEF CountersShape
  <2> HIDE DEF m
  <2>10. ASSUME NEW op \in DOMAIN m PROVE m[op] \in Nat
    <3>1. CASE op \notin OpsOf(c)
      BY <2>7, <2>9, <3>1
    <3>2. CASE op \in OpsOf(c) /\ op \notin DOMAIN instr_map
      BY <2>6, <2>7, <2>8, <3>2
    <3>3. CASE op \in OpsOf(c) /\ op \in DOMAIN instr_map
      <4>1. instr_map[op] + Times(op, c) \in Nat
        BY <2>6, <2>9, <3>3
      <4> QED BY <2>7, <2>8, <3>3, <4>1
    <3> QED BY <3>1, <3>2, <3>3
  <2>11. m \in [DOMAIN m -> Nat] /\ DOMAIN m \subseteq Ops
    BY <2>5, <2>7, <2>9, <2>10
  <2>12. instr_map' = m
    BY <1>1, <1>2, <1>3, <1>4, MovesCounts, OpsApart DEF m, c
  <2> QED BY <1>2, <1>3, <2>11, <2>12 DEF CountersShape
<1> QED BY <1>1, <1>2, <1>4, <1>5, <1>6, ForwardStep

\* The runtime's counts are reported, and made anew.
LEMMA PrintStep ==
  ASSUME IInv, PrintOutInstrInfo
  PROVE  RunStep
<1>1. pc = "run" /\ Instr.op = "print" /\ stack' = Forward
  BY DEF PrintOutInstrInfo, CallingRuntime, Advance, Forward
<1>2. /\ instr_map' = Empty /\ branch_count' = branch_count
      /\ printed' = [op \in Ops |->
                     printed[op] + IF op \in DOMAIN instr_map THEN instr_map[op] ELSE 0]
      /\ printedBranch' = printedBranch /\ branched' = branched /\ executed' = executed
      /\ program' = program /\ tool' = tool /\ code' = code /\ pos' = pos /\ pc' = pc
  BY DEF PrintOutInstrInfo, CallingRuntime
<1>3. /\ PlaceShape /\ CodeShape /\ StackShape /\ CountersShape /\ pc # "pass"
      /\ tool = "count" => \A op \in Ops : Balanced(op, stack, instr_map, printed, executed)
      /\ stack \in Seq(Activations(program, code))
  BY <1>1, Runs DEF StackShape
<1>4. \A op \in Ops : /\ printed[op] \in Nat /\ executed[op] \in Nat
                      /\ op \in DOMAIN instr_map => instr_map[op] \in Nat
  BY <1>3 DEF CountersShape
<1>5. (CountersShape)'
  <2>1. printed' \in [Ops -> Nat]
    BY <1>2, <1>4
  <2>2. Empty \in [DOMAIN Empty -> Nat] /\ DOMAIN Empty \subseteq Ops
    BY DEF Empty
  <2> QED BY <1>2, <1>3, <2>1, <2>2 DEF CountersShape
<1>6. ASSUME tool = "count", NEW op \in Ops
      PROVE  Balanced(op, Forward, instr_map', printed', executed')
  <2> DEFINE t == Forward
             ex == executed
  <2>1. Balanced(op, t, instr_map, printed, ex)
    BY <1>1, <1>6, NotCountedBalanced
  <2> DEFINE v == IF op \in DOMAIN instr_map THEN instr_map[op] ELSE 0
             P == Together(Pend(op), t)
             L == Together(Lead(op), t)
  <2>2. Wrap(printed[op] + v + P) = Wrap(executed[op] + L)
    BY <2>1 DEF Balanced, ex
  <2>3. printed'[op] = printed[op] + v /\ v \in Nat
    BY <1>2, <1>4
  <2>4. op \notin DOMAIN Empty
    BY DEF Empty
  <2> HIDE DEF v, P, L
  <2>5. printed'[op] + 0 = printed[op] + v
    BY <1>4, <2>3
  <2>6. Wrap(printed'[op] + 0 + P) = Wrap(executed'[op] + L)
    BY <1>2, <2>2, <2>5
  <2> QED BY <1>2, <2>4, <2>6 DEF Balanced, P, L, t
<1>7. tool = "bias" => BranchesBalanced(Forward, branch_count', printedBranch', branched')
  BY <1>1, <1>2, BranchesSame
<1> QED BY <1>1, <1>2, <1>5, <1>6, <1>7, ForwardStep

\* A branch is counted.
LEMMA UpdateBranchStep ==
  ASSUME IInv, UpdateBranchInfo
  PROVE  RunStep
<1>1. pc = "run" /\ Instr.op = "updateBranch" /\ stack' = Forward
  BY DEF UpdateBranchInfo, CallingRuntime, Advance, Forward
<1>2. /\ instr_map' = instr_map /\ printed' = printed /\ executed' = executed
      /\ branch_count' = [taken |-> branch_count.taken + (IF Active.cond THEN 1 ELSE 0),
                          total |-> branch_count.total + 1]
      /\ printedBranch' = printedBranch /\ branched' = branched
      /\ program' = program /\ tool' = tool /\ code' = code /\ pos' = pos /\ pc' = pc
  BY DEF UpdateBranchInfo, CallingRuntime
<1>3. /\ PlaceShape /\ CodeShape /\ StackShape /\ CountersShape
      /\ tool = "count" => \A op \in Ops : Balanced(op, stack, instr_map, printed, executed)
      /\ tool = "bias" => BranchesBalanced(stack, branch_count, printedBranch, branched)
  BY <1>1, Runs
<1>4. /\ branch_count.taken \in Nat /\ branch_count.total \in Nat
      /\ printedBranch.taken \in Nat /\ printedBranch.total \in Nat
      /\ branched.taken \in Nat /\ branched.total \in Nat
  BY <1>3 DEF CountersShape
<1>5. (CountersShape)'
  <2>1. branch_count.taken + (IF Active.cond THEN 1 ELSE 0) \in Nat
        /\ branch_count.total + 1 \in Nat
    BY <1>4
  <2>2. branch_count' \in [taken : Nat, total : Nat]
    BY <1>2, <2>1
  <2> QED BY <1>2, <1>3, <2>2 DEF CountersShape
<1>6. ASSUME tool = "count"
      PROVE  \A op \in Ops : Balanced(op, Forward, instr_map', printed', executed')
  BY <1>1, <1>2, <1>3, <1>6, NotCountedBalanced
<1>7. ASSUME tool = "bias"
      PROVE  BranchesBalanced(Forward, branch_count', printedBranch', branched')
  <2> DEFINE c == Unit(Active.cond)
  <2>1. /\ Together(Bound, stack) \in Nat /\ Together(BoundTaken, stack) \in Nat
        /\ Together(Bound, Forward) = Together(Bound, stack) + Unit(Instr.op = "updateBranch")
        /\ Together(BoundTaken, Forward)
           = Together(BoundTaken, stack) + Unit(Instr.op = "updateBranch" /\ Active.cond)
    BY <1>1, <1>3, <1>7, BoundForward
  <2>2. Unit(Instr.op = "updateBranch") = 1 /\ Unit(Instr.op = "updateBranch" /\ Active.cond) = c
    BY <1>1 DEF Unit
  <2>3. branch_count'.taken = branch_count.taken + c /\ branch_count'.total = branch_count.total + 1
    BY <1>2 DEF Unit
  <2>4. c \in Nat
    BY DEF Unit
  <2> HIDE DEF c
  <2>5. /\ printedBranch.total + branch_count.total = branched.total + Together(Bound, stack)
        /\ printedBranch.taken + branch_count.taken = branched.taken + Together(BoundTaken, stack)
    BY <1>3, <1>7 DEF BranchesBalanced
  <2>6. printedBranch.total + branch_count'.total = branched.total + Together(Bound, Forward)
    BY <1>4, <2>1, <2>2, <2>3, <2>5
  <2>7. printedBranch.taken + branch_count'.taken = branched.taken + Together(BoundTaken, Forward)
    BY <1>4, <2>1, <2>2, <2>3, <2>4, <2>5
  <2> QED BY <1>2, <2>6, <2>7 DEF BranchesBalanced
<1> QED BY <1>1, <1>2, <1>5, <1>6, <1>7, ForwardStep

\* The branches are reported, and counted anew.
LEMMA PrintBranchStep ==
  ASSUME IInv, PrintOutBranchInfo
  PROVE  RunStep
<1>1. pc = "run" /\ Instr.op = "printBranch" /\ stack' = Forward
  BY DEF PrintOutBranchInfo, CallingRuntime, Advance, Forward
<1>2. /\ instr_map' = instr_map /\ printed' = printed /\ executed' = executed
      /\ printedBranch' = [taken |-> printedBranch.taken + branch_count.taken,
                           total |-> printedBranch.total + branch_count.total]
      /\ branch_count' = NoBranches /\ branched' = branched
      /\ program' = program /\ tool' = tool /\ code' = code /\ pos' = pos /\ pc' = pc
  BY DEF PrintOutBranchInfo, CallingRuntime
<1>3. /\ PlaceShape /\ CodeShape /\ StackShape /\ CountersShape
      /\ tool = "count" => \A op \in Ops : Balanced(op, stack, instr_map, printed, executed)
  BY <1>1, Runs
<1>4. /\ branch_count.taken \in Nat /\ branch_count.total \in Nat
      /\ printedBranch.taken \in Nat /\ printedBranch.total \in Nat
  BY <1>3 DEF CountersShape
<1>5. /\ printedBranch'.taken = printedBranch.taken + branch_count.taken
      /\ printedBranch'.total = printedBranch.total + branch_count.total
      /\ branch_count'.taken = 0 /\ branch_count'.total = 0
      /\ printedBranch' \in [taken : Nat, total : Nat]
         /\ branch_count' \in [taken : Nat, total : Nat]
  BY <1>2, <1>4 DEF NoBranches
<1>6. (CountersShape)'
  BY <1>2, <1>3, <1>5 DEF CountersShape
<1>7. ASSUME tool = "count"
      PROVE  \A op \in Ops : Balanced(op, Forward, instr_map', printed', executed')
  BY <1>1, <1>2, <1>3, <1>7, NotCountedBalanced
<1>8. ASSUME tool = "bias"
      PROVE  BranchesBalanced(Forward, branch_count', printedBranch', branched')
  <2>1. BranchesBalanced(Forward, branch_count, printedBranch, branched)
    BY <1>1, <1>8, BranchesSame
  <2>2. /\ printedBranch'.taken + branch_count'.taken = printedBranch.taken + branch_count.taken
        /\ printedBranch'.total + branch_count'.total = printedBranch.total + branch_count.total
    BY <1>4, <1>5
  <2> QED BY <1>2, <2>1, <2>2 DEF BranchesBalanced
<1> QED BY <1>1, <1>2, <1>6, <1>7, <1>8, ForwardStep

-----------------------------------------------------------------------------
(* The pass, and what it leaves to run.                                    *)

\* Nothing is executed and nothing counted, and no block is begun but the first.
NothingYet ==
  /\ stack = <<>> \/ \E c : stack = <<Activation(1, 1, c)>>
  /\ instr_map = Empty /\ executed = Zero /\ printed = Zero
  /\ branch_count = NoBranches /\ printedBranch = NoBranches /\ branched = NoBranches

\* Then all sums are zero.
LEMMA NothingYetBalanced == NothingYet => NothingLost /\ BranchesCounted
<1> SUFFICES ASSUME NothingYet PROVE NothingLost /\ BranchesCounted
  OBVIOUS
<1> DEFINE zeros == [k \in DOMAIN stack |-> 0]
<1>1. SumOf(zeros) = 0
  <2>1. <<>> \in Seq(Nat) /\ 0 \in Nat /\ Append(<<>>, 0) = <<0>>
    OBVIOUS
  <2>2. SumOf(<<>>) = 0 /\ SumOf(<<0>>) = 0
    <3> DEFINE z == 0
    <3>1. z \in Nat /\ <<>> \in Seq(Nat) /\ Append(<<>>, z) = <<z>>
      OBVIOUS
    <3> HIDE DEF z
    <3>2. SumOf(<<>>) = 0 /\ SumOf(<<z>>) = SumOf(<<>>) + z
      BY <3>1, SumOfAppend
    <3>3. SumOf(<<z>>) = 0 + z
      BY <3>2
    <3> QED BY <3>2, <3>3 DEF z
  <2>3. stack = <<>> => zeros = <<>>
    OBVIOUS
  <2>4. (\E c : stack = <<Activation(1, 1, c)>>) => zeros = <<0>>
    OBVIOUS
  <2> QED BY <2>2, <2>3, <2>4 DEF NothingYet
<1>2. \A k \in DOMAIN stack : stack[k].i = 1
  BY DEF NothingYet, Activation
<1>3. 1..(1 - 1) = {}
  OBVIOUS
<1>4. ASSUME NEW op
      PROVE  /\ SumOf([k \in DOMAIN stack |-> Uncounted(stack[k], op)]) = 0
             /\ SumOf([k \in DOMAIN stack |-> Counted(stack[k], op)]) = 0
  <2>1. \A a : Among(a, 1, 1 - 1, op) = 0
    BY <1>3, FS_EmptySet DEF Among
  <2>2. \A a : a.i = 1 => ~Updated(a)
    BY <1>3 DEF Updated
  <2>3. \A k \in DOMAIN stack : Uncounted(stack[k], op) = 0 /\ Counted(stack[k], op) = 0
    BY <1>2, <2>1, <2>2 DEF Uncounted, Counted
  <2>4. [k \in DOMAIN stack |-> Uncounted(stack[k], op)] = zeros
    BY <2>3
  <2>5. [k \in DOMAIN stack |-> Counted(stack[k], op)] = zeros
    BY <2>3
  <2> QED BY <1>1, <2>4, <2>5
<1>5. NothingLost
  <2>1. \A op \in Ops : op \notin DOMAIN instr_map /\ printed[op] = 0 /\ executed[op] = 0
    BY DEF NothingYet, Empty, Zero
  <2>2. \A op \in Ops : Wrap(printed[op] + 0 + 0) = Wrap(executed[op] + 0)
    BY <2>1
  <2> DEFINE U(op) == SumOf([k \in DOMAIN stack |-> Uncounted(stack[k], op)])
             C(op) == SumOf([k \in DOMAIN stack |-> Counted(stack[k], op)])
  <2>3. \A op \in Ops : U(op) = 0 /\ C(op) = 0
    BY <1>4
  <2>4. NothingLost <=>
          (tool = "count" => \A op \in Ops :
             Wrap(printed[op] + (IF op \in DOMAIN instr_map THEN instr_map[op] ELSE 0) + U(op))
             = Wrap(executed[op] + C(op)))
    BY DEF NothingLost, InAll
  <2> HIDE DEF U, C
  <2> QED BY <2>1, <2>2, <2>3, <2>4
<1>6. /\ InAll(LAMBDA a : IF Seen(a) THEN 1 ELSE 0) = 0
      /\ InAll(LAMBDA a : IF Seen(a) /\ a.cond THEN 1 ELSE 0) = 0
  <2>1. \A k \in DOMAIN stack : ~Seen(stack[k])
    BY <1>2 DEF Seen
  <2>2. [k \in DOMAIN stack |-> IF Seen(stack[k]) THEN 1 ELSE 0] = zeros
    BY <2>1
  <2>3. [k \in DOMAIN stack |-> IF Seen(stack[k]) /\ stack[k].cond THEN 1 ELSE 0] = zeros
    BY <2>1
  <2> QED BY <1>1, <2>2, <2>3 DEF InAll
<1>7. BranchesCounted
  <2>1. /\ printedBranch.total + branch_count.total = branched.total + 0
        /\ printedBranch.taken + branch_count.taken = branched.taken + 0
    BY DEF NothingYet, NoBranches
  <2> QED BY <1>6, <2>1 DEF BranchesCounted, Seen
<1> QED BY <1>5, <1>7

\* The counters of a run that did not begin are numbers.
LEMMA NothingYetCounts ==
  NothingYet => CountersShape
<1>1. /\ Empty \in [DOMAIN Empty -> Nat] /\ DOMAIN Empty \subseteq Ops
      /\ Zero \in [Ops -> Nat] /\ NoBranches \in [taken : Nat, total : Nat]
  BY DEF Empty, Zero, NoBranches
<1> QED BY <1>1 DEF NothingYet, CountersShape

\* The first state is as the invariant says.
LEMMA InitKeeps ==
  ASSUME Init
  PROVE  IInv
<1>1. NothingYet
  BY DEF Init, NothingYet
<1>2. PlaceShape
  <2>1. program \in Programs /\ pos = [fn |-> 1, block |-> 1] /\ tool \in {"count", "bias"}
        /\ pc = "pass"
    BY DEF Init
  <2>2. /\ Len(program) \in Nat \ {0} /\ DOMAIN program = 1..Len(program)
        /\ \A f \in DOMAIN program :
             Len(program[f]) \in Nat \ {0} /\ DOMAIN program[f] = 1..Len(program[f])
    BY <2>1, ProgramBlocks
  <2>3. 1 \in DOMAIN program /\ 1 \in DOMAIN program[1] /\ 1 \in Nat
    BY <2>2
  <2> QED BY <2>1, <2>3 DEF PlaceShape
<1>3. CodeShape
  <2>1. code = program /\ program \in Programs /\ pos = [fn |-> 1, block |-> 1] /\ pc = "pass"
    BY DEF Init
  <2>2. ASSUME NEW f \in DOMAIN program, NEW b \in DOMAIN program[f] PROVE ~Passed(f, b)
    <3>1. f \in Nat \ {0} /\ b \in Nat \ {0}
      BY <2>1, ProgramBlocks
    <3> QED BY <2>1, <3>1 DEF Passed
  <2>3. ASSUME NEW f \in DOMAIN program, NEW b \in DOMAIN program[f]
        PROVE  program[f][b] = [code |-> program[f][b].code, succ |-> program[f][b].succ]
    BY <2>1, ProgramBlocks DEF Blocks
  <2> QED BY <2>1, <2>2, <2>3 DEF CodeShape
<1>4. StackShape /\ Reported
  BY DEF Init, StackShape, Reported
<1>5. Fresh
  BY DEF Init, Fresh
<1> QED BY <1>1, <1>2, <1>3, <1>4, <1>5, NothingYetBalanced, NothingYetCounts DEF IInv

\* A program that the pass went through begins in its first block.
LEMMA Begins ==
  PlaceShape /\ CodeShape /\ pc # "pass" =>
    \A c \in BOOLEAN : Activation(1, 1, c) \in Activations(program, code)
<1> SUFFICES ASSUME PlaceShape, CodeShape, pc # "pass", NEW c \in BOOLEAN
             PROVE  Activation(1, 1, c) \in Activations(program, code)
  OBVIOUS
<1> DEFINE b == 1
<1>1. b \in DOMAIN program /\ b \in DOMAIN program[b]
  <2>1. program \in Programs
    BY DEF PlaceShape
  <2>2. /\ Len(program) \in Nat \ {0} /\ DOMAIN program = 1..Len(program)
        /\ \A f \in DOMAIN program :
             Len(program[f]) \in Nat \ {0} /\ DOMAIN program[f] = 1..Len(program[f])
    BY <2>1, ProgramBlocks
  <2> QED BY <2>2
<1> HIDE DEF b
<1>2. Activation(b, b, c) \in Activations(program, code)
  BY <1>1, ActivationShape
<1> QED BY <1>2 DEF b

\* The pass at one block.
LEMMA InstrumentStep ==
  ASSUME IInv, InstrumentBlock
  PROVE  IInv'
<1> DEFINE f0 == pos.fn
           b0 == pos.block
           X == IF tool = "count" THEN Counting(code[f0][b0]) ELSE Biasing(code[f0][b0])
<1>1. /\ pc = "pass" /\ program' = program /\ tool' = tool /\ executed' = executed
      /\ branched' = branched /\ instr_map' = instr_map /\ branch_count' = branch_count
      /\ printed' = printed /\ printedBranch' = printedBranch
      /\ code' = [code EXCEPT ![f0][b0].code = X]
  BY DEF InstrumentBlock, runtime
<1>2. \/ b0 < Len(program[f0]) /\ pos' = [pos EXCEPT !.block = @ + 1] /\ pc' = pc /\ stack' = stack
      \/ /\ ~(b0 < Len(program[f0])) /\ f0 < Len(program)
         /\ pos' = [fn |-> f0 + 1, block |-> 1] /\ pc' = pc /\ stack' = stack
      \/ /\ ~(b0 < Len(program[f0])) /\ ~(f0 < Len(program))
         /\ pc' = "run" /\ pos' = pos /\ \E c \in BOOLEAN : stack' = <<Activation(1, 1, c)>>
  BY DEF InstrumentBlock
<1>3. PlaceShape /\ CodeShape /\ StackShape /\ CountersShape /\ Fresh
  BY DEF IInv
<1>4. /\ program \in Programs /\ tool \in {"count", "bias"}
      /\ pos \in [fn : DOMAIN program, block : Nat] /\ f0 \in DOMAIN program
         /\ b0 \in DOMAIN program[f0]
  BY <1>3 DEF PlaceShape
<1>5. /\ Len(program) \in Nat \ {0} /\ DOMAIN program = 1..Len(program)
      /\ \A f \in DOMAIN program :
           /\ Len(program[f]) \in Nat \ {0} /\ DOMAIN program[f] = 1..Len(program[f])
           /\ \A b \in DOMAIN program[f] : program[f][b] \in Blocks(program, f)
  BY <1>4, ProgramBlocks
<1>6. \A f \in DOMAIN program : \A b \in DOMAIN program[f] :
        program[f][b] = [code |-> program[f][b].code, succ |-> program[f][b].succ]
  <2> TAKE f \in DOMAIN program
  <2> TAKE b \in DOMAIN program[f]
  <2>1. program[f][b] \in Blocks(program, f)
    BY <1>5
  <2> QED BY <2>1 DEF Blocks
<1>7. stack = <<>> /\ (stack' = <<>> \/ \E c \in BOOLEAN : stack' = <<Activation(1, 1, c)>>)
  BY <1>1, <1>2, <1>3 DEF StackShape
<1>8. pc' \in {"pass", "run"} /\ (stack' = <<>> <=> pc' = "pass")
  <2>1. \A a : <<a>> # <<>>
    OBVIOUS
  <2> QED BY <1>1, <1>2, <1>7, <2>1
<1>9. (NothingYet)'
  BY <1>1, <1>3, <1>7 DEF NothingYet, Fresh, Empty, Zero, NoBranches
<1>10. (PlaceShape)'
  <2>1. CASE b0 < Len(program[f0]) /\ pos' = [pos EXCEPT !.block = @ + 1] /\ pc' = pc
    <3>1. b0 + 1 \in DOMAIN program[f0] /\ b0 + 1 \in Nat
      BY <1>4, <1>5, <2>1
    <3>2. pos' \in [fn : DOMAIN program, block : Nat] /\ pos'.fn = f0 /\ pos'.block = b0 + 1
      BY <1>4, <2>1, <3>1
    <3> QED BY <1>1, <1>4, <2>1, <3>1, <3>2 DEF PlaceShape
  <2>2. CASE f0 < Len(program) /\ pos' = [fn |-> f0 + 1, block |-> 1] /\ pc' = pc
    <3>1. f0 + 1 \in DOMAIN program
      BY <1>4, <1>5, <2>2
    <3>2. 1 \in DOMAIN program[f0 + 1] /\ 1 \in Nat
      BY <1>5, <3>1
    <3>3. pos' \in [fn : DOMAIN program, block : Nat] /\ pos'.fn = f0 + 1 /\ pos'.block = 1
      BY <2>2, <3>1, <3>2
    <3> QED BY <1>1, <1>4, <2>2, <3>1, <3>2, <3>3 DEF PlaceShape
  <2>3. CASE pc' = "run" /\ pos' = pos
    BY <1>1, <1>4, <2>3 DEF PlaceShape
  <2> QED BY <1>2, <2>1, <2>2, <2>3
<1>11. ASSUME NEW f \in DOMAIN program, NEW b \in DOMAIN program[f]
       PROVE  Passed(f, b)' <=> Passed(f, b) \/ (f = f0 /\ b = b0)
  <2>1. /\ f \in Nat /\ b \in Nat /\ f0 \in Nat /\ b0 \in Nat
        /\ f <= Len(program) /\ b <= Len(program[f]) /\ b >= 1
        /\ Len(program) \in Nat /\ Len(program[f]) \in Nat /\ Len(program[f0]) \in Nat
    BY <1>4, <1>5
  <2>2. Passed(f, b) <=> f < f0 \/ (f = f0 /\ b < b0)
    BY <1>1 DEF Passed
  <2>3. CASE b0 < Len(program[f0]) /\ pos' = [pos EXCEPT !.block = @ + 1] /\ pc' = pc
    <3>1. pos'.fn = f0 /\ pos'.block = b0 + 1 /\ pc' = "pass"
      BY <1>1, <1>4, <2>3
    <3>2. Passed(f, b)' <=> f < f0 \/ (f = f0 /\ b < b0 + 1)
      BY <3>1 DEF Passed
    <3> HIDE DEF f0, b0
    <3> QED BY <2>1, <2>2, <3>2
  <2>4. CASE ~(b0 < Len(program[f0])) /\ pos' = [fn |-> f0 + 1, block |-> 1] /\ pc' = pc
    <3>1. pos'.fn = f0 + 1 /\ pos'.block = 1 /\ pc' = "pass"
      BY <1>1, <2>4
    <3>2. Passed(f, b)' <=> f < f0 + 1 \/ (f = f0 + 1 /\ b < 1)
      BY <3>1 DEF Passed
    <3> HIDE DEF f0, b0
    <3>3. f = f0 => b < b0 \/ b = b0
      BY <2>1, <2>4
    <3> QED BY <2>1, <2>2, <3>2, <3>3
  <2>5. CASE ~(b0 < Len(program[f0])) /\ ~(f0 < Len(program)) /\ pc' = "run"
    <3>1. Passed(f, b)'
      BY <2>5 DEF Passed
    <3> HIDE DEF f0, b0
    <3>2. f = f0 => b < b0 \/ b = b0
      BY <2>1, <2>5
    <3>3. f < f0 \/ f = f0
      BY <2>1, <2>5
    <3> QED BY <2>2, <3>1, <3>2, <3>3
  <2> QED BY <1>2, <2>3, <2>4, <2>5
<1>12. /\ DOMAIN code = DOMAIN program
       /\ \A f \in DOMAIN program : DOMAIN code[f] = DOMAIN program[f]
       /\ \A f \in DOMAIN program : \A b \in DOMAIN program[f] :
            code[f][b] = [code |-> IF Passed(f, b) THEN Instrumented(tool, program[f][b])
                                   ELSE program[f][b].code,
                          succ |-> program[f][b].succ]
  BY <1>3 DEF CodeShape
<1>13. code[f0][b0] = program[f0][b0] /\ X = Instrumented(tool, program[f0][b0])
  <2>1. ~Passed(f0, b0)
    <3>1. f0 \in Nat /\ b0 \in Nat
      BY <1>4, <1>5
    <3> QED BY <1>1, <3>1 DEF Passed
  <2>2. code[f0][b0] = [code |-> program[f0][b0].code, succ |-> program[f0][b0].succ]
    BY <1>4, <1>12, <2>1
  <2>3. code[f0][b0] = program[f0][b0]
    BY <1>4, <1>6, <2>2
  <2> QED BY <2>3 DEF Instrumented
<1> HIDE DEF f0, b0, X
<1>14. /\ DOMAIN code' = DOMAIN code
       /\ \A f \in DOMAIN program : DOMAIN code'[f] = DOMAIN code[f]
       /\ \A f \in DOMAIN program : \A b \in DOMAIN program[f] :
            f # f0 \/ b # b0 => code'[f][b] = code[f][b]
       /\ code'[f0][b0] = [code[f0][b0] EXCEPT !.code = X]
  BY <1>1, <1>4, <1>12
<1>15. code'[f0][b0] = [code |-> X, succ |-> program[f0][b0].succ]
  <2>1. program[f0][b0] = [code |-> program[f0][b0].code, succ |-> program[f0][b0].succ]
    BY <1>4, <1>6
  <2>2. [program[f0][b0] EXCEPT !.code = X] = [code |-> X, succ |-> program[f0][b0].succ]
    <3> DEFINE y == program[f0][b0].code
               z == program[f0][b0].succ
               r == program[f0][b0]
    <3>1. r = [code |-> y, succ |-> z]
      BY <2>1
    <3> HIDE DEF y, z, r
    <3>2. [r EXCEPT !.code = X] = [code |-> X, succ |-> z]
      BY <3>1
    <3> QED BY <3>2 DEF z, r
  <2> QED BY <1>13, <1>14, <2>2
<1>16. (CodeShape)'
  <2>1. ASSUME NEW f \in DOMAIN program, NEW b \in DOMAIN program[f]
        PROVE  code'[f][b] = [code |-> IF Passed(f, b)' THEN Instrumented(tool, program[f][b])
                                       ELSE program[f][b].code,
                              succ |-> program[f][b].succ]
    <3>1. CASE f = f0 /\ b = b0
      BY <1>11, <1>13, <1>15, <3>1
    <3>2. CASE ~(f = f0 /\ b = b0)
      <4>1. Passed(f, b)' <=> Passed(f, b)
        BY <1>11, <3>2
      <4>2. code'[f][b] = code[f][b]
        BY <1>14, <3>2
      <4> QED BY <1>12, <4>1, <4>2
    <3> QED BY <3>1, <3>2
  <2>2. DOMAIN code' = DOMAIN program
        /\ \A f \in DOMAIN program : DOMAIN code'[f] = DOMAIN program[f]
    BY <1>12, <1>14
  <2> QED BY <1>1, <2>1, <2>2 DEF CodeShape
<1>17. (NothingYet => NothingLost /\ BranchesCounted)'
  BY NothingYetBalanced, PTL
<1>18. (NothingYet => CountersShape)'
  BY NothingYetCounts, PTL
<1>19. (PlaceShape /\ CodeShape /\ pc # "pass" =>
          \A c \in BOOLEAN : Activation(1, 1, c) \in Activations(program, code))'
  BY Begins, PTL
<1>20. (StackShape)'
  <2>1. CASE stack' = <<>>
    <3>1. pc' = "pass"
      BY <1>8, <2>1
    <3> QED BY <2>1, <3>1 DEF StackShape
  <2>2. ASSUME NEW c \in BOOLEAN, stack' = <<Activation(1, 1, c)>> PROVE (StackShape)'
    <3>1. stack' # <<>> /\ pc' = "run"
      BY <1>8, <2>2
    <3>2. Activation(1, 1, c) \in Activations(program', code')
      BY <1>10, <1>16, <1>19, <3>1
    <3> DEFINE d == Activation(1, 1, c)
               A == Activations(program', code')
    <3>3. d \in A /\ stack' = <<d>>
      BY <2>2, <3>2
    <3> HIDE DEF d, A
    <3>4. stack' \in Seq(A) /\ Len(stack') = 1
      BY <3>3
    <3>5. 1..(Len(stack') - 1) = {}
      BY <3>4
    <3> QED BY <3>1, <3>4, <3>5 DEF StackShape, A
  <2> QED BY <1>7, <2>1, <2>2
<1>21. (Fresh)'
  BY <1>9 DEF Fresh, NothingYet
<1>22. (Reported)'
  <2>1. pc' # "returned"
    BY <1>8
  <2>2. stack' # <<>> => stack'[Len(stack')].i = 1
    <3>1. ASSUME NEW c, stack' = <<Activation(1, 1, c)>> PROVE stack'[Len(stack')].i = 1
      BY <3>1 DEF Activation
    <3> QED BY <1>7, <3>1
  <2> QED BY <2>1, <2>2 DEF Reported, Active
<1> QED BY <1>9, <1>10, <1>16, <1>17, <1>18, <1>20, <1>21, <1>22 DEF IInv

-----------------------------------------------------------------------------
(* The invariant, and what follows from it.                                *)

\* The invariant is inductive: one step for each action.
LEMMA NextKeeps ==
  IInv /\ [Next]_vars => IInv'
<1> SUFFICES ASSUME IInv, [Next]_vars PROVE IInv'
  OBVIOUS
<1>1. ASSUME pc = "run", RunStep PROVE IInv'
  BY <1>1, RunStepKeeps
<1>2. CASE InstrumentBlock
  BY <1>2, InstrumentStep
<1>3. CASE Compute
  <2>1. /\ Executing(Ops \ {"br", "ret"}) /\ Advance /\ pc = "run" /\ pc' = pc
        /\ UNCHANGED <<program, tool, code, pos, runtime, branched>>
    BY <1>3 DEF Compute, Executing
  <2> QED BY <1>1, <2>1, GoesOn
<1>4. CASE Call
  BY <1>1, <1>4, CallStep DEF Call, Executing
<1>5. CASE Exit
  <2>1. /\ Executing(Ops \ {"br", "ret"}) /\ Advance /\ pc = "run" /\ pc' = "exited"
        /\ UNCHANGED <<program, tool, code, pos, runtime, branched>>
    BY <1>5, OpsApart DEF Exit, Executing
  <2> QED BY <1>1, <2>1, GoesOn
<1>6. CASE Branch
  BY <1>1, <1>6, BranchStep DEF Branch, Executing
<1>7. CASE Return
  BY <1>1, <1>7, ReturnStep DEF Return, Executing
<1>8. CASE UpdateInstrInfo
  BY <1>1, <1>8, UpdateStep DEF UpdateInstrInfo, CallingRuntime
<1>9. CASE PrintOutInstrInfo
  BY <1>1, <1>9, PrintStep DEF PrintOutInstrInfo, CallingRuntime
<1>10. CASE UpdateBranchInfo
  BY <1>1, <1>10, UpdateBranchStep DEF UpdateBranchInfo, CallingRuntime
<1>11. CASE PrintOutBranchInfo
  BY <1>1, <1>11, PrintBranchStep DEF PrintOutBranchInfo, CallingRuntime
<1>12. CASE UNCHANGED vars
  <2>1. /\ program' = program /\ tool' = tool /\ code' = code /\ pos' = pos /\ pc' = pc
        /\ stack' = stack /\ instr_map' = instr_map /\ branch_count' = branch_count
        /\ printed' = printed /\ printedBranch' = printedBranch
        /\ executed' = executed /\ branched' = branched
    BY <1>12 DEF vars, runtime
  <2>2. (PlaceShape)'
    BY <2>1 DEF IInv, PlaceShape
  <2>3. (CodeShape)'
    BY <2>1 DEF IInv, CodeShape, Passed
  <2>4. (StackShape)'
    BY <2>1 DEF IInv, StackShape, Before, CodeOf
  <2>5. (CountersShape)' /\ (Fresh)'
    BY <2>1 DEF IInv, CountersShape, Fresh
  <2>6. (Reported)'
    BY <2>1 DEF IInv, Reported, Before, CodeOf, Active
  <2>7. (NothingLost)' /\ (BranchesCounted)'
    <3>1. stack \in Seq(Activations(program, code)) /\ NothingLost /\ BranchesCounted
      BY DEF IInv, StackShape
    <3>2. /\ tool = "count" => \A op \in Ops : Balanced(op, stack', instr_map', printed', executed')
          /\ tool = "bias" => BranchesBalanced(stack', branch_count', printedBranch', branched')
      BY <2>1, <3>1, AllBalanced
    <3> QED BY <2>1, <3>1, <3>2, AllBalancedNext
  <2> QED BY <2>2, <2>3, <2>4, <2>5, <2>6, <2>7 DEF IInv
<1> QED BY <1>2, <1>3, <1>4, <1>5, <1>6, <1>7, <1>8, <1>9, <1>10, <1>11, <1>12 DEF Next, Stopped

\* Every state a run reaches is as the invariant says.
THEOREM Invariance == Spec => []IInv
<1>1. Init => IInv
  BY InitKeeps
<1> QED BY <1>1, NextKeeps, PTL DEF Spec

\* No instruction of a program that counts is lost or counted twice: NothingLost.
THEOREM CountsAll == Spec => []NothingLost
<1>1. IInv => NothingLost
  BY DEF IInv
<1> QED BY <1>1, Invariance, PTL

\* Each branch is counted right before it is executed: BranchesCounted.
THEOREM BranchesAll == Spec => []BranchesCounted
<1>1. IInv => BranchesCounted
  BY DEF IInv
<1> QED BY <1>1, Invariance, PTL

\* When main returns everything is in the reports: AllReported.
THEOREM Reports == Spec => []AllReported
<1>1. IInv => AllReported
  <2> SUFFICES ASSUME IInv, pc = "returned"
               PROVE  /\ tool = "count" => \A op \in Ops : Wrap(printed[op]) = Wrap(executed[op])
                      /\ tool = "bias" => printedBranch = branched
    BY DEF AllReported
  <2>1. /\ PlaceShape /\ CodeShape /\ StackShape /\ CountersShape /\ NothingLost /\ BranchesCounted
        /\ tool = "count" => instr_map = Empty
        /\ tool = "bias" => branch_count = NoBranches
        /\ stack \in Seq(Activations(program, code)) /\ stack = <<>>
    BY DEF IInv, Reported, StackShape
  <2>2. \A w : Together(w, stack) = 0
    <3>1. \A w : [j \in DOMAIN stack |-> w[stack[j]]] = <<>>
      BY <2>1
    <3>2. SumOf(<<>>) = 0
      <4> DEFINE z == 0
      <4>1. z \in Nat /\ <<>> \in Seq(Nat)
        OBVIOUS
      <4> HIDE DEF z
      <4> QED BY <4>1, SumOfAppend
    <3> QED BY <3>1, <3>2 DEF Together
  <2>3. ASSUME tool = "count", NEW op \in Ops PROVE Wrap(printed[op]) = Wrap(executed[op])
    <3>1. Balanced(op, stack, instr_map, printed, executed)
      BY <2>1, <2>3, AllBalanced
    <3>2. op \notin DOMAIN instr_map
      BY <2>1, <2>3 DEF Empty
    <3>3. printed[op] \in Nat /\ executed[op] \in Nat
      BY <2>1 DEF CountersShape
    <3>4. Wrap(printed[op] + 0 + 0) = Wrap(executed[op] + 0)
      BY <2>2, <3>1, <3>2 DEF Balanced
    <3> QED BY <3>3, <3>4
  <2>4. ASSUME tool = "bias" PROVE printedBranch = branched
    <3>1. BranchesBalanced(stack, branch_count, printedBranch, branched)
      BY <2>1, <2>4, AllBalanced
    <3>2. branch_count.taken = 0 /\ branch_count.total = 0
      BY <2>1, <2>4 DEF NoBranches
    <3>3. printedBranch \in [taken : Nat, total : Nat] /\ branched \in [taken : Nat, total : Nat]
      BY <2>1 DEF CountersShape
    <3>4. printedBranch.total = branched.total /\ printedBranch.taken = branched.taken
      BY <2>2, <3>1, <3>2, <3>3 DEF BranchesBalanced
    <3> QED BY <3>3, <3>4
  <2> QED BY <2>3, <2>4
<1> QED BY <1>1, Invariance, PTL

\* The state has its types, and without the calls of the runtime the program is what it
\* was: TypeOK.
THEOREM TypeCorrect == Spec => []TypeOK
<1>1. IInv => TypeOK
  <2> SUFFICES ASSUME IInv PROVE TypeOK
    OBVIOUS
  <2>1. PlaceShape /\ CodeShape /\ StackShape /\ CountersShape
    BY DEF IInv
  <2>2. pos.fn \in DOMAIN program /\ pos.block \in DOMAIN program[pos.fn] /\ program \in Programs
    BY <2>1 DEF PlaceShape
  <2>3. ASSUME NEW k \in DOMAIN stack
        PROVE  stack[k].i \in DOMAIN code[stack[k].fn][stack[k].block].code
    <3> DEFINE a == stack[k]
    <3>1. stack \in Seq(Activations(program, code)) /\ a \in Activations(program, code)
      BY <2>1 DEF StackShape
    <3>2. pc # "pass"
      BY <2>1, <2>3 DEF StackShape
    <3> HIDE DEF a
    <3>3. /\ a.i \in 1..Len(CodeOf(a)) /\ a.fn \in DOMAIN program
          /\ CodeOf(a) = Instrumented(tool, InBlock(a))
          /\ InBlock(a) \in Blocks(program, a.fn)
      BY <2>1, <3>1, <3>2, AtPlace
    <3>4. DOMAIN CodeOf(a) = 1..Len(CodeOf(a))
      BY <2>1, <2>2, <3>3, InstrumentedEnds DEF PlaceShape
    <3> QED BY <3>3, <3>4 DEF CodeOf, a
  <2>4. ASSUME NEW f \in DOMAIN program, NEW b \in DOMAIN program[f]
        PROVE  code[f][b].succ = program[f][b].succ /\ Own(code[f][b].code) = program[f][b].code
    <3> DEFINE p == program[f][b]
    <3>1. p \in Blocks(program, f) /\ tool \in {"count", "bias"}
      BY <2>1, <2>2, ProgramBlocks DEF PlaceShape
    <3>2. code[f][b] = [code |-> IF Passed(f, b) THEN Instrumented(tool, p) ELSE p.code,
                        succ |-> p.succ]
      BY <2>1 DEF CodeShape
    <3> HIDE DEF p
    <3>3. Own(Instrumented(tool, p)) = p.code
      BY <2>2, <3>1, OwnInstrumented
    <3>4. Own(p.code) = p.code
      <4>1. p.code \in Seq(Entries(program, p))
            /\ \A i \in 1..Len(p.code) : p.code[i].op \notin RuntimeOps
        BY <2>2, <3>1, BlockShape
      <4> QED BY <4>1, OwnSame
    <3>5. code[f][b].succ = p.succ /\ Own(code[f][b].code) = p.code
      BY <3>2, <3>3, <3>4
    <3> QED BY <3>5 DEF p
  <2> QED BY <2>1, <2>2, <2>3, <2>4 DEF TypeOK, PlaceShape, StackShape, CountersShape
<1> QED BY <1>1, Invariance, PTL
=============================================================================
