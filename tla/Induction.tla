------------------------------- MODULE Induction -------------------------------
(***************************************************************************)
(* Induction and recursion over numbers and sequences, for the proofs about *)
(* loops.  The provers take no operator as an argument of a theorem, so     *)
(* what is shown by induction is given as the set of the numbers that have  *)
(* it, and the step of a loop as a function.                                *)
(***************************************************************************)
EXTENDS Integers, SequencesExt, FiniteSetTheorems, SequenceTheorems, WellFoundedInduction,
        TLAPS

\* A set of numbers has a least one: of the finite sets 1 .. n one has no
\* proper subset among the others.
LEMMA LeastNumber ==
  ASSUME NEW T \in SUBSET Nat, T # {}
  PROVE  \E x \in T : \A y \in T : x <= y
<1> DEFINE Below == {1 .. n : n \in T}
           R == StrictSubsetOrdering(Nat)
<1>1. IsWellFoundedOn(R, FiniteSubsetsOf(Nat))
  BY FS_StrictSubsetOrderingWellFounded
<1>2. Below \subseteq FiniteSubsetsOf(Nat) /\ Below # {}
  <2>1. ASSUME NEW n \in T PROVE 1 .. n \in FiniteSubsetsOf(Nat)
    <3>1. IsFiniteSet(1 .. n)
      BY FS_Interval
    <3>2. 1 .. n \in SUBSET Nat
      OBVIOUS
    <3> QED
      BY <3>1, <3>2, Zenon DEF FiniteSubsetsOf
  <2> QED
    BY <2>1
<1> HIDE DEF R
<1>3. PICK X \in Below : \A Y \in Below : ~(<<Y, X>> \in R)
  <2> HIDE DEF Below
  <2> QED
    BY <1>1, <1>2, WFMin, Zenon
<1>4. PICK x \in T : X = 1 .. x
  BY <1>3
<1>5. ASSUME NEW y \in T, y < x PROVE FALSE
  <2>1. 1 .. y \in Below
    OBVIOUS
  <2>2. 1 .. y \subseteq 1 .. x /\ x \in 1 .. x /\ x \notin 1 .. y
    BY <1>5
  <2>3. 1 .. y \in SUBSET Nat /\ 1 .. x \in SUBSET Nat /\ 1 .. y # 1 .. x
    BY <2>2
  <2>4. <<1 .. y, 1 .. x>> \in R
    BY <2>2, <2>3 DEF R, StrictSubsetOrdering
  <2> QED
    BY <1>3, <1>4, <2>1, <2>4
<1> QED
  BY <1>5

\* What holds of 0, and of a number when it holds of the one before, holds of all.
LEMMA Induct ==
  ASSUME NEW T, 0 \in T, \A n \in Nat : n \in T => n + 1 \in T
  PROVE  Nat \subseteq T
<1> DEFINE Not == Nat \ T
<1>1. SUFFICES ASSUME Not # {} PROVE FALSE
  OBVIOUS
<1>2. PICK x \in Not : \A y \in Not : x <= y
  BY <1>1, LeastNumber
<1>3. x - 1 \in Nat /\ x - 1 \in T
  BY <1>2
<1> QED
  BY <1>2, <1>3

\* The same up to a bound.
LEMMA InductUpTo ==
  ASSUME NEW N \in Nat, NEW T, 0 \in T, \A n \in 0 .. N - 1 : n \in T => n + 1 \in T
  PROVE  0 .. N \subseteq T
<1> DEFINE U == T \cup {n \in Nat : n > N}
<1>1. \A n \in Nat : n \in U => n + 1 \in U
  OBVIOUS
<1>2. 0 \in U
  OBVIOUS
<1> HIDE DEF U
<1>3. Nat \subseteq U
  BY <1>1, <1>2, Induct
<1> QED
  BY <1>3 DEF U

\* The same for what holds of a number when it holds of all the smaller ones.
LEMMA InductBelow ==
  ASSUME NEW T, \A n \in Nat : 0 .. n - 1 \subseteq T => n \in T
  PROVE  Nat \subseteq T
<1> DEFINE Not == Nat \ T
<1>1. SUFFICES ASSUME Not # {} PROVE FALSE
  OBVIOUS
<1>2. PICK x \in Not : \A y \in Not : x <= y
  BY <1>1, LeastNumber
<1>3. 0 .. x - 1 \subseteq T
  BY <1>2
<1> QED
  BY <1>2, <1>3

-----------------------------------------------------------------------------
(* Loops.                                                                  *)

\* A loop over the numbers up to N runs, and in one way only.
Runs(S, base, step, N) ==
  {f \in [0 .. N -> S] : f[0] = base /\ \A n \in 0 .. N - 1 : f[n + 1] = step[n][f[n]]}

LEMMA LoopRuns ==
  ASSUME NEW S, NEW base \in S, NEW step \in [Nat -> [S -> S]], NEW N \in Nat
  PROVE  Runs(S, base, step, N) # {}
<1> DEFINE T == {n \in Nat : Runs(S, base, step, n) # {}}
<1>1. 0 \in T
  <2>1. [n \in 0 .. 0 |-> base] \in Runs(S, base, step, 0)
    BY DEF Runs
  <2> QED
    BY <2>1
<1>2. ASSUME NEW n \in Nat, n \in T PROVE n + 1 \in T
  <2>1. PICK f : f \in Runs(S, base, step, n)
    BY <1>2
  <2> DEFINE g == [i \in 0 .. n + 1 |-> IF i = n + 1 THEN step[n][f[n]] ELSE f[i]]
  <2>2. f \in [0 .. n -> S] /\ f[0] = base /\ \A i \in 0 .. n - 1 : f[i + 1] = step[i][f[i]]
    BY <2>1 DEF Runs
  <2>3. step[n][f[n]] \in S
    BY <2>2
  <2>4. g \in [0 .. n + 1 -> S]
    BY <2>2, <2>3
  <2>5. g[0] = base
    BY <2>2
  <2>6. ASSUME NEW i \in 0 .. n PROVE g[i + 1] = step[i][g[i]]
    <3>1. CASE i = n
      <4>1. g[n + 1] = step[n][f[n]] /\ g[n] = f[n]
        OBVIOUS
      <4> QED
        BY <3>1, <4>1
    <3>2. CASE i # n
      BY <2>2, <3>2
    <3> QED
      BY <3>1, <3>2
  <2> HIDE DEF g
  <2>7. g \in Runs(S, base, step, n + 1)
    BY <2>4, <2>5, <2>6, n + 1 - 1 = n DEF Runs
  <2> QED
    BY <2>7
<1> HIDE DEF T
<1>3. Nat \subseteq T
  BY <1>1, <1>2, Induct
<1> QED
  BY <1>3 DEF T

\* A loop stays in a set that its steps do not leave.
LEMMA LoopStays ==
  ASSUME NEW S, NEW base \in S, NEW N \in Nat, NEW f, f[0] = base,
         \A n \in 0 .. N - 1 : f[n] \in S => f[n + 1] \in S
  PROVE  \A n \in 0 .. N : f[n] \in S
<1> DEFINE T == {n \in Nat : f[n] \in S}
<1>1. 0 \in T
  OBVIOUS
<1>2. ASSUME NEW n \in 0 .. N - 1, n \in T PROVE n + 1 \in T
  BY <1>2
<1> HIDE DEF T
<1>3. 0 .. N \subseteq T
  BY <1>1, <1>2, InductUpTo
<1> QED
  BY <1>3 DEF T

-----------------------------------------------------------------------------
(* Sequences that are put together.                                        *)

LEMMA AppendFrontLast ==
  ASSUME NEW S, NEW s \in Seq(S), NEW e \in S
  PROVE  /\ Append(s, e) \in Seq(S) /\ Append(s, e) # <<>>
         /\ Len(Append(s, e)) = Len(s) + 1
         /\ Front(Append(s, e)) = s /\ Last(Append(s, e)) = e
<1> DEFINE a == Append(s, e)
<1>1. /\ a \in Seq(S) /\ a # <<>> /\ Len(a) = Len(s) + 1 /\ Len(s) \in Nat
      /\ \A i \in 1 .. Len(s) : a[i] = s[i] /\ s[i] \in S
      /\ a[Len(s) + 1] = e
  BY AppendProperties, LenProperties, ElementOfSeq
<1> HIDE DEF a
<1>2. \A i \in 1 .. Len(s) : a[i] \in S
  BY <1>1
<1>3. /\ SubSeq(a, 1, Len(s)) \in Seq(S) /\ Len(SubSeq(a, 1, Len(s))) = Len(s)
      /\ \A i \in 1 .. Len(s) : SubSeq(a, 1, Len(s))[i] = a[i]
  <2>1. /\ SubSeq(a, 1, Len(s)) \in Seq(S)
        /\ Len(SubSeq(a, 1, Len(s))) = IF 1 <= Len(s) THEN Len(s) - 1 + 1 ELSE 0
        /\ \A i \in 1 .. Len(s) - 1 + 1 : SubSeq(a, 1, Len(s))[i] = a[1 + i - 1]
    BY <1>1, <1>2, SubSeqProperties
  <2> QED
    BY <1>1, <2>1
<1>4. SubSeq(a, 1, Len(s)) = s
  BY <1>1, <1>3, SeqEqual
<1>5. Front(a) = s /\ Last(a) = e
  BY <1>1, <1>4 DEF Front, Last
<1> QED
  BY <1>1, <1>5 DEF a

\* Every sequence but the empty one is of that form.
LEMMA SplitLast ==
  ASSUME NEW S, NEW s \in Seq(S), s # <<>>
  PROVE  /\ Front(s) \in Seq(S) /\ Last(s) \in S /\ s = Append(Front(s), Last(s))
         /\ Len(Front(s)) = Len(s) - 1
<1>1. PICK a \in Seq(S), e \in S : s = Append(a, e)
  BY SequenceEmptyOrAppend
<1> QED
  BY <1>1, AppendFrontLast, LenProperties

\* What holds of the empty sequence, and is kept when an element is appended,
\* holds of all.
LEMMA SeqInduct ==
  ASSUME NEW S, NEW T, <<>> \in T, \A s \in Seq(S), e \in S : s \in T => Append(s, e) \in T
  PROVE  Seq(S) \subseteq T
<1> DEFINE U == Seq(S)
           B == {n \in Nat : \A s \in U : Len(s) = n => s \in T}
<1>1. \A s \in U : Len(s) \in Nat /\ (Len(s) = 0 => s = <<>>)
  BY LenProperties, EmptySeq
<1>2. 0 \in B
  BY <1>1
<1>3. ASSUME NEW n \in Nat, n \in B PROVE n + 1 \in B
  <2>1. ASSUME NEW s \in U, Len(s) = n + 1 PROVE s \in T
    <3>1. s # <<>>
      BY <2>1, EmptySeq
    <3>2. /\ Front(s) \in Seq(S) /\ Last(s) \in S /\ s = Append(Front(s), Last(s))
          /\ Len(Front(s)) = Len(s) - 1
      BY <3>1, SplitLast
    <3>3. Len(Front(s)) = n
      BY <2>1, <3>2
    <3>4. Front(s) \in T
      BY <1>3, <3>2, <3>3, Zenon
    <3> QED
      BY <3>2, <3>4, Zenon
  <2> HIDE DEF U
  <2> QED
    BY <2>1
<1> HIDE DEF B
<1>4. Nat \subseteq B
  BY <1>2, <1>3, Induct
<1> QED
  BY <1>1, <1>4 DEF B

\* Concatenation and one element more.
LEMMA ConcatAppend ==
  ASSUME NEW S, NEW s \in Seq(S), NEW t \in Seq(S), NEW e \in S
  PROVE  s \o Append(t, e) = Append(s \o t, e)
<1>1. <<e>> \in Seq(S) /\ s \o t \in Seq(S)
  <2>1. <<e>> = Append(<<>>, e)
    OBVIOUS
  <2> QED
    BY <2>1, EmptySeq, AppendFrontLast, ConcatProperties
<1>2. Append(t, e) = t \o <<e>> /\ Append(s \o t, e) = (s \o t) \o <<e>>
  BY <1>1, AppendIsConcat, Zenon
<1>3. (s \o t) \o <<e>> = s \o (t \o <<e>>)
  BY <1>1, ConcatAssociative
<1> QED
  BY <1>2, <1>3, Zenon

\* What a sequence is that has an element more than another one.
LEMMA AppendIs ==
  ASSUME NEW S, NEW s \in Seq(S), NEW e \in S, NEW t \in Seq(S),
         Len(t) = Len(s) + 1, \A i \in 1 .. Len(s) : t[i] = s[i], t[Len(s) + 1] = e
  PROVE  Append(s, e) = t
<1>1. /\ Append(s, e) \in Seq(S) /\ Len(Append(s, e)) = Len(s) + 1 /\ Len(s) \in Nat
      /\ \A i \in 1 .. Len(s) : Append(s, e)[i] = s[i]
      /\ Append(s, e)[Len(s) + 1] = e
  BY AppendProperties, LenProperties
<1> DEFINE a == Append(s, e)
<1> HIDE DEF a
<1>2. \A i \in 1 .. Len(s) + 1 : a[i] = t[i]
  BY <1>1 DEF a
<1>3. a \in Seq(S) /\ Len(a) = Len(t) /\ \A i \in 1 .. Len(a) : a[i] = t[i]
  BY <1>1, <1>2 DEF a
<1>4. a = t
  BY <1>3, SeqEqual
<1> QED
  BY <1>4 DEF a

LEMMA AppendSix ==
  ASSUME NEW S, NEW a \in S, NEW b \in S, NEW c \in S, NEW d \in S, NEW e \in S, NEW f \in S
  PROVE  Append(Append(Append(Append(Append(Append(<<>>, a), b), c), d), e), f)
           = <<a, b, c, d, e, f>>
<1> DEFINE s1 == <<a>>
           s2 == <<a, b>>
           s3 == <<a, b, c>>
           s4 == <<a, b, c, d>>
           s5 == <<a, b, c, d, e>>
           s6 == <<a, b, c, d, e, f>>
<1>1. Append(<<>>, a) = s1
  OBVIOUS
<1>2. /\ s1 \in Seq(S) /\ s2 \in Seq(S) /\ Len(s2) = Len(s1) + 1
      /\ (\A i \in 1 .. Len(s1) : s2[i] = s1[i]) /\ s2[Len(s1) + 1] = b
  OBVIOUS
<1>3. /\ s3 \in Seq(S) /\ Len(s3) = Len(s2) + 1
      /\ (\A i \in 1 .. Len(s2) : s3[i] = s2[i]) /\ s3[Len(s2) + 1] = c
  OBVIOUS
<1>4. /\ s4 \in Seq(S) /\ Len(s4) = Len(s3) + 1
      /\ (\A i \in 1 .. Len(s3) : s4[i] = s3[i]) /\ s4[Len(s3) + 1] = d
  OBVIOUS
<1>5. /\ s5 \in Seq(S) /\ Len(s5) = Len(s4) + 1
      /\ (\A i \in 1 .. Len(s4) : s5[i] = s4[i]) /\ s5[Len(s4) + 1] = e
  OBVIOUS
<1>6. /\ s6 \in Seq(S) /\ Len(s6) = Len(s5) + 1
      /\ (\A i \in 1 .. Len(s5) : s6[i] = s5[i]) /\ s6[Len(s5) + 1] = f
  OBVIOUS
<1>7. s6 = <<a, b, c, d, e, f>>
  OBVIOUS
<1> HIDE DEF s1, s2, s3, s4, s5, s6
<1>8. Append(s1, b) = s2
  BY <1>2, AppendIs, Zenon
<1>9. Append(s2, c) = s3
  BY <1>2, <1>3, AppendIs, Zenon
<1>10. Append(s3, d) = s4
  BY <1>3, <1>4, AppendIs, Zenon
<1>11. Append(s4, e) = s5
  BY <1>4, <1>5, AppendIs, Zenon
<1>12. Append(s5, f) = s6
  BY <1>5, <1>6, AppendIs, Zenon
<1> QED
  BY <1>1, <1>7, <1>8, <1>9, <1>10, <1>11, <1>12, Zenon

\* The loop of FlattenSeq.
LEMMA FlattenRuns ==
  ASSUME NEW S, NEW seqs \in Seq(Seq(S))
  PROVE  \E f \in [0 .. Len(seqs) -> Seq(S)] :
           /\ f[0] = <<>>
           /\ \A n \in 0 .. Len(seqs) - 1 : f[n + 1] = f[n] \o seqs[n + 1]
           /\ FlattenSeq(seqs) = f[Len(seqs)]
<1> DEFINE N == Len(seqs)
           U == Seq(S)
           Cat(x, n) == IF n < N THEN x \o seqs[n + 1] ELSE x
           step == [n \in Nat |-> [x \in U |-> Cat(x, n)]]
           B(g) == [i \in 1 .. N |-> IF i = 1 THEN seqs[i] ELSE g[i - 1] \o seqs[i]]
<1>1. N \in Nat /\ \A i \in 1 .. N : seqs[i] \in U
  BY LenProperties, ElementOfSeq
<1>2. <<>> \in U /\ \A x \in U : <<>> \o x = x
  BY EmptySeq, ConcatEmptySeq
<1>3. \A x \in U, n \in Nat : Cat(x, n) \in U
  <2>1. ASSUME NEW n \in Nat, NEW x \in U PROVE Cat(x, n) \in U
    <3>1. CASE n < N
      BY <1>1, <3>1, ConcatProperties
    <3> QED
      BY <3>1
  <2> QED
    BY <2>1
<1>4. \A x, n : n \in 0 .. N - 1 => Cat(x, n) = x \o seqs[n + 1]
  BY <1>1
<1> HIDE DEF N, U, Cat
<1>5. step \in [Nat -> [U -> U]]
  BY <1>3
<1>6. \A n \in Nat, x \in U : step[n][x] = Cat(x, n)
  OBVIOUS
<1> HIDE DEF step
<1>7. Runs(U, <<>>, step, N) # {}
  BY <1>1, <1>2, <1>5, LoopRuns, Zenon
<1>8. PICK f \in [0 .. N -> U] :
         f[0] = <<>> /\ \A n \in 0 .. N - 1 : f[n + 1] = step[n][f[n]]
  BY <1>7, Zenon DEF Runs
<1>9. \A n \in 0 .. N - 1 : f[n + 1] = f[n] \o seqs[n + 1]
  <2>1. ASSUME NEW n \in 0 .. N - 1 PROVE f[n + 1] = f[n] \o seqs[n + 1]
    <3>1. f[n] \in U /\ n \in Nat
      BY <1>1
    <3>2. f[n + 1] = Cat(f[n], n)
      BY <1>6, <1>8, <3>1, Zenon
    <3> QED
      BY <1>4, <3>2, Zenon
  <2> QED
    BY <2>1
<1>10. CASE N = 0
  <2>1. seqs = <<>>
    BY <1>10, EmptySeq DEF N
  <2>2. FlattenSeq(seqs) = seqs
    BY <1>10, Zenon DEF FlattenSeq, N
  <2>3. FlattenSeq(seqs) = f[N]
    BY <1>8, <1>10, <2>1, <2>2, Zenon
  <2> QED
    BY <1>8, <1>9, <2>3, Zenon DEF N, U
<1>11. CASE N # 0
  <2> DEFINE h == [i \in 1 .. N |-> f[i]]
             c == CHOOSE g : g = B(g)
  <2>1. h = B(h)
    <3>1. ASSUME NEW i \in 1 .. N
          PROVE  f[i] = IF i = 1 THEN seqs[i] ELSE h[i - 1] \o seqs[i]
      <4>1. i - 1 \in 0 .. N - 1 /\ (i - 1) + 1 = i /\ (i # 1 => i - 1 \in 1 .. N)
        BY <1>1
      <4>2. f[i] = f[i - 1] \o seqs[i]
        BY <1>9, <4>1
      <4>3. CASE i = 1
        BY <1>1, <1>2, <1>8, <4>2, <4>3, 1 - 1 = 0
      <4>4. CASE i # 1
        BY <4>1, <4>2, <4>4
      <4> QED
        BY <4>3, <4>4
    <3> QED
      BY <3>1
  <2>2. c = B(c)
    <3> HIDE DEF B, h
    <3> QED
      BY <2>1
  <2>3. FlattenSeq(seqs) = c[N]
    BY <1>11, Zenon DEF FlattenSeq, N
  <2> HIDE DEF c
  <2>4. \A i \in 1 .. N : c[i] = IF i = 1 THEN seqs[i] ELSE c[i - 1] \o seqs[i]
    BY <2>2
  <2> DEFINE T == {n \in Nat : n + 1 <= N => c[n + 1] = f[n + 1]}
  <2>5. c[1] = f[1]
    <3>1. 1 \in 1 .. N /\ 0 \in 0 .. N - 1 /\ 0 + 1 = 1
      BY <1>1, <1>11
    <3>2. f[1] = <<>> \o seqs[1]
      BY <1>8, <1>9, <3>1, Zenon
    <3>3. <<>> \o seqs[1] = seqs[1]
      BY <1>1, <1>2, <3>1, Zenon
    <3>4. c[1] = seqs[1]
      BY <2>4, <3>1, Zenon
    <3> QED
      BY <3>2, <3>3, <3>4, Zenon
  <2>6. 0 \in T
    BY <2>5
  <2>7. ASSUME NEW n \in Nat, n \in T PROVE n + 1 \in T
    <3>1. CASE n + 2 <= N
      <4>1. n + 2 \in 1 .. N /\ n + 2 # 1 /\ n + 1 \in 0 .. N - 1 /\ (n + 2) - 1 = n + 1
            /\ (n + 1) + 1 = n + 2
        BY <1>1, <3>1
      <4>2. c[n + 1] = f[n + 1]
        BY <1>1, <2>7, <3>1
      <4>3. c[n + 2] = c[n + 1] \o seqs[n + 2]
        BY <2>4, <4>1, Zenon
      <4>4. f[n + 2] = f[n + 1] \o seqs[n + 2]
        BY <1>9, <4>1, Zenon
      <4>5. c[n + 2] = f[n + 2]
        BY <4>2, <4>3, <4>4, Zenon
      <4> QED
        BY <4>1, <4>5
    <3>2. CASE ~(n + 2 <= N)
      BY <1>1, <3>2
    <3> QED
      BY <3>1, <3>2
  <2> HIDE DEF T
  <2>8. Nat \subseteq T
    BY <2>6, <2>7, Induct
  <2>9. N - 1 \in T /\ (N - 1) + 1 = N
    BY <1>1, <1>11, <2>8
  <2>10. FlattenSeq(seqs) = f[N]
    BY <1>1, <2>3, <2>9 DEF T
  <2> QED
    BY <1>8, <1>9, <2>10, Zenon DEF N, U
<1> QED
  BY <1>10, <1>11

LEMMA FlattenAppend ==
  ASSUME NEW S, NEW seqs \in Seq(Seq(S)), NEW u \in Seq(S)
  PROVE  /\ FlattenSeq(seqs) \in Seq(S)
         /\ FlattenSeq(Append(seqs, u)) = FlattenSeq(seqs) \o u
<1> DEFINE N == Len(seqs)
           t == Append(seqs, u)
<1>1. /\ t \in Seq(Seq(S)) /\ N \in Nat /\ Len(t) = N + 1 /\ t[N + 1] = u
      /\ \A n \in 1 .. N : t[n] = seqs[n]
  <2> DEFINE U == Seq(S)
  <2>1. seqs \in Seq(U) /\ u \in U
    OBVIOUS
  <2> HIDE DEF U
  <2>2. /\ t \in Seq(U) /\ N \in Nat /\ Len(t) = N + 1 /\ t[N + 1] = u
        /\ \A n \in 1 .. N : t[n] = seqs[n]
    BY <2>1, AppendProperties, LenProperties
  <2> QED
    BY <2>2, Zenon DEF U
<1>2. PICK f \in [0 .. N -> Seq(S)] :
        /\ f[0] = <<>>
        /\ \A n \in 0 .. N - 1 : f[n + 1] = f[n] \o seqs[n + 1]
        /\ FlattenSeq(seqs) = f[N]
  BY FlattenRuns, Zenon
<1> HIDE DEF t
<1>3. PICK g \in [0 .. Len(t) -> Seq(S)] :
        /\ g[0] = <<>>
        /\ \A n \in 0 .. Len(t) - 1 : g[n + 1] = g[n] \o t[n + 1]
        /\ FlattenSeq(t) = g[Len(t)]
  BY <1>1, FlattenRuns, Zenon
<1> HIDE DEF N
<1> DEFINE T == {n \in 0 .. N : f[n] = g[n]}
<1>4. 0 \in T
  BY <1>1, <1>2, <1>3
<1>5. ASSUME NEW n \in 0 .. N - 1, n \in T PROVE n + 1 \in T
  <2>1. n + 1 \in 0 .. N /\ n + 1 \in 1 .. N /\ n \in 0 .. Len(t) - 1
    BY <1>1
  <2>2. f[n] = g[n]
    BY <1>5
  <2>3. f[n + 1] = g[n + 1]
    BY <1>1, <1>2, <1>3, <2>1, <2>2, Zenon
  <2> QED
    BY <2>1, <2>3
<1> HIDE DEF T
<1>6. 0 .. N \subseteq T
  BY <1>1, <1>4, <1>5, InductUpTo
<1>7. f[N] = g[N] /\ f[N] \in Seq(S) /\ N \in 0 .. Len(t) - 1
  <2>1. N \in 0 .. N /\ N \in 0 .. Len(t) - 1
    BY <1>1
  <2> QED
    BY <1>6, <2>1 DEF T
<1>8. FlattenSeq(t) = FlattenSeq(seqs) \o u
  BY <1>1, <1>2, <1>3, <1>7, Zenon
<1> QED
  BY <1>2, <1>7, <1>8, Zenon DEF t

\* What the elements of a sequence are each turned into, and that put together.
MapSeq(h, s) == [i \in DOMAIN s |-> h[s[i]]]
FlatMap(h, s) == FlattenSeq(MapSeq(h, s))

\* What one element more makes of them.
Maps(h, S, U) ==
  \A s \in Seq(S), e \in S :
    MapSeq(h, s) \in Seq(U) /\ MapSeq(h, Append(s, e)) = Append(MapSeq(h, s), h[e])
FlatMaps(h, S, R) ==
  /\ FlatMap(h, <<>>) = <<>>
  /\ \A s \in Seq(S), e \in S :
       FlatMap(h, s) \in Seq(R) /\ FlatMap(h, Append(s, e)) = FlatMap(h, s) \o h[e]

LEMMA MapAppend ==
  ASSUME NEW S, NEW U, NEW h \in [S -> U]
  PROVE  Maps(h, S, U)
<1> SUFFICES ASSUME NEW s \in Seq(S), NEW e \in S
             PROVE  /\ MapSeq(h, s) \in Seq(U)
                    /\ MapSeq(h, Append(s, e)) = Append(MapSeq(h, s), h[e])
  BY Zenon DEF Maps
<1>1. /\ Append(s, e) \in Seq(S) /\ Len(Append(s, e)) = Len(s) + 1 /\ Len(s) \in Nat
      /\ \A i \in 1 .. Len(s) : Append(s, e)[i] = s[i]
      /\ Append(s, e)[Len(s) + 1] = e
      /\ DOMAIN s = 1 .. Len(s) /\ \A i \in 1 .. Len(s) : s[i] \in S
  BY AppendProperties, LenProperties, ElementOfSeq
<1> DEFINE t == Append(s, e)
<1> HIDE DEF t
<1>2. DOMAIN t = 1 .. Len(s) + 1 /\ \A i \in 1 .. Len(s) + 1 : t[i] \in S
  BY <1>1, LenProperties, ElementOfSeq DEF t
<1>3. /\ MapSeq(h, s) \in Seq(U) /\ Len(MapSeq(h, s)) = Len(s)
      /\ \A i \in 1 .. Len(s) : MapSeq(h, s)[i] = h[s[i]]
  BY <1>1 DEF MapSeq
<1>4. /\ MapSeq(h, t) \in Seq(U) /\ Len(MapSeq(h, t)) = Len(s) + 1
      /\ \A i \in 1 .. Len(s) + 1 : MapSeq(h, t)[i] = h[t[i]]
  BY <1>1, <1>2 DEF MapSeq
<1> DEFINE m == MapSeq(h, s)
           n == MapSeq(h, t)
<1> HIDE DEF m, n
<1>5. /\ m \in Seq(U) /\ n \in Seq(U) /\ h[e] \in U /\ Len(n) = Len(m) + 1
      /\ (\A i \in 1 .. Len(m) : n[i] = m[i]) /\ n[Len(m) + 1] = h[e]
  BY <1>1, <1>3, <1>4 DEF m, n, t
<1>6. Append(m, h[e]) = n
  BY <1>5, AppendIs, Zenon
<1> QED
  BY <1>3, <1>6, Zenon DEF m, n, t

LEMMA FlatMapAppend ==
  ASSUME NEW S, NEW R, NEW h \in [S -> Seq(R)]
  PROVE  FlatMaps(h, S, R)
<1>1. FlatMap(h, <<>>) = <<>>
  <2>1. MapSeq(h, <<>>) = <<>> /\ Len(<<>>) = 0
    BY DEF MapSeq
  <2>2. FlattenSeq(<<>>) = <<>>
    BY <2>1, Zenon DEF FlattenSeq
  <2> QED
    BY <2>1, <2>2, Zenon DEF FlatMap
<1>2. Maps(h, S, Seq(R))
  BY MapAppend, Zenon
<1>3. ASSUME NEW s \in Seq(S), NEW e \in S
      PROVE  FlatMap(h, s) \in Seq(R) /\ FlatMap(h, Append(s, e)) = FlatMap(h, s) \o h[e]
  <2>1. /\ MapSeq(h, s) \in Seq(Seq(R))
        /\ MapSeq(h, Append(s, e)) = Append(MapSeq(h, s), h[e])
    BY <1>2, Zenon DEF Maps
  <2>2. h[e] \in Seq(R)
    OBVIOUS
  <2>3. /\ FlattenSeq(MapSeq(h, s)) \in Seq(R)
        /\ FlattenSeq(Append(MapSeq(h, s), h[e])) = FlattenSeq(MapSeq(h, s)) \o h[e]
    BY <2>1, <2>2, FlattenAppend, Zenon
  <2> QED
    BY <2>1, <2>3, Zenon DEF FlatMap
<1> QED
  BY <1>1, <1>3, Zenon DEF FlatMaps
=============================================================================
