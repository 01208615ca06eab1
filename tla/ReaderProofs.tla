------------------------------ MODULE ReaderProofs ------------------------------
(***************************************************************************)
(* Readers give what was written, for inputs of any length.                *)
(*                                                                         *)
(* gitlstree serves what git ls-tree wrote: the characters of a line make  *)
(* its elements, whatever was split before; the lines make the elements of *)
(* the listing; and from the elements the loop makes the entries of the    *)
(* tree but those with a space in the path.                                *)
(*                                                                         *)
(* cpiofs serves what was archived: its loop finds each header where the   *)
(* writer put it, as the paddings agree, so that after n turns it has the  *)
(* files among the first n members; and a name without contents finds the  *)
(* header of the last name of its inode.                                   *)
(*                                                                         *)
(* ext2 serves what mke2fs wrote: the parts of GetFileContent are pieces of *)
(* one sequence of blocks, so that a copy that starts at a block has the    *)
(* bytes of the file; and the walk is followed from its end backwards, an   *)
(* entry at a time, to where Mount starts it.                               *)
(***************************************************************************)
EXTENDS ReaderInputs, Induction

-----------------------------------------------------------------------------
(* The lines of git ls-tree.                                               *)

\* The provers do not know of a string that it is in STRING.
Char == STRING \cup {" ", "\t", "\n"}
Text == Seq(Char)
Texts == Seq(Text)
Started == Texts \ {<<>>}

\* What a character does to tokens of which l is the last: a letter makes l
\* longer, a separator ends it, or is skipped.
LEMMA TokenLetter ==
  ASSUME NEW a \in Texts, NEW l \in Text, NEW x \in Char, NEW c, NEW k \in BOOLEAN, x # c
  PROVE  Token(Append(a, l), x, c, k) = Append(a, Append(l, x))
<1>1. Front(Append(a, l)) = a /\ Last(Append(a, l)) = l
  BY AppendFrontLast DEF Texts
<1> QED
  BY <1>1, Zenon DEF Token

LEMMA TokenSkip ==
  ASSUME NEW a \in Texts, NEW c
  PROVE  Token(Append(a, <<>>), c, c, TRUE) = Append(a, <<>>)
<1>1. <<>> \in Text /\ a \in Seq(Text)
  BY EmptySeq DEF Texts, Text
<1>2. Last(Append(a, <<>>)) = <<>>
  BY <1>1, AppendFrontLast, Zenon
<1> QED
  BY <1>2, Zenon DEF Token

LEMMA TokenEnd ==
  ASSUME NEW a \in Texts, NEW l \in Text, NEW c, NEW k \in BOOLEAN, ~k \/ l # <<>>
  PROVE  Token(Append(a, l), c, c, k) = Append(Append(a, l), <<>>)
<1>1. Last(Append(a, l)) = l
  BY AppendFrontLast DEF Texts
<1> QED
  BY <1>1, Zenon DEF Token

LEMMA MoreText ==
  ASSUME NEW l \in Text, NEW x \in Char
  PROVE  Append(l, x) \in Text /\ Append(l, x) # <<>>
BY AppendFrontLast DEF Text

LEMMA ConcatText ==
  ASSUME NEW s \in Text, NEW t \in Text, NEW x \in Char
  PROVE  s \o t \in Text /\ s \o Append(t, x) = Append(s \o t, x)
BY ConcatAppend, ConcatProperties DEF Text

LEMMA MoreTexts ==
  ASSUME NEW a \in Texts, NEW l \in Text
  PROVE  /\ Append(a, l) \in Texts /\ Append(a, l) \in Started
         /\ Len(a) \in Nat /\ Len(Append(a, l)) = Len(a) + 1
<1>1. a \in Seq(Text)
  BY DEF Texts
<1>2. Append(a, l) \in Seq(Text) /\ Append(a, l) # <<>> /\ Len(Append(a, l)) = Len(a) + 1
  BY <1>1, AppendFrontLast, Zenon
<1>3. Len(a) \in Nat
  BY <1>1, LenProperties, Zenon
<1> QED
  BY <1>2, <1>3, Zenon DEF Texts, Started

LEMMA LastText ==
  ASSUME NEW r \in Started
  PROVE  \E a \in Texts, l \in Text : r = Append(a, l)
<1>1. r \in Seq(Text) /\ r # <<>>
  BY DEF Started, Texts
<1>2. Front(r) \in Seq(Text) /\ Last(r) \in Text /\ r = Append(Front(r), Last(r))
  BY <1>1, SplitLast, Zenon
<1> QED
  BY <1>2, Zenon DEF Texts

LEMMA NoText == <<>> \in Text /\ << <<>> >> \in Started /\ <<>> \in Texts
<1>1. <<>> \in Text /\ <<>> \in Texts
  BY EmptySeq DEF Text, Texts
<1>2. << <<>> >> = Append(<<>>, <<>>)
  OBVIOUS
<1> QED
  BY <1>1, <1>2, MoreTexts, Zenon

LEMMA TokenType ==
  ASSUME NEW r \in Started, NEW x \in Char, NEW c, NEW k \in BOOLEAN
  PROVE  /\ Token(r, x, c, k) \in Started
         /\ Len(Token(r, x, c, k)) = Len(r) \/ Len(Token(r, x, c, k)) = Len(r) + 1
<1>1. PICK a \in Texts, l \in Text : r = Append(a, l)
  BY LastText
<1>2. Append(l, x) \in Text /\ <<>> \in Text /\ r \in Texts
  BY <1>1, MoreText, MoreTexts, NoText, Zenon
<1>3. /\ Append(a, Append(l, x)) \in Started
      /\ Len(Append(a, Append(l, x))) = Len(r)
  BY <1>1, <1>2, MoreTexts, Zenon
<1>4. Append(r, <<>>) \in Started /\ Len(Append(r, <<>>)) = Len(r) + 1
  BY <1>2, MoreTexts, Zenon
<1>5. CASE x # c
  <2>1. Token(Append(a, l), x, c, k) = Append(a, Append(l, x))
    BY <1>5, TokenLetter, Zenon
  <2> QED
    BY <1>1, <1>3, <2>1, Zenon
<1>6. CASE x = c /\ k /\ l = <<>>
  <2>1. Token(Append(a, <<>>), c, c, TRUE) = Append(a, <<>>)
    BY TokenSkip, Zenon
  <2>2. k = TRUE
    BY <1>6
  <2>3. Token(r, x, c, k) = r
    BY <1>1, <1>6, <2>1, <2>2, Zenon
  <2> QED
    BY <2>3, Zenon
<1>7. CASE x = c /\ ~(k /\ l = <<>>)
  <2>1. Token(Append(a, l), c, c, k) = Append(Append(a, l), <<>>)
    BY <1>7, TokenEnd, Zenon
  <2>2. Token(r, x, c, k) = Append(r, <<>>)
    BY <1>1, <1>7, <2>1, Zenon
  <2> QED
    BY <1>4, <2>2, Zenon
<1> QED
  BY <1>5, <1>6, <1>7, Zenon

\* The loop of SplitStringUsing.
LEMMA TokensRun ==
  ASSUME NEW s \in Text, NEW c, NEW k \in BOOLEAN
  PROVE  \E f \in [0 .. Len(s) -> Started] :
           /\ f[0] = << <<>> >>
           /\ \A n \in 0 .. Len(s) - 1 : f[n + 1] = Token(f[n], s[n + 1], c, k)
           /\ Tokens(s, c, k) = f[Len(s)]
<1> DEFINE N == Len(s)
           base == << <<>> >>
           Step(r, n) == IF n < N THEN Token(r, s[n + 1], c, k) ELSE r
           step == [n \in Nat |-> [r \in Started |-> Step(r, n)]]
           B(g) == [n \in 0 .. N |-> IF n = 0 THEN base ELSE Token(g[n - 1], s[n], c, k)]
<1>1. N \in Nat /\ \A n \in 1 .. N : s[n] \in Char
  BY LenProperties, ElementOfSeq DEF Text
<1>2. base \in Started
  BY NoText, Zenon
<1> HIDE DEF N, base
<1>3. \A n \in 0 .. N - 1, r \in Started : Token(r, s[n + 1], c, k) \in Started
  <2>1. ASSUME NEW n \in 0 .. N - 1, NEW r \in Started
        PROVE  Token(r, s[n + 1], c, k) \in Started
    <3>1. s[n + 1] \in Char
      BY <1>1
    <3> QED
      BY <3>1, TokenType, Zenon
  <2> QED
    BY <2>1, Zenon
<1>4. \A n \in Nat, r \in Started : Step(r, n) \in Started
  <2>1. \A n \in Nat : n < N => n \in 0 .. N - 1
    BY <1>1
  <2> QED
    BY <1>3, <2>1, Zenon
<1>5. \A r, n : n \in 0 .. N - 1 => Step(r, n) = Token(r, s[n + 1], c, k)
  BY <1>1
<1> HIDE DEF Step
<1>6. step \in [Nat -> [Started -> Started]]
  BY <1>4
<1>7. \A n \in Nat, r \in Started : step[n][r] = Step(r, n)
  OBVIOUS
<1> HIDE DEF step
<1>8. Runs(Started, base, step, N) # {}
  BY <1>1, <1>2, <1>6, LoopRuns, Zenon
<1>9. PICK f \in [0 .. N -> Started] :
         f[0] = base /\ \A n \in 0 .. N - 1 : f[n + 1] = step[n][f[n]]
  BY <1>8, Zenon DEF Runs
<1>10. ASSUME NEW n \in 0 .. N - 1 PROVE f[n + 1] = Token(f[n], s[n + 1], c, k)
  <2>1. n \in Nat /\ f[n] \in Started
    BY <1>1
  <2> QED
    BY <1>5, <1>7, <1>9, <2>1, Zenon
<1>11. f = B(f)
  <2>1. ASSUME NEW n \in 0 .. N
        PROVE  f[n] = IF n = 0 THEN base ELSE Token(f[n - 1], s[n], c, k)
    <3>1. CASE n = 0
      BY <1>9, <3>1, Zenon
    <3>2. CASE n # 0
      <4>1. n - 1 \in 0 .. N - 1 /\ (n - 1) + 1 = n
        BY <1>1, <3>2
      <4>2. f[n] = Token(f[n - 1], s[n], c, k)
        BY <1>10, <4>1
      <4> QED
        BY <3>2, <4>2, Zenon
    <3> QED
      BY <3>1, <3>2, Zenon
  <2> QED
    BY <2>1
<1> DEFINE g == CHOOSE h : h = B(h)
<1>12. g = B(g)
  <2> HIDE DEF B
  <2> QED
    BY <1>11
<1>13. Tokens(s, c, k) = g[N]
  BY Zenon DEF Tokens, N, base
<1> HIDE DEF g
<1>14. /\ DOMAIN g = 0 .. N /\ g[0] = base
       /\ \A n \in 0 .. N : n # 0 => g[n] = Token(g[n - 1], s[n], c, k)
  BY <1>1, <1>12
<1>15. ASSUME NEW n \in 0 .. N - 1 PROVE g[n + 1] = Token(g[n], s[n + 1], c, k)
  <2>1. n + 1 \in 0 .. N /\ n + 1 # 0 /\ (n + 1) - 1 = n
    BY <1>1
  <2> QED
    BY <1>14, <2>1
<1>16. ASSUME NEW n \in 0 .. N - 1, g[n] \in Started PROVE g[n + 1] \in Started
  BY <1>3, <1>15, <1>16, Zenon
<1>17. \A n \in 0 .. N : g[n] \in Started
  BY <1>1, <1>2, <1>14, <1>16, LoopStays
<1>18. g \in [0 .. N -> Started]
  BY <1>12, <1>14, <1>17
<1> QED
  BY <1>13, <1>14, <1>15, <1>18, Zenon DEF N, base

LEMMA TokensStart ==
  ASSUME NEW c, NEW k \in BOOLEAN
  PROVE  Tokens(<<>>, c, k) = Append(<<>>, <<>>)
<1>1. <<>> \in Text /\ Len(<<>>) = 0
  BY NoText
<1>2. PICK f \in [0 .. Len(<<>>) -> Started] :
        /\ f[0] = << <<>> >>
        /\ \A n \in 0 .. Len(<<>>) - 1 : f[n + 1] = Token(f[n], <<>>[n + 1], c, k)
        /\ Tokens(<<>>, c, k) = f[Len(<<>>)]
  BY <1>1, TokensRun, Zenon
<1>3. Append(<<>>, <<>>) = << <<>> >>
  OBVIOUS
<1> QED
  BY <1>1, <1>2, <1>3, Zenon

LEMMA TokensNext ==
  ASSUME NEW s \in Text, NEW x \in Char, NEW c, NEW k \in BOOLEAN
  PROVE  /\ Tokens(s, c, k) \in Started
         /\ Tokens(Append(s, x), c, k) = Token(Tokens(s, c, k), x, c, k)
<1> DEFINE t == Append(s, x)
           N == Len(s)
<1>1. /\ t \in Text /\ N \in Nat /\ Len(t) = N + 1 /\ t[N + 1] = x
      /\ \A n \in 1 .. N : t[n] = s[n]
  <2>1. s \in Seq(Char)
    BY DEF Text
  <2>2. t \in Seq(Char) /\ Len(t) = N + 1 /\ t[N + 1] = x /\ \A n \in 1 .. N : t[n] = s[n]
    BY <2>1, AppendProperties
  <2>3. N \in Nat
    BY <2>1, LenProperties, Zenon
  <2> QED
    BY <2>2, <2>3, Zenon DEF Text
<1>2. PICK f \in [0 .. N -> Started] :
        /\ f[0] = << <<>> >>
        /\ \A n \in 0 .. N - 1 : f[n + 1] = Token(f[n], s[n + 1], c, k)
        /\ Tokens(s, c, k) = f[N]
  BY TokensRun, Zenon
<1>3. PICK g \in [0 .. Len(t) -> Started] :
        /\ g[0] = << <<>> >>
        /\ \A n \in 0 .. Len(t) - 1 : g[n + 1] = Token(g[n], t[n + 1], c, k)
        /\ Tokens(t, c, k) = g[Len(t)]
  BY <1>1, TokensRun, Zenon
<1> HIDE DEF t, N
<1> DEFINE T == {n \in 0 .. N : f[n] = g[n]}
<1>4. 0 \in T
  BY <1>1, <1>2, <1>3
<1>5. ASSUME NEW n \in 0 .. N - 1, n \in T PROVE n + 1 \in T
  <2>1. n + 1 \in 0 .. N /\ n + 1 \in 1 .. N /\ n \in 0 .. Len(t) - 1
    BY <1>1
  <2>2. f[n] = g[n]
    BY <1>5
  <2>3. f[n + 1] = g[n + 1]
    BY <1>1, <1>2, <1>3, <2>1, <2>2, Zenon
  <2> QED
    BY <2>1, <2>3
<1> HIDE DEF T
<1>6. 0 .. N \subseteq T
  BY <1>1, <1>4, <1>5, InductUpTo
<1>7. f[N] = g[N] /\ f[N] \in Started
  BY <1>1, <1>6 DEF T
<1>8. N \in 0 .. Len(t) - 1
  BY <1>1
<1>9. Tokens(t, c, k) = Token(Tokens(s, c, k), x, c, k)
  BY <1>1, <1>2, <1>3, <1>7, <1>8, Zenon
<1> QED
  BY <1>2, <1>7, <1>9, Zenon DEF t

\* The tokens of s are those of a and, not yet ended, l.
Cut(s, c, k, a, l) ==
  s \in Text /\ a \in Texts /\ l \in Text /\ Tokens(s, c, k) = Append(a, l)

LEMMA CutStart ==
  ASSUME NEW c, NEW k \in BOOLEAN
  PROVE  Cut(<<>>, c, k, <<>>, <<>>)
BY TokensStart, NoText, Zenon DEF Cut

LEMMA CutLetter ==
  ASSUME NEW s, NEW c, NEW k \in BOOLEAN, NEW a, NEW l, Cut(s, c, k, a, l),
         NEW x \in Char, x # c
  PROVE  Cut(Append(s, x), c, k, a, Append(l, x))
<1>1. s \in Text /\ a \in Texts /\ l \in Text /\ Tokens(s, c, k) = Append(a, l)
  BY Zenon DEF Cut
<1>2. Append(s, x) \in Text /\ Append(l, x) \in Text
  BY <1>1, MoreText, Zenon
<1>3. Tokens(Append(s, x), c, k) = Token(Tokens(s, c, k), x, c, k)
  BY <1>1, TokensNext, Zenon
<1>4. Token(Append(a, l), x, c, k) = Append(a, Append(l, x))
  BY <1>1, TokenLetter, Zenon
<1> QED
  BY <1>1, <1>2, <1>3, <1>4, Zenon DEF Cut

LEMMA CutEnd ==
  ASSUME NEW s, NEW c \in Char, NEW k \in BOOLEAN, NEW a, NEW l, Cut(s, c, k, a, l),
         ~k \/ l # <<>>
  PROVE  Cut(Append(s, c), c, k, Append(a, l), <<>>)
<1>1. s \in Text /\ a \in Texts /\ l \in Text /\ Tokens(s, c, k) = Append(a, l)
  BY Zenon DEF Cut
<1>2. Append(s, c) \in Text /\ Append(a, l) \in Texts /\ <<>> \in Text
  BY <1>1, MoreText, MoreTexts, NoText, Zenon
<1>3. Tokens(Append(s, c), c, k) = Token(Tokens(s, c, k), c, c, k)
  BY <1>1, TokensNext, Zenon
<1>4. Token(Append(a, l), c, c, k) = Append(Append(a, l), <<>>)
  BY <1>1, TokenEnd, Zenon
<1> QED
  BY <1>1, <1>2, <1>3, <1>4, Zenon DEF Cut

LEMMA CutSkip ==
  ASSUME NEW s, NEW c \in Char, NEW k \in BOOLEAN, NEW a, Cut(s, c, k, a, <<>>), k
  PROVE  Cut(Append(s, c), c, k, a, <<>>)
<1>1. s \in Text /\ a \in Texts /\ <<>> \in Text /\ Tokens(s, c, k) = Append(a, <<>>)
  BY Zenon DEF Cut
<1>2. Append(s, c) \in Text
  BY <1>1, MoreText, Zenon
<1>3. Tokens(Append(s, c), c, k) = Token(Tokens(s, c, k), c, c, k)
  BY <1>1, TokensNext, Zenon
<1>4. k = TRUE
  OBVIOUS
<1>5. Token(Append(a, <<>>), c, c, TRUE) = Append(a, <<>>)
  BY <1>1, TokenSkip, Zenon
<1> QED
  BY <1>1, <1>2, <1>3, <1>4, <1>5, Zenon DEF Cut

\* What has no separator in it makes the last token longer.
LEMMA CutWord ==
  ASSUME NEW s, NEW c, NEW k \in BOOLEAN, NEW a, NEW l, Cut(s, c, k, a, l),
         NEW w \in Seq(Char \ {c})
  PROVE  Cut(s \o w, c, k, a, l \o w)
<1> DEFINE L == Char \ {c}
           T == {v \in Text : Cut(s \o v, c, k, a, l \o v)}
<1>1. s \in Text /\ l \in Text
  BY Zenon DEF Cut
<1>2. <<>> \in T
  <2>1. <<>> \in Text /\ s \o <<>> = s /\ l \o <<>> = l
    BY <1>1, NoText, ConcatEmptySeq DEF Text
  <2> QED
    BY <2>1, Zenon
<1>3. ASSUME NEW v \in Seq(L), NEW x \in L, v \in T PROVE Append(v, x) \in T
  <2>1. x \in Char /\ x # c
    OBVIOUS
  <2>2. v \in Text /\ Cut(s \o v, c, k, a, l \o v)
    BY <1>3, Zenon
  <2> HIDE DEF T, L
  <2>3. Cut(Append(s \o v, x), c, k, a, Append(l \o v, x))
    BY <2>1, <2>2, CutLetter, Zenon
  <2>4. s \o Append(v, x) = Append(s \o v, x) /\ l \o Append(v, x) = Append(l \o v, x)
    BY <1>1, <2>1, <2>2, ConcatText, Zenon
  <2>5. Append(v, x) \in Text
    BY <2>1, <2>2, MoreText, Zenon
  <2> QED
    BY <2>3, <2>4, <2>5, Zenon DEF T
<1> HIDE DEF T
<1>4. Seq(L) \subseteq T
  <2> HIDE DEF L
  <2> QED
    BY <1>2, <1>3, SeqInduct, Zenon
<1>5. w \in T
  BY <1>4
<1> QED
  BY <1>5 DEF T

\* A word and the separator after it.
LEMMA CutWordEnd ==
  ASSUME NEW s, NEW c \in Char, NEW k \in BOOLEAN, NEW a, Cut(s, c, k, a, <<>>),
         NEW x \in Char, x # c
  PROVE  Cut(Append(Append(s, x), c), c, k, Append(a, <<x>>), <<>>)
<1>1. Cut(Append(s, x), c, k, a, Append(<<>>, x))
  BY CutLetter, Zenon
<1>2. Append(<<>>, x) = <<x>> /\ <<x>> # <<>>
  OBVIOUS
<1>3. Cut(Append(s, x), c, k, a, <<x>>)
  BY <1>1, <1>2, Zenon
<1> QED
  BY <1>2, <1>3, CutEnd, Zenon

LEMMA RangeAppend ==
  ASSUME NEW S, NEW s \in Seq(S), NEW e \in S
  PROVE  Range(Append(s, e)) = Range(s) \cup {e}
<1>1. /\ Append(s, e) \in Seq(S) /\ Len(Append(s, e)) = Len(s) + 1 /\ Len(s) \in Nat
      /\ \A i \in 1 .. Len(s) : Append(s, e)[i] = s[i]
      /\ Append(s, e)[Len(s) + 1] = e
  BY AppendProperties, LenProperties
<1>2. /\ Range(s) = {s[i] : i \in 1 .. Len(s)}
      /\ Range(Append(s, e)) = {Append(s, e)[i] : i \in 1 .. Len(s) + 1}
  BY <1>1, RangeEquality
<1> DEFINE t == Append(s, e)
<1> HIDE DEF t
<1>3. ASSUME NEW x PROVE x \in {t[i] : i \in 1 .. Len(s) + 1}
                         <=> x \in {s[i] : i \in 1 .. Len(s)} \/ x = e
  BY <1>1 DEF t
<1> QED
  BY <1>2, <1>3 DEF t

\* A line up to the padding of the size, up to the path, and all of it but the newline.
Fields(e) ==
  <<e.mode, " ", e.type, " ", e.sha, " ">> \o (IF e.size = "1234567" THEN <<>> ELSE <<" ">>)
BeforePath(e) == Fields(e) \o <<e.size, "\t">>
LineBody(e) == BeforePath(e) \o e.path
Three(e) == Append(Append(Append(<<>>, <<e.mode>>), <<e.type>>), <<e.sha>>)

LEMMA EntryType ==
  ASSUME NEW e \in GitEntry
  PROVE  /\ \A x \in {e.mode, e.type, e.sha, e.size} :
              x \in Char /\ x # " " /\ x # "\t" /\ x # "\n"
         /\ e.path \in Seq(Char \ {"\t", "\n"}) /\ e.path # <<>> /\ e.path[1] # "/"
         /\ e.type = "commit" <=> e.size = "-"
<1>1. /\ e.mode \in Word /\ e.type \in Word /\ e.sha \in Word /\ e.size \in Word
      /\ e.path \in GitPath /\ (e.type = "commit" <=> e.size = "-")
  BY DEF GitEntry
<1>2. \A x \in Word : x \in Char /\ x # " " /\ x # "\t" /\ x # "\n"
  BY DEF Word, Char
<1>3. e.path \in Seq(STRING \ {"\t", "\n"}) /\ e.path # <<>> /\ e.path[1] # "/"
  BY <1>1 DEF GitPath
<1>4. STRING \ {"\t", "\n"} \subseteq Char \ {"\t", "\n"}
  BY Zenon DEF Char
<1>5. e.path \in Seq(Char \ {"\t", "\n"})
  BY <1>3, <1>4, SeqMonotonic, Zenon
<1> QED
  BY <1>1, <1>2, <1>3, <1>5, Zenon

LEMMA PathText ==
  ASSUME NEW e \in GitEntry
  PROVE  e.path \in Text
<1>1. e.path \in Seq(Char \ {"\t", "\n"}) /\ Char \ {"\t", "\n"} \subseteq Char
  BY EntryType, Zenon
<1>2. e.path \in Seq(Char)
  BY <1>1, SeqMonotonic, Zenon
<1> QED
  BY <1>2, Zenon DEF Text

LEMMA Chars == /\ " " \in Char /\ "\t" \in Char /\ "\n" \in Char
               /\ " " # "\t" /\ " " # "\n" /\ "\t" # "\n"
BY DEF Char

LEMMA FieldsTokens ==
  ASSUME NEW e \in GitEntry, NEW k \in BOOLEAN, k
  PROVE  Cut(Fields(e), " ", k, Three(e), <<>>)
<1> DEFINE c == " "
           o == <<>>
           s1 == Append(Append(o, e.mode), c)
           s2 == Append(Append(s1, e.type), c)
           s3 == Append(Append(s2, e.sha), c)
           a1 == Append(o, <<e.mode>>)
           a2 == Append(a1, <<e.type>>)
           a3 == Append(a2, <<e.sha>>)
<1>1. /\ e.mode \in Char /\ e.type \in Char /\ e.sha \in Char
      /\ e.mode # c /\ e.type # c /\ e.sha # c
  BY EntryType
<1>2. c \in Char
  BY Chars
<1>3. s3 = <<e.mode, " ", e.type, " ", e.sha, " ">>
  <2> DEFINE t == <<e.mode, c, e.type, c, e.sha, c>>
  <2> HIDE DEF c
  <2>1. s3 = t
    BY <1>1, <1>2, AppendSix
  <2> QED
    BY <2>1, Zenon DEF c
<1>4. a3 = Three(e)
  BY DEF Three
<1>5. Cut(o, c, k, o, <<>>)
  BY CutStart, Zenon
<1> HIDE DEF c, o
<1>6. Cut(s1, c, k, a1, <<>>)
  BY <1>1, <1>2, <1>5, CutWordEnd, Zenon
<1> HIDE DEF s1, a1
<1>7. Cut(s2, c, k, a2, <<>>)
  BY <1>1, <1>2, <1>6, CutWordEnd, Zenon
<1> HIDE DEF s2, a2
<1>8. Cut(s3, c, k, a3, <<>>)
  BY <1>1, <1>2, <1>7, CutWordEnd, Zenon
<1> HIDE DEF s3, a3
<1>9. Cut(Append(s3, c), c, k, a3, <<>>)
  BY <1>2, <1>8, CutSkip, Zenon
<1>10. s3 \o <<>> = s3 /\ s3 \o <<c>> = Append(s3, c)
  <2>1. s3 \in Seq(Char)
    BY <1>8 DEF Cut, Text
  <2> QED
    BY <1>2, <2>1, ConcatEmptySeq, AppendIsConcat
<1>11. Fields(e) = s3 \o (IF e.size = "1234567" THEN <<>> ELSE <<c>>)
  BY <1>3, Zenon DEF Fields, c
<1>12. CASE e.size = "1234567"
  <2>1. Fields(e) = s3
    BY <1>10, <1>11, <1>12, Zenon
  <2> QED
    BY <1>4, <1>8, <2>1, Zenon DEF c
<1>13. CASE e.size # "1234567"
  <2>1. Fields(e) = Append(s3, c)
    BY <1>10, <1>11, <1>13, Zenon
  <2> QED
    BY <1>4, <1>9, <2>1, Zenon DEF c
<1> QED
  BY <1>12, <1>13, Zenon

LEMMA BeforeTokens ==
  ASSUME NEW e \in GitEntry, NEW k \in BOOLEAN, k
  PROVE  Cut(BeforePath(e), " ", k, Three(e), <<e.size, "\t">>)
<1> DEFINE w == <<e.size, "\t">>
           c == " "
<1>1. Cut(Fields(e), c, k, Three(e), <<>>)
  BY FieldsTokens, Zenon
<1>2. e.size \in Char \ {c} /\ "\t" \in Char \ {c}
  BY EntryType, Chars
<1> HIDE DEF c
<1>3. w \in Seq(Char \ {c})
  BY <1>2
<1>4. <<>> \o w = w
  BY <1>3, ConcatEmptySeq
<1>5. BeforePath(e) = Fields(e) \o w
  BY Zenon DEF BeforePath
<1> HIDE DEF w
<1>6. Cut(Fields(e) \o w, c, k, Three(e), <<>> \o w)
  BY <1>1, <1>3, CutWord, Zenon
<1> QED
  BY <1>4, <1>5, <1>6, Zenon DEF c, w

\* Whatever follows ends no fewer tokens.
LEMMA CutMore ==
  ASSUME NEW s, NEW c \in Char, NEW k \in BOOLEAN, NEW a, NEW l, Cut(s, c, k, a, l),
         NEW x \in Char
  PROVE  \E b, m : Cut(Append(s, x), c, k, b, m) /\ Len(b) >= Len(a)
<1>1. a \in Texts /\ l \in Text
  BY Zenon DEF Cut
<1>2. Len(a) \in Nat /\ Len(Append(a, l)) = Len(a) + 1
  BY <1>1, MoreTexts, Zenon
<1>3. Len(a) >= Len(a) /\ Len(Append(a, l)) >= Len(a)
  BY <1>2
<1>4. CASE x # c
  BY <1>3, <1>4, CutLetter, Zenon
<1>5. CASE x = c /\ ~(k /\ l = <<>>)
  BY <1>3, <1>5, CutEnd, Zenon
<1>6. CASE x = c /\ k /\ l = <<>>
  BY <1>3, <1>6, CutSkip, Zenon
<1> QED
  BY <1>4, <1>5, <1>6, Zenon

LEMMA ConcatTexts ==
  ASSUME NEW s \in Text, NEW t \in Text
  PROVE  s \o t \in Text /\ (s # <<>> \/ t # <<>> => s \o t # <<>>)
BY ConcatProperties, ConcatEqualIffEmpty DEF Text

\* A line without its newline: the path is in the fourth element, unless there
\* is a space in it, when there are more of them.
LEMMA BodyTokens ==
  ASSUME NEW e \in GitEntry, NEW k \in BOOLEAN, k
  PROVE  /\ " " \notin Range(e.path) =>
              Cut(LineBody(e), " ", k, Three(e), <<e.size, "\t">> \o e.path)
         /\ " " \in Range(e.path) =>
              \E a, l : Cut(LineBody(e), " ", k, a, l) /\ Len(a) >= 4
<1> DEFINE c == " "
           s == BeforePath(e)
           w == <<e.size, "\t">>
           a3 == Three(e)
           Plain(p) == c \notin Range(p) => Cut(s \o p, c, k, a3, w \o p)
           Spaced(p) == c \in Range(p) => \E a, l : Cut(s \o p, c, k, a, l) /\ Len(a) >= 4
           T == {p \in Text : Plain(p) /\ Spaced(p)}
<1>1. Cut(s, c, k, a3, w)
  BY BeforeTokens, Zenon
<1>2. c \in Char /\ w # <<>>
  BY Chars
<1>3. Len(a3) = 3
  BY DEF Three
<1> HIDE DEF c, s, w, a3
<1>4. s \in Text /\ w \in Text /\ a3 \in Texts
  BY <1>1, Zenon DEF Cut
<1>5. <<>> \in T
  <2>1. <<>> \in Text /\ Range(<<>>) = {}
    BY NoText DEF Range
  <2>2. s \o <<>> = s /\ w \o <<>> = w
    BY <1>4, ConcatEmptySeq DEF Text
  <2>3. Plain(<<>>)
    BY <1>1, <2>2, Zenon
  <2> QED
    BY <2>1, <2>3, Zenon
<1>6. ASSUME NEW p \in Text, NEW x \in Char, p \in T PROVE Append(p, x) \in T
  <2>1. Plain(p) /\ Spaced(p)
    BY <1>6, Zenon
  <2>2. /\ s \o Append(p, x) = Append(s \o p, x) /\ w \o Append(p, x) = Append(w \o p, x)
        /\ w \o p \in Text /\ w \o p # <<>>
    BY <1>2, <1>4, ConcatText, ConcatTexts, Zenon
  <2>3. Range(Append(p, x)) = Range(p) \cup {x}
    <3>1. p \in Seq(Char)
      BY DEF Text
    <3> QED
      BY <3>1, RangeAppend
  <2>4. Append(p, x) \in Text
    BY MoreText, Zenon
  <2>5. CASE c \notin Range(p) /\ x # c
    <3>1. Cut(Append(s \o p, x), c, k, a3, Append(w \o p, x))
      BY <2>1, <2>5, CutLetter, Zenon
    <3>2. c \notin Range(Append(p, x))
      BY <2>3, <2>5, Zenon
    <3>3. Cut(s \o Append(p, x), c, k, a3, w \o Append(p, x))
      BY <2>2, <3>1, Zenon
    <3> QED
      BY <2>4, <3>2, <3>3, Zenon
  <2>6. CASE c \notin Range(p) /\ x = c
    <3>1. Cut(Append(s \o p, c), c, k, Append(a3, w \o p), <<>>)
      BY <1>2, <2>1, <2>2, <2>6, CutEnd, Zenon
    <3>2. Len(Append(a3, w \o p)) = Len(a3) + 1
      BY <1>4, <2>2, MoreTexts, Zenon
    <3>3. c \in Range(Append(p, x)) /\ Len(Append(a3, w \o p)) >= 4
      BY <1>3, <2>3, <2>6, <3>2
    <3>4. Cut(s \o Append(p, x), c, k, Append(a3, w \o p), <<>>)
      BY <2>2, <2>6, <3>1, Zenon
    <3> QED
      BY <2>4, <3>3, <3>4, Zenon
  <2>7. CASE c \in Range(p)
    <3>1. PICK a, l : Cut(s \o p, c, k, a, l) /\ Len(a) >= 4
      BY <2>1, <2>7, Zenon
    <3>2. PICK b, m : Cut(Append(s \o p, x), c, k, b, m) /\ Len(b) >= Len(a)
      BY <1>2, <3>1, CutMore, Zenon
    <3>3. a \in Texts /\ b \in Texts
      BY <3>1, <3>2, Zenon DEF Cut
    <3>4. Len(a) \in Nat /\ Len(b) \in Nat
      BY <3>3, LenProperties DEF Texts
    <3>5. Len(b) >= 4
      BY <3>1, <3>2, <3>4
    <3>6. Cut(s \o Append(p, x), c, k, b, m)
      BY <2>2, <3>2, Zenon
    <3>7. c \in Range(Append(p, x))
      BY <2>3, <2>7, Zenon
    <3> QED
      BY <2>4, <3>5, <3>6, <3>7, Zenon
  <2> QED
    BY <2>5, <2>6, <2>7, Zenon
<1> HIDE DEF T
<1>7. Text \subseteq T
  <2>1. \A p \in Seq(Char), x \in Char : p \in T => Append(p, x) \in T
    BY <1>6, Zenon DEF Text
  <2>2. Seq(Char) \subseteq T
    BY <1>5, <2>1, SeqInduct, Zenon
  <2> QED
    BY <2>2, Zenon DEF Text
<1>8. e.path \in Text
  BY PathText, Zenon
<1>9. Plain(e.path) /\ Spaced(e.path)
  BY <1>7, <1>8 DEF T
<1> QED
  BY <1>9, Zenon DEF LineBody, c, s, w, a3

\* The size and the path are what the tab is between.
LEMMA SizeTokens ==
  ASSUME NEW e \in GitEntry, NEW k \in BOOLEAN
  PROVE  Cut(<<e.size, "\t">> \o e.path, "\t", k, << <<e.size>> >>, e.path)
<1> DEFINE c == "\t"
           o == <<>>
           s == Append(Append(o, e.size), c)
           a == Append(o, <<e.size>>)
           p == e.path
<1>1. e.size \in Char /\ e.size # c /\ c \in Char
  BY EntryType, Chars
<1>2. s = <<e.size, "\t">> /\ a = << <<e.size>> >>
  <2>1. <<e.size>> \in Seq(Char) /\ <<e.size, c>> \in Seq(Char) /\ c \in Char
    BY <1>1
  <2> DEFINE t == <<e.size>>
             u == <<e.size, c>>
  <2>2. /\ t \in Seq(Char) /\ u \in Seq(Char) /\ Len(u) = Len(t) + 1
        /\ (\A i \in 1 .. Len(t) : u[i] = t[i]) /\ u[Len(t) + 1] = c /\ Append(o, e.size) = t
    BY <2>1
  <2> HIDE DEF t, u, c
  <2>3. Append(t, c) = u
    BY <1>1, <2>2, AppendIs, Zenon
  <2>4. s = <<e.size, "\t">>
    BY <2>2, <2>3, Zenon DEF u, c
  <2> QED
    BY <2>4
<1>3. p \in Seq(Char \ {c})
  <2>1. p \in Seq(Char \ {"\t", "\n"}) /\ Char \ {"\t", "\n"} \subseteq Char \ {c}
    BY EntryType, Zenon
  <2> QED
    BY <2>1, SeqMonotonic, Zenon
<1>4. Cut(o, c, k, o, <<>>)
  BY CutStart, Zenon
<1>5. <<>> \o p = p
  BY <1>3, ConcatEmptySeq
<1> HIDE DEF c, o, p
<1>6. Cut(s, c, k, a, <<>>)
  BY <1>1, <1>4, CutWordEnd, Zenon
<1> HIDE DEF s, a
<1>7. Cut(s \o p, c, k, a, <<>> \o p)
  BY <1>3, <1>6, CutWord, Zenon
<1> QED
  BY <1>2, <1>5, <1>7, Zenon DEF c, p

\* What LoadDirectory makes of an entry.
Loaded(e) ==
  [path |-> e.path, attribute |-> <<e.mode>>, sha1 |-> <<e.sha>>,
   size |-> IF e.size = "-" THEN <<"0">> ELSE <<e.size>>]
LoadedIf(e) == IF " " \in Range(e.path) THEN <<>> ELSE <<Loaded(e)>>

LEMMA BodyText ==
  ASSUME NEW e \in GitEntry
  PROVE  LineBody(e) \in Text /\ LineBody(e) # <<>>
<1>1. Cut(BeforePath(e), " ", TRUE, Three(e), <<e.size, "\t">>)
  BY BeforeTokens
<1>2. BeforePath(e) \in Text
  BY <1>1, Zenon DEF Cut
<1>3. e.path \in Text /\ e.path # <<>>
  BY PathText, EntryType, Zenon
<1> QED
  BY <1>2, <1>3, ConcatTexts, Zenon DEF LineBody

LEMMA BodyElements ==
  ASSUME NEW e \in GitEntry
  PROVE  /\ " " \notin Range(e.path) =>
              ElementsIn(LineBody(e)) = Append(Three(e), <<e.size, "\t">> \o e.path)
         /\ " " \in Range(e.path) => Len(ElementsIn(LineBody(e))) # 4
<1> DEFINE k == TRUE
           b == LineBody(e)
           Has == " " \in Range(e.path)
           l4 == <<e.size, "\t">> \o e.path
<1>1. k \in BOOLEAN /\ k
  OBVIOUS
<1>2. b # <<>>
  BY BodyText, Zenon
<1>3. ElementsIn(b) = Tokens(b, " ", k)
  BY <1>2, Zenon DEF ElementsIn, SplitStringUsing
<1> HIDE DEF k
<1>4. /\ ~Has => Cut(b, " ", k, Three(e), l4)
      /\ Has => \E a, l : Cut(b, " ", k, a, l) /\ Len(a) >= 4
  BY <1>1, BodyTokens, Zenon
<1> HIDE DEF b, l4, Has
<1>5. ~Has => ElementsIn(b) = Append(Three(e), l4)
  BY <1>3, <1>4, Zenon DEF Cut
<1>6. ASSUME Has PROVE Len(ElementsIn(b)) # 4
  <2>1. PICK a, l : Cut(b, " ", k, a, l) /\ Len(a) >= 4
    BY <1>4, <1>6, Zenon
  <2>2. a \in Texts /\ l \in Text /\ Tokens(b, " ", k) = Append(a, l)
    BY <2>1, Zenon DEF Cut
  <2>3. Len(a) \in Nat /\ Len(Append(a, l)) = Len(a) + 1
    BY <2>2, MoreTexts, Zenon
  <2>4. Len(Append(a, l)) # 4
    <3> DEFINE n == Len(a)
               m == Len(Append(a, l))
    <3>1. n >= 4 /\ n \in Nat /\ m = n + 1
      BY <2>1, <2>3, Zenon
    <3> HIDE DEF n, m
    <3>2. m # 4
      BY <3>1
    <3> QED
      BY <3>2, Zenon DEF m
  <2> QED
    BY <1>3, <2>2, <2>4, Zenon
<1> QED
  BY <1>5, <1>6, Zenon DEF b, l4, Has

LEMMA BodyLoaded ==
  ASSUME NEW e \in GitEntry
  PROVE  Asserted(LineBody(e)) /\ ElementsOf(LineBody(e)) = LoadedIf(e)
<1> DEFINE b == LineBody(e)
           l4 == <<e.size, "\t">> \o e.path
<1>1. CASE " " \in Range(e.path)
  <2>1. Len(ElementsIn(b)) # 4
    BY <1>1, BodyElements, Zenon
  <2> QED
    BY <1>1, <2>1, Zenon DEF Asserted, ElementsOf, LoadedIf
<1>2. CASE " " \notin Range(e.path)
  <2>1. ElementsIn(b) = Append(Three(e), l4)
    BY <1>2, BodyElements, Zenon
  <2>2. /\ Three(e) \in Texts /\ Len(Three(e)) = 3 /\ Three(e)[1] = <<e.mode>>
        /\ Three(e)[3] = <<e.sha>>
    <3>1. Cut(BeforePath(e), " ", TRUE, Three(e), <<e.size, "\t">>)
      BY BeforeTokens
    <3>2. Three(e) \in Texts
      BY <3>1, Zenon DEF Cut
    <3> QED
      BY <3>2 DEF Three
  <2>3. Cut(l4, "\t", FALSE, << <<e.size>> >>, e.path)
    BY SizeTokens
  <2>4. l4 \in Text /\ Tokens(l4, "\t", FALSE) = Append(<< <<e.size>> >>, e.path)
    BY <2>3, Zenon DEF Cut
  <2> DEFINE t3 == Three(e)
             z == << <<e.size>> >>
             p == e.path
  <2>5. l4 # <<>>
    <3>1. e.size \in Char /\ "\t" \in Char /\ p \in Text /\ p # <<>>
      BY EntryType, Chars, PathText
    <3>2. <<e.size, "\t">> \in Text
      BY <3>1 DEF Text
    <3> QED
      BY <3>1, <3>2, ConcatTexts, Zenon
  <2> HIDE DEF l4, t3
  <2>6. /\ Len(Append(t3, l4)) = 4 /\ Append(t3, l4)[1] = <<e.mode>>
        /\ Append(t3, l4)[3] = <<e.sha>> /\ Append(t3, l4)[4] = l4
    <3>1. t3 \in Seq(Text)
      BY <2>2 DEF Texts, t3
    <3>2. /\ Len(Append(t3, l4)) = Len(t3) + 1 /\ \A i \in 1 .. Len(t3) : Append(t3, l4)[i] = t3[i]
          /\ Append(t3, l4)[Len(t3) + 1] = l4
      BY <2>4, <3>1, AppendProperties
    <3>3. Len(t3) = 3 /\ t3[1] = <<e.mode>> /\ t3[3] = <<e.sha>>
      BY <2>2 DEF t3
    <3> DEFINE q == Append(t3, l4)
    <3> HIDE DEF q
    <3>4. Len(q) = 3 + 1 /\ (\A i \in 1 .. 3 : q[i] = t3[i]) /\ q[3 + 1] = l4
      BY <3>2, <3>3 DEF q
    <3>5. Len(q) = 4 /\ q[1] = <<e.mode>> /\ q[3] = <<e.sha>> /\ q[4] = l4
      BY <3>3, <3>4
    <3> QED
      BY <3>5, Zenon DEF q
  <2>7. Elements3(b) = Append(z, p)
    BY <2>1, <2>4, <2>5, <2>6, Zenon DEF Elements3, SplitStringUsing, t3
  <2>8. Len(Append(z, p)) = 2 /\ Append(z, p)[1] = <<e.size>> /\ Append(z, p)[2] = p
    <3>1. z \in Seq(Text) /\ p \in Text /\ Len(z) = 1 /\ z[1] = <<e.size>>
      <4>1. e.size \in Char /\ p \in Text
        BY EntryType, PathText, Zenon
      <4>2. <<e.size>> \in Text
        BY <4>1 DEF Text
      <4> QED
        BY <4>1, <4>2
    <3> HIDE DEF z, p
    <3>2. /\ Len(Append(z, p)) = Len(z) + 1 /\ \A i \in 1 .. Len(z) : Append(z, p)[i] = z[i]
          /\ Append(z, p)[Len(z) + 1] = p
      <4>1. z \in Seq(Text) /\ p \in Text
        BY <3>1, Zenon
      <4> QED
        BY <4>1, AppendProperties
    <3> DEFINE q == Append(z, p)
    <3> HIDE DEF q
    <3>3. Len(q) = 1 + 1 /\ (\A i \in 1 .. 1 : q[i] = z[i]) /\ q[1 + 1] = p
      BY <3>1, <3>2 DEF q
    <3>4. Len(q) = 2 /\ q[1] = <<e.size>> /\ q[2] = p
      BY <3>1, <3>3
    <3> QED
      BY <3>4, Zenon DEF q
  <2>9. p # <<>> /\ p[1] # "/"
    BY EntryType, Zenon
  <2>10. Asserted(b)
    BY <2>7, <2>8, <2>9, Zenon DEF Asserted
  <2>11. <<e.size>> = <<"-">> <=> e.size = "-"
    OBVIOUS
  <2>12. Len(ElementsIn(b)) = 4 /\ ElementsIn(b)[1] = <<e.mode>> /\ ElementsIn(b)[3] = <<e.sha>>
    BY <2>1, <2>6, Zenon DEF t3
  <2>13. Elements3(b)[1] = <<e.size>> /\ Elements3(b)[2] = p
    BY <2>7, <2>8, Zenon
  <2>14. ElementsOf(b) = <<Loaded(e)>>
    BY <2>11, <2>12, <2>13 DEF ElementsOf, Loaded
  <2> QED
    BY <1>2, <2>10, <2>14, Zenon DEF LoadedIf
<1> QED
  BY <1>1, <1>2, Zenon

\* A line ends with its newline, and there is none before.
LEMMA BodyLine ==
  ASSUME NEW e \in GitEntry
  PROVE  /\ LineBody(e) \in Seq(Char \ {"\n"})
         /\ LineOf(e) = Append(LineBody(e), "\n") /\ LineOf(e) \in Seq(Char)
<1> DEFINE L == Char \ {"\n"}
           sp == " "
           tab == "\t"
           nl == "\n"
<1>1. /\ e.mode \in L /\ e.type \in L /\ e.sha \in L /\ e.size \in L /\ sp \in L /\ tab \in L
      /\ nl \in Char
  BY EntryType, Chars
<1>2. e.path \in Seq(L)
  <2>1. e.path \in Seq(Char \ {"\t", "\n"}) /\ Char \ {"\t", "\n"} \subseteq L
    BY EntryType, Zenon
  <2> QED
    BY <2>1, SeqMonotonic, Zenon
<1> DEFINE s6 == <<e.mode, sp, e.type, sp, e.sha, sp>>
           s1 == IF e.size = "1234567" THEN <<>> ELSE <<sp>>
           s2 == <<e.size, tab>>
<1>3. Fields(e) = s6 \o s1 /\ BeforePath(e) = Fields(e) \o s2
  BY Zenon DEF Fields, BeforePath
<1> HIDE DEF L, sp, tab
<1>4. s6 \in Seq(L) /\ s2 \in Seq(L) /\ <<>> \in Seq(L) /\ <<sp>> \in Seq(L)
  BY <1>1
<1>5. s1 \in Seq(L)
  BY <1>4, Zenon
<1> HIDE DEF s6, s1, s2
<1>6. Fields(e) \in Seq(L)
  BY <1>3, <1>4, <1>5, ConcatProperties, Zenon
<1>7. BeforePath(e) \in Seq(L)
  BY <1>3, <1>4, <1>6, ConcatProperties, Zenon
<1>8. LineBody(e) \in Seq(L)
  BY <1>2, <1>7, ConcatProperties, Zenon DEF LineBody
<1>9. LineBody(e) \in Seq(Char)
  BY BodyText, Zenon DEF Text
<1>10. LineOf(e) = LineBody(e) \o <<nl>>
  BY Zenon DEF LineOf, LineBody, BeforePath, Fields
<1> HIDE DEF nl
<1>11. Append(LineBody(e), nl) = LineBody(e) \o <<nl>> /\ Append(LineBody(e), nl) \in Seq(Char)
  BY <1>1, <1>9, AppendIsConcat, AppendProperties
<1> QED
  BY <1>8, <1>10, <1>11, Zenon DEF L, nl

\* What is made of each entry, as functions: git's lines, their texts, what is
\* kept and what is loaded.
lineOf == [e \in GitEntry |-> LineOf(e)]
body == [e \in GitEntry |-> LineBody(e)]
KeptIf(e) == IF " " \in Range(e.path) THEN <<>> ELSE <<e>>
keep == [e \in GitEntry |-> KeptIf(e)]
AllLoaded == {Loaded(e) : e \in GitEntry}
load == [e \in GitEntry |-> LoadedIf(e)]

LEMMA EntryMaps ==
  /\ lineOf \in [GitEntry -> Seq(Char)] /\ body \in [GitEntry -> Text]
  /\ keep \in [GitEntry -> Seq(GitEntry)] /\ load \in [GitEntry -> Seq(AllLoaded)]
<1>1. \A e \in GitEntry : LineOf(e) \in Seq(Char) /\ LineBody(e) \in Text
  BY BodyLine, BodyText, Zenon
<1>2. ASSUME NEW e \in GitEntry
      PROVE  KeptIf(e) \in Seq(GitEntry) /\ LoadedIf(e) \in Seq(AllLoaded)
  <2> DEFINE l == Loaded(e)
             S == GitEntry
             R == AllLoaded
  <2>1. e \in S /\ l \in R
    BY DEF AllLoaded
  <2>2. /\ KeptIf(e) = <<>> \/ KeptIf(e) = <<e>>
        /\ LoadedIf(e) = <<>> \/ LoadedIf(e) = <<l>>
    BY Zenon DEF KeptIf, LoadedIf
  <2> HIDE DEF l, S, R
  <2>3. <<>> \in Seq(S) /\ <<e>> \in Seq(S) /\ <<>> \in Seq(R) /\ <<l>> \in Seq(R)
    BY <2>1
  <2>4. KeptIf(e) \in Seq(S) /\ LoadedIf(e) \in Seq(R)
    BY <2>2, <2>3, Zenon
  <2> QED
    BY <2>4, Zenon DEF S, R
<1>3. lineOf \in [GitEntry -> Seq(Char)] /\ body \in [GitEntry -> Text]
  BY <1>1, Zenon DEF lineOf, body
<1>4. keep \in [GitEntry -> Seq(GitEntry)] /\ load \in [GitEntry -> Seq(AllLoaded)]
  BY <1>2, Zenon DEF keep, load
<1> QED
  BY <1>3, <1>4, Zenon

LEMMA EntryValues ==
  ASSUME NEW e \in GitEntry
  PROVE  /\ lineOf[e] = LineOf(e) /\ body[e] = LineBody(e)
         /\ keep[e] = KeptIf(e) /\ load[e] = LoadedIf(e)
BY Zenon DEF lineOf, body, keep, load

\* The lines that the loop of LoadDirectory finds, and the empty one after the last.
LEMMA ListingTokens ==
  ASSUME NEW es \in Seq(GitEntry), NEW k \in BOOLEAN
  PROVE  Cut(FlatMap(lineOf, es), "\n", k, MapSeq(body, es), <<>>)
<1> DEFINE nl == "\n"
           T == {s \in Seq(GitEntry) : Cut(FlatMap(lineOf, s), nl, k, MapSeq(body, s), <<>>)}
<1>1. nl \in Char
  BY Chars
<1>2. \A e \in GitEntry : /\ LineBody(e) \in Seq(Char \ {nl}) /\ LineBody(e) # <<>>
                          /\ LineOf(e) = Append(LineBody(e), nl)
  BY BodyLine, BodyText, Zenon
<1> HIDE DEF nl
<1>3. FlatMaps(lineOf, GitEntry, Char)
  BY EntryMaps, FlatMapAppend, Zenon
<1>4. Maps(body, GitEntry, Text)
  BY EntryMaps, MapAppend, Zenon
<1>5. <<>> \in T
  <2>1. FlatMap(lineOf, <<>>) = <<>>
    BY <1>3, Zenon DEF FlatMaps
  <2>2. MapSeq(body, <<>>) = <<>>
    BY DEF MapSeq
  <2>3. Cut(<<>>, nl, k, <<>>, <<>>)
    BY CutStart, Zenon
  <2>4. <<>> \in Seq(GitEntry)
    BY EmptySeq, Zenon
  <2> QED
    BY <2>1, <2>2, <2>3, <2>4, Zenon
<1>6. ASSUME NEW s \in Seq(GitEntry), NEW e \in GitEntry, s \in T PROVE Append(s, e) \in T
  <2> DEFINE f == FlatMap(lineOf, s)
             a == MapSeq(body, s)
             b == LineBody(e)
  <2>1. Cut(f, nl, k, a, <<>>)
    BY <1>6, Zenon
  <2>2. f \in Seq(Char) /\ FlatMap(lineOf, Append(s, e)) = f \o Append(b, nl)
    <3>1. lineOf[e] = Append(b, nl)
      BY <1>2, EntryValues, Zenon
    <3>2. f \in Seq(Char) /\ FlatMap(lineOf, Append(s, e)) = f \o lineOf[e]
      BY <1>3, Zenon DEF FlatMaps
    <3> QED
      BY <3>1, <3>2, Zenon
  <2>3. MapSeq(body, Append(s, e)) = Append(a, b)
    <3>1. body[e] = b
      BY EntryValues, Zenon
    <3>2. MapSeq(body, Append(s, e)) = Append(a, body[e])
      BY <1>4, Zenon DEF Maps
    <3> QED
      BY <3>1, <3>2, Zenon
  <2>4. b \in Text /\ b \in Seq(Char \ {nl}) /\ b # <<>>
    BY <1>2, BodyText, Zenon
  <2> HIDE DEF f, a, b, T
  <2>5. f \o Append(b, nl) = Append(f \o b, nl) /\ <<>> \o b = b
    <3>1. f \in Text /\ b \in Seq(Char)
      BY <2>2, <2>4, Zenon DEF Text
    <3>2. f \o Append(b, nl) = Append(f \o b, nl)
      BY <1>1, <2>4, <3>1, ConcatText, Zenon
    <3>3. <<>> \o b = b
      BY <3>1, ConcatEmptySeq, Zenon
    <3> QED
      BY <3>2, <3>3
  <2>6. Cut(f \o b, nl, k, a, <<>> \o b)
    BY <2>1, <2>4, CutWord, Zenon
  <2>7. Cut(f \o b, nl, k, a, b)
    BY <2>5, <2>6, Zenon
  <2>8. Cut(Append(f \o b, nl), nl, k, Append(a, b), <<>>)
    BY <1>1, <2>4, <2>7, CutEnd, Zenon
  <2>9. Append(s, e) \in Seq(GitEntry)
    BY AppendProperties, Zenon
  <2> QED
    BY <2>2, <2>3, <2>5, <2>8, <2>9, Zenon DEF T
<1> HIDE DEF T
<1>7. Seq(GitEntry) \subseteq T
  BY <1>5, <1>6, SeqInduct, Zenon
<1>8. es \in T
  BY <1>7
<1> QED
  BY <1>8, Zenon DEF T, nl

\* What is kept of the entries is what is loaded, in the same order.
LEMMA KeptLoaded ==
  ASSUME NEW es \in Seq(GitEntry)
  PROVE  /\ FlatMap(keep, es) \in Seq(GitEntry) /\ FlatMap(load, es) \in Seq(AllLoaded)
         /\ Len(FlatMap(load, es)) = Len(FlatMap(keep, es))
         /\ \A i \in 1 .. Len(FlatMap(keep, es)) :
              FlatMap(load, es)[i] = Loaded(FlatMap(keep, es)[i])
<1> DEFINE S == GitEntry
           R == AllLoaded
           Same(F, K) == /\ K \in Seq(S) /\ F \in Seq(R) /\ Len(F) = Len(K)
                         /\ \A i \in 1 .. Len(K) : F[i] = Loaded(K[i])
           T == {s \in Seq(S) : Same(FlatMap(load, s), FlatMap(keep, s))}
<1>1. keep \in [S -> Seq(S)] /\ load \in [S -> Seq(R)]
  BY EntryMaps
<1>2. \A e \in S : /\ Loaded(e) \in R
                   /\ \/ keep[e] = <<>> /\ load[e] = <<>>
                      \/ keep[e] = <<e>> /\ load[e] = <<Loaded(e)>>
  BY EntryValues, Zenon DEF KeptIf, LoadedIf, AllLoaded
<1> HIDE DEF S, R
<1>3. FlatMaps(keep, S, S)
  BY <1>1, FlatMapAppend, Zenon
<1>4. FlatMaps(load, S, R)
  BY <1>1, FlatMapAppend, Zenon
<1>5. <<>> \in T
  <2>1. FlatMap(load, <<>>) = <<>> /\ FlatMap(keep, <<>>) = <<>>
    BY <1>3, <1>4, Zenon DEF FlatMaps
  <2>2. Same(<<>>, <<>>) /\ <<>> \in Seq(S)
    OBVIOUS
  <2> HIDE DEF Same
  <2> QED
    BY <2>1, <2>2, Zenon
<1>6. ASSUME NEW s \in Seq(S), NEW e \in S, s \in T PROVE Append(s, e) \in T
  <2> DEFINE F == FlatMap(load, s)
             K == FlatMap(keep, s)
  <2>1. Same(F, K)
    BY <1>6, Zenon
  <2>2. FlatMap(load, Append(s, e)) = F \o load[e] /\ FlatMap(keep, Append(s, e)) = K \o keep[e]
    BY <1>3, <1>4, Zenon DEF FlatMaps
  <2>3. Append(s, e) \in Seq(S)
    BY AppendProperties, Zenon
  <2> HIDE DEF F, K
  <2>4. F \in Seq(R) /\ K \in Seq(S)
    BY <2>1, Zenon
  <2>5. CASE keep[e] = <<>> /\ load[e] = <<>>
    <3>1. F \o <<>> = F /\ K \o <<>> = K
      BY <2>4, ConcatEmptySeq, Zenon
    <3> HIDE DEF Same
    <3>2. Same(FlatMap(load, Append(s, e)), FlatMap(keep, Append(s, e)))
      BY <2>1, <2>2, <2>5, <3>1, Zenon
    <3> QED
      BY <2>3, <3>2, Zenon
  <2>6. CASE keep[e] = <<e>> /\ load[e] = <<Loaded(e)>>
    <3> DEFINE l == Loaded(e)
    <3>1. l \in R
      BY <1>2, Zenon
    <3> HIDE DEF l
    <3>2. F \o <<l>> = Append(F, l) /\ K \o <<e>> = Append(K, e)
      BY <2>4, <3>1, AppendIsConcat
    <3>3. /\ Append(F, l) \in Seq(R) /\ Len(Append(F, l)) = Len(F) + 1
          /\ (\A i \in 1 .. Len(F) : Append(F, l)[i] = F[i]) /\ Append(F, l)[Len(F) + 1] = l
          /\ Append(K, e) \in Seq(S) /\ Len(Append(K, e)) = Len(K) + 1 /\ Len(K) \in Nat
          /\ (\A i \in 1 .. Len(K) : Append(K, e)[i] = K[i]) /\ Append(K, e)[Len(K) + 1] = e
      BY <2>4, <3>1, AppendProperties, LenProperties
    <3> DEFINE F1 == Append(F, l)
               K1 == Append(K, e)
    <3> HIDE DEF F1, K1
    <3>4. ASSUME NEW i \in 1 .. Len(K) + 1 PROVE F1[i] = Loaded(K1[i])
      <4>1. CASE i = Len(K) + 1
        <5>1. F1[i] = l /\ K1[i] = e
          BY <2>1, <3>3, <4>1 DEF F1, K1
        <5> QED
          BY <5>1, Zenon DEF l
      <4>2. CASE i # Len(K) + 1
        <5>1. i \in 1 .. Len(K) /\ i \in 1 .. Len(F)
          BY <2>1, <3>3, <4>2
        <5>2. F1[i] = F[i] /\ K1[i] = K[i] /\ F[i] = Loaded(K[i])
          BY <2>1, <3>3, <5>1, Zenon DEF F1, K1
        <5> QED
          BY <5>2, Zenon
      <4> QED
        BY <4>1, <4>2
    <3>5. Same(F1, K1)
      BY <2>1, <3>3, <3>4 DEF F1, K1
    <3>6. F1 = FlatMap(load, Append(s, e)) /\ K1 = FlatMap(keep, Append(s, e))
      BY <2>2, <2>6, <3>2, Zenon DEF l, F1, K1
    <3> HIDE DEF Same
    <3> QED
      BY <2>3, <3>5, <3>6, Zenon
  <2> QED
    BY <1>2, <2>5, <2>6, Zenon
<1> HIDE DEF T
<1>7. Seq(S) \subseteq T
  BY <1>5, <1>6, SeqInduct, Zenon
<1>8. es \in T
  BY <1>7 DEF S
<1> QED
  BY <1>8, Zenon DEF T, S, R

LEMMA ListingIs ==
  ASSUME NEW es \in Seq(GitEntry)
  PROVE  /\ ListingOf(es) = FlatMap(lineOf, es)
         /\ Kept(es) = FlatMap(keep, es)
<1>1. \A i \in DOMAIN es : es[i] \in GitEntry
  BY LenProperties, ElementOfSeq
<1>2. \A i \in DOMAIN es : lineOf[es[i]] = LineOf(es[i]) /\ keep[es[i]] = KeptIf(es[i])
  BY <1>1, EntryValues, Zenon
<1>3. [i \in DOMAIN es |-> LineOf(es[i])] = MapSeq(lineOf, es)
  BY <1>2, Zenon DEF MapSeq
<1>4. [i \in DOMAIN es |-> KeptIf(es[i])] = MapSeq(keep, es)
  BY <1>2, Zenon DEF MapSeq
<1>5. [i \in DOMAIN es |-> IF " " \in Range(es[i].path) THEN <<>> ELSE <<es[i]>>]
        = [i \in DOMAIN es |-> KeptIf(es[i])]
  BY Zenon DEF KeptIf
<1> QED
  BY <1>3, <1>4, <1>5, Zenon DEF ListingOf, Kept, FlatMap

\* The loop of LoadDirectory over the lines asserts nothing that is false, and
\* adds what is to be loaded.
LEMMA LinesLoaded ==
  ASSUME NEW es \in Seq(GitEntry)
  PROVE  LET lines == SplitStringUsing(ListingOf(es), "\n", TRUE)
         IN /\ \A i \in DOMAIN lines : Asserted(lines[i])
            /\ FlattenSeq([i \in DOMAIN lines |-> ElementsOf(lines[i])]) = FlatMap(load, es)
<1> DEFINE lines == SplitStringUsing(ListingOf(es), "\n", TRUE)
           B == MapSeq(body, es)
           P == MapSeq(load, es)
           R == AllLoaded
           Q(s) == [i \in DOMAIN s |-> ElementsOf(s[i])]
           A(s) == \A i \in DOMAIN s : Asserted(s[i])
<1>1. Cut(ListingOf(es), "\n", TRUE, B, <<>>)
  <2>1. Cut(FlatMap(lineOf, es), "\n", TRUE, B, <<>>)
    BY ListingTokens
  <2> QED
    BY <2>1, ListingIs, Zenon
<1>2. B \in Texts /\ <<>> \in Text /\ Tokens(ListingOf(es), "\n", TRUE) = Append(B, <<>>)
  BY <1>1, Zenon DEF Cut
<1>3. \A i \in DOMAIN es : es[i] \in GitEntry
  BY LenProperties, ElementOfSeq
<1>4. \A i \in DOMAIN es : /\ body[es[i]] = LineBody(es[i]) /\ load[es[i]] = LoadedIf(es[i])
                           /\ Asserted(LineBody(es[i]))
                           /\ ElementsOf(LineBody(es[i])) = LoadedIf(es[i])
  BY <1>3, EntryValues, BodyLoaded, Zenon
<1>5. DOMAIN B = DOMAIN es /\ \A i \in DOMAIN es : B[i] = body[es[i]]
  BY Zenon DEF MapSeq
<1>6. Q(B) = P
  <2>1. \A i \in DOMAIN es : ElementsOf(B[i]) = load[es[i]]
    BY <1>4, <1>5, Zenon
  <2> HIDE DEF B
  <2>2. Q(B) = [i \in DOMAIN es |-> ElementsOf(B[i])]
    BY <1>5, Zenon
  <2>3. [i \in DOMAIN es |-> ElementsOf(B[i])] = [i \in DOMAIN es |-> load[es[i]]]
    BY <2>1, Zenon
  <2> QED
    BY <2>2, <2>3, Zenon DEF MapSeq
<1>7. A(B)
  <2>1. \A i \in DOMAIN es : Asserted(B[i])
    BY <1>4, <1>5, Zenon
  <2> HIDE DEF B
  <2> QED
    BY <1>5, <2>1, Zenon
<1>8. P \in Seq(Seq(R)) /\ FlatMap(load, es) = FlattenSeq(P) /\ FlattenSeq(P) \in Seq(R)
  <2>1. \A s \in Seq(GitEntry) : MapSeq(load, s) \in Seq(Seq(R))
    <3>1. load \in [GitEntry -> Seq(R)]
      BY EntryMaps
    <3> DEFINE U == Seq(R)
    <3>2. \A s \in Seq(GitEntry) :
            DOMAIN s = 1 .. Len(s) /\ Len(s) \in Nat /\ \A i \in 1 .. Len(s) : s[i] \in GitEntry
      BY LenProperties, ElementOfSeq
    <3> HIDE DEF U
    <3>3. load \in [GitEntry -> U]
      BY <3>1 DEF U
    <3>4. \A s \in Seq(GitEntry) : MapSeq(load, s) \in Seq(U)
      BY <3>2, <3>3 DEF MapSeq
    <3> QED
      BY <3>4 DEF U
  <2>2. FlatMap(load, es) = FlattenSeq(P)
    BY Zenon DEF FlatMap
  <2>3. FlatMap(load, es) \in Seq(R)
    BY KeptLoaded, Zenon
  <2> QED
    BY <2>1, <2>2, <2>3, Zenon
<1>9. Asserted(<<>>) /\ ElementsOf(<<>>) = <<>>
  <2>1. ElementsIn(<<>>) = <<>>
    BY Zenon DEF ElementsIn, SplitStringUsing
  <2>2. Len(<<>>) # 4
    OBVIOUS
  <2> QED
    BY <2>1, <2>2, Zenon DEF Asserted, ElementsOf
<1>10. CASE ListingOf(es) = <<>>
  <2>1. Append(B, <<>>) = Append(<<>>, <<>>)
    <3>1. Tokens(<<>>, "\n", TRUE) = Append(<<>>, <<>>)
      BY TokensStart
    <3> QED
      BY <1>2, <1>10, <3>1, Zenon
  <2>2. B \in Seq(Text) /\ <<>> \in Seq(Text)
    BY <1>2, NoText, Zenon DEF Texts
  <2> HIDE DEF B
  <2>3. B = <<>>
    BY <1>2, <2>1, <2>2, AppendInjective
  <2>4. lines = <<>>
    BY <1>10, Zenon DEF SplitStringUsing
  <2> HIDE DEF lines, P
  <2>5. lines = B
    BY <2>3, <2>4, Zenon
  <2>6. A(lines) /\ Q(lines) = P
    BY <1>6, <1>7, <2>5, Zenon
  <2> QED
    BY <1>8, <2>6, Zenon DEF lines
<1>11. CASE ListingOf(es) # <<>>
  <2>1. lines = Append(B, <<>>)
    BY <1>2, <1>11, Zenon DEF SplitStringUsing
  <2> HIDE DEF lines, P, B
  <2>2. /\ Len(B) \in Nat /\ DOMAIN B = 1 .. Len(B)
        /\ Len(lines) = Len(B) + 1 /\ DOMAIN lines = 1 .. Len(B) + 1
        /\ (\A i \in 1 .. Len(B) : lines[i] = B[i]) /\ lines[Len(B) + 1] = <<>>
    <3>1. B \in Seq(Text) /\ <<>> \in Text
      BY <1>2, Zenon DEF Texts
    <3>2. lines \in Seq(Text)
      BY <2>1, <3>1, AppendProperties
    <3> QED
      BY <2>1, <3>1, <3>2, AppendProperties, LenProperties
  <2>3. A(lines)
    <3>1. ASSUME NEW i \in 1 .. Len(B) + 1 PROVE Asserted(lines[i])
      <4>1. CASE i = Len(B) + 1
        BY <1>9, <2>2, <4>1, Zenon
      <4>2. CASE i # Len(B) + 1
        <5>1. i \in 1 .. Len(B)
          BY <2>2, <4>2
        <5> QED
          BY <1>7, <2>2, <5>1, Zenon
      <4> QED
        BY <4>1, <4>2
    <3> QED
      BY <2>2, <3>1, Zenon
  <2>4. Q(lines) = Append(P, <<>>)
    <3> DEFINE U == Seq(R)
               q == Q(lines)
    <3>1. P \in Seq(U) /\ <<>> \in U
      BY <1>8, EmptySeq, Zenon
    <3> HIDE DEF U
    <3>2. Len(P) = Len(B) /\ \A i \in 1 .. Len(B) : P[i] = ElementsOf(B[i])
      <4>1. P = [i \in 1 .. Len(B) |-> ElementsOf(B[i])]
        BY <1>6, <2>2, Zenon
      <4> QED
        BY <2>2, <4>1
    <3>3. q = [i \in 1 .. Len(B) + 1 |-> ElementsOf(lines[i])]
      BY <2>2, Zenon
    <3> HIDE DEF q
    <3>4. ASSUME NEW i \in 1 .. Len(B) PROVE P[i] \in U /\ q[i] = P[i]
      <4>1. i \in 1 .. Len(P) /\ i \in 1 .. Len(B) + 1
        BY <2>2, <3>2
      <4>2. P[i] \in U
        BY <3>1, <4>1, ElementOfSeq, Zenon
      <4>3. q[i] = ElementsOf(lines[i])
        BY <3>3, <4>1, Zenon
      <4> QED
        BY <2>2, <3>2, <4>2, <4>3, Zenon
    <3>5. q[Len(B) + 1] = <<>>
      <4>1. Len(B) + 1 \in 1 .. Len(B) + 1
        BY <2>2
      <4> QED
        BY <1>9, <2>2, <3>3, <4>1, Zenon
    <3>6. DOMAIN q = 1 .. Len(B) + 1 /\ \A i \in 1 .. Len(B) + 1 : q[i] \in U
      <4>1. ASSUME NEW i \in 1 .. Len(B) + 1 PROVE q[i] \in U
        <5>1. CASE i = Len(B) + 1
          BY <3>1, <3>5, <5>1, Zenon
        <5>2. CASE i # Len(B) + 1
          <6>1. i \in 1 .. Len(B)
            BY <2>2, <5>2
          <6> QED
            BY <3>4, <6>1, Zenon
        <5> QED
          BY <5>1, <5>2
      <4> QED
        BY <3>3, <4>1, Zenon
    <3>7. q \in Seq(U) /\ Len(q) = Len(B) + 1
      BY <2>2, <3>3, <3>6
    <3>8. /\ Len(q) = Len(P) + 1 /\ (\A i \in 1 .. Len(P) : q[i] = P[i])
          /\ q[Len(P) + 1] = <<>>
      BY <3>2, <3>4, <3>5, <3>7
    <3>9. Append(P, <<>>) = q
      BY <3>1, <3>7, <3>8, AppendIs, Zenon
    <3> QED
      BY <3>9, Zenon DEF q
  <2>5. FlattenSeq(Append(P, <<>>)) = FlattenSeq(P) \o <<>>
    BY <1>8, EmptySeq, FlattenAppend, Zenon
  <2>6. FlattenSeq(P) \o <<>> = FlattenSeq(P)
    BY <1>8, ConcatEmptySeq, Zenon
  <2>7. FlattenSeq(Q(lines)) = FlatMap(load, es)
    BY <1>8, <2>4, <2>5, <2>6, Zenon
  <2> QED
    BY <2>3, <2>7, Zenon DEF lines
<1> QED
  BY <1>10, <1>11, Zenon

\* What the kernel reads of .git/HEAD is what git rev-parse wrote.
LEMMA HashServed ==
  ASSUME NEW h, NEW nl, nl = "\n"
  PROVE  HeadServed(<<h, nl>>)
<1> DEFINE nul == "NUL"
           S == {h, nl, nul}
           line == <<h, nl>>
           all == <<h, nl, nul>>
<1>1. h \in S /\ nl \in S /\ nul \in S
  OBVIOUS
<1> HIDE DEF S, nul
<1>2. <<h>> \in Seq(S) /\ line \in Seq(S) /\ all \in Seq(S)
  BY <1>1
<1>3. Append(<<h>>, nl) = line
  <2> DEFINE s == <<h>>
  <2>1. /\ s \in Seq(S) /\ line \in Seq(S) /\ Len(line) = Len(s) + 1
        /\ (\A i \in 1 .. Len(s) : line[i] = s[i]) /\ line[Len(s) + 1] = nl
    BY <1>2
  <2> HIDE DEF s, line
  <2>2. Append(s, nl) = line
    BY <1>1, <2>1, AppendIs, Zenon
  <2> QED
    BY <2>2, Zenon DEF s
<1>4. Append(line, nul) = all
  <2>1. /\ line \in Seq(S) /\ all \in Seq(S) /\ Len(all) = Len(line) + 1
        /\ (\A i \in 1 .. Len(line) : all[i] = line[i]) /\ all[Len(line) + 1] = nul
    BY <1>2
  <2> HIDE DEF all, line
  <2> QED
    BY <1>1, <2>1, AppendIs, Zenon
<1>5. Front(line) = <<h>>
  <2>1. Front(Append(<<h>>, nl)) = <<h>>
    BY <1>1, <1>2, AppendFrontLast
  <2> QED
    BY <1>3, <2>1, Zenon
<1>6. HeadLine(<<h>>) = line
  BY <1>3, Zenon DEF HeadLine
<1>7. Len(line) = 2
  OBVIOUS
<1>8. /\ SubSeq(all, 1, 2) \in Seq(S) /\ Len(SubSeq(all, 1, 2)) = 2
      /\ \A i \in 1 .. 2 : SubSeq(all, 1, 2)[i] = all[i]
  <2>1. \A i \in 1 .. 2 : all[i] \in S
    BY <1>1
  <2> HIDE DEF all
  <2>2. /\ SubSeq(all, 1, 2) \in Seq(S)
        /\ Len(SubSeq(all, 1, 2)) = IF 1 <= 2 THEN 2 - 1 + 1 ELSE 0
        /\ \A i \in 1 .. 2 - 1 + 1 : SubSeq(all, 1, 2)[i] = all[1 + i - 1]
    BY <2>1, SubSeqProperties
  <2> DEFINE q == SubSeq(all, 1, 2)
  <2> HIDE DEF q
  <2>3. q \in Seq(S) /\ Len(q) = 2 /\ \A i \in 1 .. 2 : q[i] = all[i]
    BY <2>2 DEF q
  <2> QED
    BY <2>3, Zenon DEF q
<1>9. SubSeq(all, 1, 2) = line
  <2> DEFINE q == SubSeq(all, 1, 2)
  <2> HIDE DEF q
  <2>1. q \in Seq(S) /\ line \in Seq(S) /\ Len(q) = Len(line)
        /\ \A i \in 1 .. Len(q) : q[i] = line[i]
    BY <1>2, <1>8 DEF q
  <2> HIDE DEF line
  <2>2. q = line
    BY <2>1, SeqEqual, Zenon
  <2> QED
    BY <2>2, Zenon DEF q
<1> HIDE DEF line, all
<1>10. HeadRead(<<h>>, 4096, 0) = all
  <2>1. Append(HeadLine(<<h>>), nul) = all
    BY <1>4, <1>6, Zenon
  <2> DEFINE read == Append(HeadLine(<<h>>), nul)
             n == Len(HeadLine(<<h>>))
             size == 4096
  <2>2. n = 2
    BY <1>6, <1>7, Zenon
  <2>3. read = Append(HeadLine(<<h>>), "NUL")
    BY Zenon DEF nul
  <2> HIDE DEF read, size
  <2>4. HeadRead(<<h>>, size, 0) = IF 0 # 0 \/ size <= n THEN <<"EIO">> ELSE read
    BY <2>3, Zenon DEF HeadRead
  <2> HIDE DEF n
  <2>5. ~(size <= n)
    BY <2>2 DEF size
  <2>6. HeadRead(<<h>>, size, 0) = read
    BY <2>4, <2>5, Zenon
  <2> DEFINE got == HeadRead(<<h>>, size, 0)
  <2> HIDE DEF got
  <2>7. got = all
    BY <2>1, <2>6, Zenon DEF got, read
  <2> QED
    BY <2>7 DEF got, size
<1> DEFINE got == HeadRead(<<h>>, 4096, 0)
<1>11. HeadServed(line) <=> SubSeq(got, 1, Len(line)) = line
  BY <1>5, <1>6 DEF HeadServed
<1> HIDE DEF got
<1>12. got = all
  BY <1>10 DEF got
<1>13. SubSeq(got, 1, Len(line)) = line
  BY <1>7, <1>9, <1>12, Zenon
<1>14. HeadServed(line)
  BY <1>11, <1>13, Zenon
<1> QED
  BY <1>14, Zenon DEF line

\* What git ls-tree writes of any tree is mounted as EntriesServed says, whatever
\* the number of the entries and the length of their paths.
LEMMA EntriesAreServed ==
  ASSUME NEW entries \in Seq(GitEntry)
  PROVE  EntriesServed(entries)
<1> DEFINE rev_parse == [out |-> <<"hash", "\n">>, exit_code |-> 0]
           ls_tree == [out |-> ListingOf(entries), exit_code |-> 0]
           served == LoadDirectory(rev_parse, ls_tree)
           kept == FlatMap(keep, entries)
           F == FlatMap(load, entries)
           added == << Added(<<".status">>), Added(<<".git/HEAD">>) >>
           lines == SplitStringUsing(ListingOf(entries), "\n", TRUE)
<1>1. served = F \o added
  <2>1. /\ \A i \in DOMAIN lines : Asserted(lines[i])
        /\ FlattenSeq([i \in DOMAIN lines |-> ElementsOf(lines[i])]) = F
    BY LinesLoaded
  <2> HIDE DEF F
  <2>2. rev_parse.out # <<>> /\ rev_parse.exit_code = 0 /\ ls_tree.exit_code = 0
        /\ ls_tree.out = ListingOf(entries)
    OBVIOUS
  <2> HIDE DEF rev_parse, ls_tree
  <2> QED
    BY <2>1, <2>2, Zenon DEF LoadDirectory
<1>2. /\ kept \in Seq(GitEntry) /\ F \in Seq(AllLoaded) /\ Len(F) = Len(kept)
      /\ \A i \in 1 .. Len(kept) : F[i] = Loaded(kept[i])
  BY KeptLoaded, Zenon
<1> HIDE DEF F, kept, served
<1>3. Len(served) = Len(kept) + 2 /\ \A i \in 1 .. Len(kept) : served[i] = F[i]
  <2> DEFINE a1 == Added(<<".status">>)
             a2 == Added(<<".git/HEAD">>)
             R == AllLoaded \cup {a1, a2}
  <2>1. F \in Seq(R)
    <3>1. AllLoaded \subseteq R
      BY Zenon
    <3> HIDE DEF R
    <3> QED
      BY <1>2, <3>1, SeqMonotonic, Zenon
  <2>2. a1 \in R /\ a2 \in R
    BY Zenon
  <2> HIDE DEF a1, a2, R
  <2>3. <<a1, a2>> \in Seq(R) /\ Len(<<a1, a2>>) = 2
    BY <2>2
  <2> DEFINE t == <<a1, a2>>
  <2>4. t = added
    BY Zenon DEF a1, a2
  <2> HIDE DEF t, added
  <2>5. /\ Len(F \o t) = Len(F) + Len(t)
        /\ \A i \in 1 .. Len(F) + Len(t) :
             (F \o t)[i] = IF i <= Len(F) THEN F[i] ELSE t[i - Len(F)]
    <3>1. F \in Seq(R) /\ t \in Seq(R)
      BY <2>1, <2>3, Zenon DEF t
    <3> QED
      BY <3>1, ConcatProperties
  <2>6. Len(F) \in Nat /\ Len(t) = 2
    BY <2>1, <2>3, LenProperties DEF t
  <2>7. served = F \o t
    BY <1>1, <2>4, Zenon
  <2> DEFINE q == F \o t
  <2> HIDE DEF q
  <2>8. Len(q) = Len(F) + 2 /\ \A i \in 1 .. Len(F) : q[i] = F[i]
    BY <2>5, <2>6 DEF q
  <2> QED
    BY <1>2, <2>7, <2>8, Zenon DEF q
<1>4. ASSUME NEW i \in DOMAIN kept PROVE ServedAs(served[i], kept[i])
  <2>1. i \in 1 .. Len(kept)
    BY <1>2, LenProperties
  <2> DEFINE e == kept[i]
  <2>2. e \in GitEntry
    BY <1>2, <2>1, ElementOfSeq
  <2>3. served[i] = Loaded(e)
    BY <1>2, <1>3, <2>1, Zenon
  <2> HIDE DEF e
  <2>4. e.type = "commit" <=> e.size = "-"
    BY <2>2, EntryType, Zenon
  <2>5. Loaded(e).path = e.path /\ Loaded(e).sha1 = <<e.sha>>
    BY DEF Loaded
  <2>6. /\ Loaded(e).attribute = <<e.mode>>
        /\ Loaded(e).size = <<IF e.type = "commit" THEN "0" ELSE e.size>>
    BY <2>4 DEF Loaded
  <2>7. (IF <<e.mode>> = <<"120000">> THEN <<"120644">> ELSE <<e.mode>>)
          = <<IF e.mode = "120000" THEN "120644" ELSE e.mode>>
    OBVIOUS
  <2>8. Getattr(Loaded(e)) =
          [st_mode |-> <<IF e.mode = "120000" THEN "120644" ELSE e.mode>>,
           st_size |-> <<IF e.type = "commit" THEN "0" ELSE e.size>>]
    BY <2>6, <2>7, Zenon DEF Getattr
  <2>9. ServedAs(Loaded(e), e)
    BY <2>5, <2>8, Zenon DEF ServedAs
  <2> QED
    BY <2>3, <2>9, Zenon DEF e
<1>5. kept = Kept(entries)
  BY ListingIs, Zenon DEF kept
<1>6. HeadServed(<<"hash", "\n">>)
  BY HashServed, Zenon
<1>7. served = LoadDirectory([out |-> <<"hash", "\n">>, exit_code |-> 0],
                             [out |-> ListingOf(entries), exit_code |-> 0])
  BY Zenon DEF served
<1> QED
  BY <1>3, <1>4, <1>5, <1>6, <1>7, Zenon DEF EntriesServed

-----------------------------------------------------------------------------
(* The offsets in an archive.                                              *)

\* The padding of the reader leads where the writer goes on, as every header
\* is at a multiple of 4.
LEMMA SameOffsets ==
  ASSUME NEW at \in Nat, at % 4 = 0, NEW c, c.namesize \in Nat, c.filesize \in Nat
  PROVE  /\ After(at, c) \in Nat /\ After(at, c) % 4 = 0 /\ Body(at, c) \in Nat
         /\ NextHeader(at, c) = After(at, c)
         /\ at + CpioHeaderSize + ContentsOffset(c) = Body(at, c)
         /\ at + CpioHeaderSize <= Body(at, c) /\ Body(at, c) <= After(at, c)
<1> DEFINE m == c.namesize
           n == c.filesize
           b == Body(at, c)
<1>1. m \in Nat /\ n \in Nat
  OBVIOUS
<1>2. b = ((at + 110 + m + 3) \div 4) * 4
  BY DEF Body, UpTo4, CpioHeaderSize
<1>3. After(at, c) = ((b + n + 3) \div 4) * 4
  BY DEF After, UpTo4
<1>4. ContentsOffset(c) = m + ((4 - ((m + 2) % 4)) % 4)
  BY DEF ContentsOffset, Padding
<1>5. ContentsOffset(c) \in Int /\ NextHeader(at, c) =
        at + 110 + (ContentsOffset(c) + n + ((4 - ((ContentsOffset(c) + n + 2) % 4)) % 4))
  <2>1. ContentsOffset(c) \in Int
    BY <1>1, <1>4
  <2>2. EndOffset(c) = ContentsOffset(c) + n + ((4 - ((ContentsOffset(c) + n + 2) % 4)) % 4)
    BY DEF EndOffset, Padding
  <2> QED
    BY <2>1, <2>2 DEF NextHeader, CpioHeaderSize
<1> HIDE DEF m, n, b
<1>6. b \in Nat /\ at + 110 <= b /\ b % 4 = 0 /\ at + 110 + ContentsOffset(c) = b
  BY <1>1, <1>2, <1>4
<1>7. After(at, c) \in Nat /\ After(at, c) % 4 = 0 /\ b <= After(at, c)
  BY <1>1, <1>3, <1>6
<1>8. ContentsOffset(c) = b - at - 110 
  BY <1>1, <1>5, <1>6
<1>9. NextHeader(at, c) = After(at, c)
  BY <1>1, <1>3, <1>5, <1>6, <1>8
<1> QED
  BY <1>6, <1>7, <1>9 DEF b, CpioHeaderSize

\* What a header of an archive is.
LEMMA HeaderType ==
  ASSUME NEW members, IsArchive(members), NEW i \in 1 .. Len(members)
  PROVE  /\ members[i] \in Member /\ Len(members) \in Nat
         /\ HeaderOf(members, i) =
              [name |-> members[i].name, namesize |-> members[i].namesize,
               mode |-> members[i].mode, nlink |-> members[i].nlink, ino |-> members[i].ino,
               filesize |-> HeaderOf(members, i).filesize]
         /\ HeaderOf(members, i).namesize \in Nat /\ HeaderOf(members, i).filesize \in Nat
         /\ HeaderOf(members, i).filesize > 0 =>
              HeaderOf(members, i).filesize = Len(members[i].data)
<1>1. members \in Seq(Member)
  BY DEF IsArchive
<1>2. members[i] \in Member /\ Len(members) \in Nat
  BY <1>1, ElementOfSeq, LenProperties
<1>3. members[i].namesize \in Nat /\ members[i].data \in Seq(Nat)
  BY <1>2 DEF Member
<1>4. Len(members[i].data) \in Nat
  BY <1>3, LenProperties
<1> QED
  BY <1>2, <1>3, <1>4 DEF HeaderOf
\* The headers start at multiples of 4, each where the member before it ends.
LEMMA StartsRun ==
  ASSUME NEW members, IsArchive(members)
  PROVE  /\ Starts(members)[0] = 0
         /\ \A n \in 0 .. Len(members) :
              Starts(members)[n] \in Nat /\ Starts(members)[n] % 4 = 0
         /\ \A n \in 0 .. Len(members) - 1 :
              Starts(members)[n + 1] = After(Starts(members)[n], HeaderOf(members, n + 1))
<1> DEFINE N == Len(members)
           S == {a \in Nat : a % 4 = 0}
           Step(a, n) == IF n < N THEN After(a, HeaderOf(members, n + 1)) ELSE a
           step == [n \in Nat |-> [a \in S |-> Step(a, n)]]
           B(g) == [n \in 0 .. N |-> IF n = 0 THEN 0 ELSE After(g[n - 1], HeaderOf(members, n))]
<1>1. N \in Nat
  BY LenProperties DEF IsArchive
<1>2. 0 \in S
  OBVIOUS
<1>3. ASSUME NEW n \in 0 .. N - 1, NEW a \in S
      PROVE  After(a, HeaderOf(members, n + 1)) \in S
  <2>1. n + 1 \in 1 .. N
    BY <1>1
  <2>2. /\ HeaderOf(members, n + 1).namesize \in Nat
        /\ HeaderOf(members, n + 1).filesize \in Nat
    BY <2>1, HeaderType, Zenon
  <2>3. a \in Nat /\ a % 4 = 0
    OBVIOUS
  <2> QED
    BY <2>2, <2>3, SameOffsets
<1> HIDE DEF N, S
<1>4. \A n \in Nat, a \in S : Step(a, n) \in S
  <2>1. \A n \in Nat : n < N => n \in 0 .. N - 1
    BY <1>1
  <2> QED
    BY <1>3, <2>1, Zenon
<1>5. \A a, n : n \in 0 .. N - 1 => Step(a, n) = After(a, HeaderOf(members, n + 1))
  BY <1>1
<1> HIDE DEF Step
<1>6. step \in [Nat -> [S -> S]]
  BY <1>4
<1>7. \A n \in Nat, a \in S : step[n][a] = Step(a, n)
  OBVIOUS
<1> HIDE DEF step
<1>8. Runs(S, 0, step, N) # {}
  BY <1>1, <1>2, <1>6, LoopRuns, Zenon
<1>9. PICK f \in [0 .. N -> S] : f[0] = 0 /\ \A n \in 0 .. N - 1 : f[n + 1] = step[n][f[n]]
  BY <1>8, Zenon DEF Runs
<1>10. ASSUME NEW n \in 0 .. N - 1 PROVE f[n + 1] = After(f[n], HeaderOf(members, n + 1))
  <2>1. n \in Nat /\ f[n] \in S
    BY <1>1
  <2> QED
    BY <1>5, <1>7, <1>9, <2>1, Zenon
<1>11. f = B(f)
  <2>1. ASSUME NEW n \in 0 .. N
        PROVE  f[n] = IF n = 0 THEN 0 ELSE After(f[n - 1], HeaderOf(members, n))
    <3>1. CASE n = 0
      BY <1>9, <3>1, Zenon
    <3>2. CASE n # 0
      <4>1. n - 1 \in 0 .. N - 1 /\ (n - 1) + 1 = n
        BY <1>1, <3>2
      <4>2. f[n] = After(f[n - 1], HeaderOf(members, n))
        BY <1>10, <4>1
      <4> QED
        BY <3>2, <4>2, Zenon
    <3> QED
      BY <3>1, <3>2, Zenon
  <2> QED
    BY <2>1
<1> DEFINE g == CHOOSE h : h = B(h)
<1>12. g = B(g)
  <2> HIDE DEF B
  <2> QED
    BY <1>11
<1>13. Starts(members) = g
  BY Zenon DEF Starts, N
<1> HIDE DEF g
<1>14. g[0] = 0 /\ \A n \in 0 .. N : n # 0 => g[n] = After(g[n - 1], HeaderOf(members, n))
  BY <1>1, <1>12
<1>15. ASSUME NEW n \in 0 .. N - 1 PROVE g[n + 1] = After(g[n], HeaderOf(members, n + 1))
  <2>1. n + 1 \in 0 .. N /\ n + 1 # 0 /\ (n + 1) - 1 = n
    BY <1>1
  <2> QED
    BY <1>14, <2>1
<1>16. ASSUME NEW n \in 0 .. N - 1, g[n] \in S PROVE g[n + 1] \in S
  BY <1>3, <1>15, <1>16, Zenon
<1>17. \A n \in 0 .. N : g[n] \in S
  BY <1>1, <1>2, <1>14, <1>16, LoopStays
<1>18. \A n \in 0 .. N : g[n] \in Nat /\ g[n] % 4 = 0
  BY <1>17 DEF S
<1> QED
  BY <1>13, <1>14, <1>15, <1>18, Zenon DEF N

\* No two of them share a place.
LEMMA StartsApart ==
  ASSUME NEW members, IsArchive(members)
  PROVE  /\ \A m, n \in 0 .. Len(members) :
              m < n => Starts(members)[m] + CpioHeaderSize <= Starts(members)[n]
         /\ \A n \in 0 .. Len(members) : CpioHeaderSize * n <= Starts(members)[n]
<1> DEFINE N == Len(members)
           start == Starts(members)
           T == {n \in Nat : /\ 110 * n <= start[n]
                             /\ \A m \in 0 .. n - 1 : start[m] + 110 <= start[n]}
<1>1. /\ N \in Nat /\ start[0] = 0
      /\ \A n \in 0 .. N : start[n] \in Nat /\ start[n] % 4 = 0
      /\ \A n \in 0 .. N - 1 : start[n + 1] = After(start[n], HeaderOf(members, n + 1))
  BY StartsRun, LenProperties DEF IsArchive
<1>2. ASSUME NEW n \in 0 .. N - 1 PROVE start[n] + 110 <= start[n + 1]
  <2>1. n + 1 \in 1 .. Len(members) /\ n \in 0 .. N
    BY <1>1
  <2>2. /\ HeaderOf(members, n + 1).namesize \in Nat
        /\ HeaderOf(members, n + 1).filesize \in Nat
    BY <2>1, HeaderType, Zenon
  <2> DEFINE at == start[n]
             c == HeaderOf(members, n + 1)
  <2>3. at \in Nat /\ at % 4 = 0 /\ c.namesize \in Nat /\ c.filesize \in Nat
        /\ start[n + 1] = After(at, c)
    BY <1>1, <2>1, <2>2, Zenon
  <2> HIDE DEF at, c, start
  <2>4. /\ Body(at, c) \in Nat /\ After(at, c) \in Nat
        /\ at + 110 <= Body(at, c) /\ Body(at, c) <= After(at, c)
    BY <2>3, SameOffsets DEF CpioHeaderSize
  <2>5. at + 110 <= After(at, c)
    BY <2>3, <2>4
  <2> QED
    BY <2>3, <2>5 DEF at
<1> HIDE DEF start, N
<1>3. 0 \in T
  BY <1>1
<1>4. ASSUME NEW n \in 0 .. N - 1, n \in T PROVE n + 1 \in T
  <2>1. /\ n \in Nat /\ n + 1 \in Nat /\ start[n] \in Nat /\ start[n + 1] \in Nat
        /\ start[n] + 110 <= start[n + 1]
    BY <1>1, <1>2
  <2>2. 110 * (n + 1) <= start[n + 1]
    BY <1>4, <2>1
  <2>3. ASSUME NEW m \in 0 .. n PROVE start[m] + 110 <= start[n + 1]
    <3>1. start[m] \in Nat
      BY <1>1
    <3> QED
      BY <1>4, <2>1, <3>1
  <2> QED
    BY <2>1, <2>2, <2>3
<1> HIDE DEF T
<1>5. 0 .. N \subseteq T
  BY <1>1, <1>3, <1>4, InductUpTo
<1>6. ASSUME NEW n \in 0 .. N
      PROVE  /\ 110 * n <= start[n]
             /\ \A m \in 0 .. N : m < n => start[m] + 110 <= start[n]
  BY <1>1, <1>5 DEF T
<1> QED
  BY <1>6 DEF start, N, CpioHeaderSize
-----------------------------------------------------------------------------
(* The image of an archive.                                                *)

\* The i-th header of an archive.
Start(members, i) == Starts(members)[i - 1]

LEMMA StartType ==
  ASSUME NEW members, IsArchive(members), NEW i \in 1 .. Len(members)
  PROVE  /\ Start(members, i) \in Nat /\ Start(members, i) % 4 = 0
         /\ Starts(members)[i] = After(Start(members, i), HeaderOf(members, i))
         /\ Starts(members)[Len(members)] \in Nat
         /\ Start(members, i) # Starts(members)[Len(members)]
         /\ \A j \in 1 .. Len(members) :
              j < i => Starts(members)[j] \in Nat /\ Starts(members)[j] <= Start(members, i)
<1> DEFINE N == Len(members)
           start == Starts(members)
<1>1. /\ N \in Nat
      /\ \A n \in 0 .. N : start[n] \in Nat /\ start[n] % 4 = 0
      /\ \A n \in 0 .. N - 1 : start[n + 1] = After(start[n], HeaderOf(members, n + 1))
  BY StartsRun, LenProperties DEF IsArchive
<1>2. \A m, n \in 0 .. N : m < n => start[m] + 110 <= start[n]
  BY StartsApart DEF CpioHeaderSize
<1>3. i \in 1 .. N
  OBVIOUS
<1> HIDE DEF start, N
<1>4. i - 1 \in 0 .. N - 1 /\ i - 1 \in 0 .. N /\ (i - 1) + 1 = i /\ N \in 0 .. N /\ i - 1 < N
  BY <1>1, <1>3
<1>5. start[i] = After(start[i - 1], HeaderOf(members, i))
  BY <1>1, <1>4
<1>6. start[i - 1] # start[N]
  BY <1>1, <1>2, <1>4
<1>7. ASSUME NEW j \in 1 .. N, j < i PROVE start[j] \in Nat /\ start[j] <= start[i - 1]
  <2>1. j \in 0 .. N /\ (j = i - 1 \/ j < i - 1)
    BY <1>1, <1>3, <1>7
  <2> QED
    BY <1>1, <1>2, <1>4, <2>1
<1> QED
  BY <1>1, <1>4, <1>5, <1>6, <1>7 DEF Start, start, N

\* The body of a member is after its header and not after the next one.
LEMMA BodyBetween ==
  ASSUME NEW members, IsArchive(members), NEW i \in 1 .. Len(members)
  PROVE  /\ Body(Start(members, i), HeaderOf(members, i)) \in Nat
         /\ Start(members, i) < Body(Start(members, i), HeaderOf(members, i))
         /\ Body(Start(members, i), HeaderOf(members, i)) <= Starts(members)[i]
<1> DEFINE at == Start(members, i)
           c == HeaderOf(members, i)
<1>1. at \in Nat /\ at % 4 = 0 /\ Starts(members)[i] = After(at, c)
  BY StartType
<1>2. c.namesize \in Nat /\ c.filesize \in Nat
  BY HeaderType, Zenon
<1> HIDE DEF at, c
<1>3. /\ Body(at, c) \in Nat /\ After(at, c) \in Nat
      /\ at + 110 <= Body(at, c) /\ Body(at, c) <= After(at, c)
  BY <1>1, <1>2, SameOffsets DEF CpioHeaderSize
<1> QED
  BY <1>1, <1>3 DEF at, c

\* So that an offset tells the member, of headers and of bodies.
LEMMA OffsetTells ==
  ASSUME NEW members, IsArchive(members), NEW i \in 1 .. Len(members),
         NEW j \in 1 .. Len(members), i # j
  PROVE  /\ Start(members, i) # Start(members, j)
         /\ Body(Start(members, i), HeaderOf(members, i))
              # Body(Start(members, j), HeaderOf(members, j))
<1>1. Len(members) \in Nat
  BY LenProperties DEF IsArchive
<1>2. ASSUME NEW k \in 1 .. Len(members), NEW l \in 1 .. Len(members), l < k
      PROVE  /\ Start(members, l) < Start(members, k)
             /\ Body(Start(members, l), HeaderOf(members, l))
                  < Body(Start(members, k), HeaderOf(members, k))
  <2> DEFINE a == Start(members, l)
             b == Body(Start(members, l), HeaderOf(members, l))
             d == Start(members, k)
             e == Body(Start(members, k), HeaderOf(members, k))
             m == Starts(members)[l]
  <2>1. a \in Nat /\ d \in Nat /\ m \in Nat /\ m <= d
    BY <1>2, StartType
  <2>2. b \in Nat /\ e \in Nat /\ a < b /\ b <= m /\ d < e
    BY BodyBetween
  <2> HIDE DEF a, b, d, e, m
  <2>3. a < d /\ b < e
    BY <2>1, <2>2
  <2> QED
    BY <2>3 DEF a, b, d, e
<1>3. \A k \in 1 .. Len(members) :
        Start(members, k) \in Nat /\ Body(Start(members, k), HeaderOf(members, k)) \in Nat
  BY StartType, BodyBetween
<1>4. i < j \/ j < i
  BY <1>1
<1> QED
  BY <1>2, <1>3, <1>4
LEMMA ImageHeaders ==
  ASSUME NEW members, IsArchive(members)
  PROVE  /\ \A i \in 1 .. Len(members) :
              /\ Start(members, i) \in DOMAIN ImageOf(members).headers
              /\ ImageOf(members).headers[Start(members, i)] = HeaderOf(members, i)
         /\ Starts(members)[Len(members)] \in DOMAIN ImageOf(members).headers
         /\ ImageOf(members).headers[Starts(members)[Len(members)]] = Trailer
<1> DEFINE N == Len(members)
           start == Starts(members)
           At == {start[n] : n \in 0 .. N}
           Which(a) == CHOOSE i \in 1 .. N : start[i - 1] = a
           headers == [a \in At |-> IF a = start[N] THEN Trailer ELSE HeaderOf(members, Which(a))]
<1>1. ImageOf(members).headers = headers
  BY Zenon DEF ImageOf
<1>2. N \in Nat
  BY LenProperties DEF IsArchive
<1> HIDE DEF start, N
<1>3. \A n \in 0 .. N : start[n] \in At
  OBVIOUS
<1>4. N \in 0 .. N /\ \A i \in 1 .. N : i - 1 \in 0 .. N
  BY <1>2
<1>5. ASSUME NEW i \in 1 .. N
      PROVE  start[i - 1] \in At /\ start[i - 1] # start[N] /\ Which(start[i - 1]) = i
  <2>1. start[i - 1] \in At
    BY <1>3, <1>4
  <2>2. i \in 1 .. Len(members)
    BY DEF N
  <2>3. Start(members, i) # Starts(members)[Len(members)]
    BY <2>2, StartType, Zenon
  <2>4. start[i - 1] # start[N]
    BY <2>3, Zenon DEF start, N, Start
  <2>5. ASSUME NEW j \in 1 .. N, start[j - 1] = start[i - 1] PROVE j = i
    <3>1. j \in 1 .. Len(members)
      BY DEF N
    <3>2. Start(members, j) = Start(members, i)
      BY <2>5, Zenon DEF start, Start
    <3> QED
      BY <2>2, <3>1, <3>2, OffsetTells, Zenon
  <2>6. Which(start[i - 1]) = i
    <3> HIDE DEF At
    <3> QED
      BY <2>5
  <2> QED
    BY <2>1, <2>4, <2>6, Zenon
<1> HIDE DEF At, Which
<1>6. start[N] \in DOMAIN headers /\ headers[start[N]] = Trailer
  BY <1>3, <1>4
<1>7. ASSUME NEW i \in 1 .. N
      PROVE  start[i - 1] \in DOMAIN headers /\ headers[start[i - 1]] = HeaderOf(members, i)
  BY <1>5
<1> HIDE DEF headers
<1> QED
  BY <1>1, <1>6, <1>7, Zenon DEF start, N, Start

LEMMA ImageContents ==
  ASSUME NEW members, IsArchive(members), NEW i \in 1 .. Len(members),
         HeaderOf(members, i).filesize > 0
  PROVE  /\ Body(Start(members, i), HeaderOf(members, i)) \in DOMAIN ImageOf(members).contents
         /\ ImageOf(members).contents[Body(Start(members, i), HeaderOf(members, i))]
              = members[i].data
<1> DEFINE N == Len(members)
           start == Starts(members)
           bodyOf(j) == Body(start[j - 1], HeaderOf(members, j))
           full == {j \in 1 .. N : HeaderOf(members, j).filesize > 0}
           At == {bodyOf(j) : j \in full}
           Which(b) == CHOOSE j \in full : bodyOf(j) = b
           contents == [b \in At |-> members[Which(b)].data]
<1>1. ImageOf(members).contents = contents
  BY Zenon DEF ImageOf
<1>2. i \in full
  OBVIOUS
<1>3. ASSUME NEW j \in full, bodyOf(j) = bodyOf(i) PROVE j = i
  <2>1. j \in 1 .. Len(members)
    OBVIOUS
  <2>2. Body(Start(members, j), HeaderOf(members, j))
        = Body(Start(members, i), HeaderOf(members, i))
    BY <1>3, Zenon DEF Start
  <2> QED
    BY <2>1, <2>2, OffsetTells, Zenon
<1>4. bodyOf(i) = Body(Start(members, i), HeaderOf(members, i))
  BY Zenon DEF Start
<1> HIDE DEF full, bodyOf
<1>5. bodyOf(i) \in At
  BY <1>2
<1>6. Which(bodyOf(i)) = i
  BY <1>2, <1>3
<1> HIDE DEF At, Which
<1>7. bodyOf(i) \in DOMAIN contents /\ contents[bodyOf(i)] = members[i].data
  BY <1>5, <1>6
<1> HIDE DEF contents
<1> QED
  BY <1>1, <1>4, <1>7, Zenon

\* There is room for a turn for each header, and one more.
LEMMA ImageSize ==
  ASSUME NEW members, IsArchive(members)
  PROVE  /\ ImageOf(members).size \div CpioHeaderSize \in Nat
         /\ Len(members) + 1 <= ImageOf(members).size \div CpioHeaderSize
<1> DEFINE N == Len(members)
           end == Starts(members)[N]
<1>1. N \in Nat
  BY LenProperties DEF IsArchive
<1>2. N \in 0 .. N
  BY <1>1
<1>3. end \in Nat
  BY <1>2, StartsRun, Zenon
<1>4. 110 * N <= end
  BY <1>2, StartsApart DEF CpioHeaderSize
<1>5. ImageOf(members).size = ((end + 110 + 11 + 3) \div 4) * 4
  BY DEF ImageOf, UpTo4, CpioHeaderSize, Trailer
<1> DEFINE size == ImageOf(members).size
<1> HIDE DEF N, end, size
<1>6. size \in Nat /\ 110 * (N + 1) <= size
  BY <1>1, <1>3, <1>4, <1>5 DEF size
<1>7. size \div 110 \in Nat /\ N + 1 <= size \div 110
  BY <1>1, <1>6
<1> QED
  BY <1>7 DEF size, N, CpioHeaderSize
-----------------------------------------------------------------------------
(* The loop of LoadDirectory.                                              *)

Partial(D) == UNION {[E -> Nat] : E \in SUBSET D}

Grown(g, f, k, v, D) ==
  /\ g \in Partial(D) /\ DOMAIN g = DOMAIN f \cup {k}
  /\ g[k] = v /\ \A x \in DOMAIN f : x # k => g[x] = f[x]

LEMMA PutGrows ==
  ASSUME NEW D, NEW k \in D, NEW v \in Nat, NEW f \in Partial(D)
  PROVE  Grown(Put(f, k, v), f, k, v, D)
<1> DEFINE g == Put(f, k, v)
           E == DOMAIN f \cup {k}
<1>1. DOMAIN f \in SUBSET D /\ \A x \in DOMAIN f : f[x] \in Nat
  BY DEF Partial
<1>2. g = [x \in E |-> IF x = k THEN v ELSE f[x]]
  BY DEF Put
<1> HIDE DEF g
<1>3. g \in [E -> Nat] /\ E \in SUBSET D
  BY <1>1, <1>2
<1>4. g \in Partial(D)
  BY <1>3, Zenon DEF Partial
<1>5. DOMAIN g = E /\ g[k] = v /\ \A x \in DOMAIN f : x # k => g[x] = f[x]
  BY <1>2
<1> QED
  BY <1>4, <1>5, Zenon DEF g, Grown

LoopState ==
  [at : Nat, over : BOOLEAN, ok : BOOLEAN, fs : Partial(STRING), hardlink_map : Partial(Nat)]
Unread == [at |-> 0, over |-> FALSE, ok |-> FALSE, fs |-> <<>>, hardlink_map |-> <<>>]

LEMMA BeforeType == Unread \in LoopState /\ DOMAIN <<>> = {}
<1>1. ASSUME NEW D PROVE <<>> \in Partial(D)
  <2>1. <<>> \in [{} -> Nat]
    OBVIOUS
  <2>2. {} \in SUBSET D
    OBVIOUS
  <2> QED
    BY <2>1, <2>2, Zenon DEF Partial
<1>2. <<>> \in Partial(STRING) /\ <<>> \in Partial(Nat)
  BY <1>1, Zenon
<1> QED
  BY <1>2 DEF Unread, LoopState

\* What is added for the first n members: the files, and those of them that
\* have contents others share.
Files(members, n) == {i \in 1 .. n : members[i].mode \in {"S_IFREG", "S_IFLNK"}}
Holders(members, n) ==
  {i \in Files(members, n) : members[i].nlink > 1 /\ HeaderOf(members, i).filesize > 0}

FilesAdded(members, n, fs) ==
  /\ DOMAIN fs = {members[i].name : i \in Files(members, n)}
  /\ \A i \in Files(members, n) : fs[members[i].name] = Start(members, i)
HoldersNoted(members, n, map) ==
  /\ DOMAIN map = {members[i].ino : i \in Holders(members, n)}
  /\ \A k \in DOMAIN map :
       \E i \in Holders(members, n) : members[i].ino = k /\ map[k] = Start(members, i)

AfterTurns(members, n, s) ==
  /\ s \in LoopState
  /\ FilesAdded(members, IF n <= Len(members) THEN n ELSE Len(members), s.fs)
  /\ HoldersNoted(members, IF n <= Len(members) THEN n ELSE Len(members), s.hardlink_map)
  /\ IF n <= Len(members) THEN ~s.over /\ s.at = Starts(members)[n] ELSE s.over /\ s.ok

LEMMA FilesGrow ==
  ASSUME NEW members, IsArchive(members), NEW i \in 1 .. Len(members)
  PROVE  /\ Files(members, i) = Files(members, i - 1)
               \cup IF members[i].mode \in {"S_IFREG", "S_IFLNK"} THEN {i} ELSE {}
         /\ Holders(members, i) = Holders(members, i - 1)
               \cup IF /\ members[i].mode \in {"S_IFREG", "S_IFLNK"}
                       /\ members[i].nlink > 1 /\ HeaderOf(members, i).filesize > 0
                    THEN {i} ELSE {}
         /\ \A j \in Files(members, i - 1) : j \in 1 .. Len(members) /\ j # i
<1>1. Len(members) \in Nat
  BY LenProperties DEF IsArchive
<1>2. 1 .. i = 1 .. i - 1 \cup {i} /\ \A j \in 1 .. i - 1 : j \in 1 .. Len(members) /\ j # i
  BY <1>1
<1>3. Files(members, i) = Files(members, i - 1)
        \cup IF members[i].mode \in {"S_IFREG", "S_IFLNK"} THEN {i} ELSE {}
  BY <1>2, Zenon DEF Files
<1>4. \A j \in Files(members, i - 1) : j \in 1 .. Len(members) /\ j # i
  BY <1>2, Zenon DEF Files
<1>5. Holders(members, i) = Holders(members, i - 1)
        \cup IF /\ members[i].mode \in {"S_IFREG", "S_IFLNK"}
                /\ members[i].nlink > 1 /\ HeaderOf(members, i).filesize > 0
             THEN {i} ELSE {}
  BY <1>3, Zenon DEF Holders
<1> QED
  BY <1>3, <1>4, <1>5
LEMMA FileAdded ==
  ASSUME NEW members, IsArchive(members), NEW i \in 1 .. Len(members),
         NEW fs \in Partial(STRING), FilesAdded(members, i - 1, fs),
         members[i].mode \in {"S_IFREG", "S_IFLNK"}
  PROVE  /\ Put(fs, members[i].name, Start(members, i)) \in Partial(STRING)
         /\ FilesAdded(members, i, Put(fs, members[i].name, Start(members, i)))
<1> DEFINE k == members[i].name
           v == Start(members, i)
           Old == Files(members, i - 1)
<1>1. k \in STRING /\ v \in Nat
  <2>1. members[i] \in Member
    BY HeaderType
  <2> QED
    BY <2>1, StartType DEF Member
<1>2. Files(members, i) = Old \cup {i} /\ \A j \in Old : j \in 1 .. Len(members) /\ j # i
  BY FilesGrow, Zenon
<1>3. DOMAIN fs = {members[j].name : j \in Old}
      /\ \A j \in Old : fs[members[j].name] = Start(members, j)
  BY Zenon DEF FilesAdded
<1>4. \A j \in Old : members[j].name # k
  <2>1. DOMAIN members = 1 .. Len(members)
    BY LenProperties DEF IsArchive
  <2> QED
    BY <1>2, <2>1, Zenon DEF IsArchive
<1> HIDE DEF k, v, Old
<1>5. /\ Put(fs, k, v) \in Partial(STRING) /\ DOMAIN Put(fs, k, v) = DOMAIN fs \cup {k}
      /\ Put(fs, k, v)[k] = v /\ \A x \in DOMAIN fs : x # k => Put(fs, k, v)[x] = fs[x]
  <2>1. Grown(Put(fs, k, v), fs, k, v, STRING)
    BY <1>1, PutGrows, Zenon
  <2> QED
    BY <2>1, Zenon DEF Grown
<1>6. k = members[i].name /\ v = Start(members, i)
  BY DEF k, v
<1>7. ASSUME NEW j \in Files(members, i) PROVE Put(fs, k, v)[members[j].name] = Start(members, j)
  <2>1. CASE j = i
    BY <1>5, <1>6, <2>1, Zenon
  <2>2. CASE j \in Old
    <3>1. members[j].name \in DOMAIN fs /\ members[j].name # k
      BY <1>3, <1>4, <2>2, Zenon
    <3> QED
      BY <1>3, <1>5, <2>2, <3>1, Zenon
  <2> QED
    BY <1>2, <2>1, <2>2, Zenon
<1>8. DOMAIN Put(fs, k, v) = {members[j].name : j \in Files(members, i)}
  BY <1>2, <1>3, <1>5, <1>6
<1>9. FilesAdded(members, i, Put(fs, k, v))
  BY <1>7, <1>8, Zenon DEF FilesAdded
<1> QED
  BY <1>5, <1>9, Zenon DEF k, v

LEMMA HolderNoted ==
  ASSUME NEW members, IsArchive(members), NEW i \in 1 .. Len(members),
         NEW map \in Partial(Nat), HoldersNoted(members, i - 1, map),
         members[i].mode \in {"S_IFREG", "S_IFLNK"}, members[i].nlink > 1,
         HeaderOf(members, i).filesize > 0
  PROVE  /\ Put(map, members[i].ino, Start(members, i)) \in Partial(Nat)
         /\ HoldersNoted(members, i, Put(map, members[i].ino, Start(members, i)))
<1> DEFINE k == members[i].ino
           v == Start(members, i)
           Old == Holders(members, i - 1)
<1>1. k \in Nat /\ v \in Nat
  <2>1. members[i] \in Member
    BY HeaderType
  <2> QED
    BY <2>1, StartType DEF Member
<1>2. Holders(members, i) = Old \cup {i}
  BY FilesGrow, Zenon
<1>3. /\ DOMAIN map = {members[j].ino : j \in Old}
      /\ \A x \in DOMAIN map : \E j \in Old : members[j].ino = x /\ map[x] = Start(members, j)
  BY Zenon DEF HoldersNoted
<1> HIDE DEF k, v, Old
<1>4. /\ Put(map, k, v) \in Partial(Nat) /\ DOMAIN Put(map, k, v) = DOMAIN map \cup {k}
      /\ Put(map, k, v)[k] = v /\ \A x \in DOMAIN map : x # k => Put(map, k, v)[x] = map[x]
  <2>1. Grown(Put(map, k, v), map, k, v, Nat)
    BY <1>1, PutGrows, Zenon
  <2> QED
    BY <2>1, Zenon DEF Grown
<1>5. k = members[i].ino /\ v = Start(members, i)
  BY DEF k, v
<1>6. ASSUME NEW x \in DOMAIN Put(map, k, v)
      PROVE  \E j \in Holders(members, i) :
               members[j].ino = x /\ Put(map, k, v)[x] = Start(members, j)
  <2>1. CASE x = k
    BY <1>2, <1>4, <1>5, <2>1, Zenon
  <2>2. CASE x # k
    <3>1. x \in DOMAIN map
      BY <1>4, <2>2
    <3>2. PICK j \in Old : members[j].ino = x /\ map[x] = Start(members, j)
      BY <1>3, <3>1, Zenon
    <3> QED
      BY <1>2, <1>4, <2>2, <3>1, <3>2, Zenon
  <2> QED
    BY <2>1, <2>2
<1>7. DOMAIN Put(map, k, v) = {members[j].ino : j \in Holders(members, i)}
  BY <1>2, <1>3, <1>4, <1>5
<1>8. HoldersNoted(members, i, Put(map, k, v))
  BY <1>6, <1>7, Zenon DEF HoldersNoted
<1> QED
  BY <1>4, <1>8, Zenon DEF k, v

\* One turn, for the i-th member.
LEMMA MemberTurn ==
  ASSUME NEW members, IsArchive(members), NEW i \in 1 .. Len(members),
         NEW s \in LoopState, ~s.over, s.at = Start(members, i),
         FilesAdded(members, i - 1, s.fs), HoldersNoted(members, i - 1, s.hardlink_map)
  PROVE  LET t == Turn(ImageOf(members), s)
         IN /\ t \in LoopState /\ ~t.over /\ t.at = Starts(members)[i]
            /\ FilesAdded(members, i, t.fs) /\ HoldersNoted(members, i, t.hardlink_map)
<1> DEFINE image == ImageOf(members)
           c == HeaderOf(members, i)
           m == members[i]
           served == m.mode \in {"S_IFREG", "S_IFLNK"}
           holds == served /\ m.nlink > 1 /\ c.filesize > 0
           next == Starts(members)[i]
           fs == IF served THEN Put(s.fs, m.name, s.at) ELSE s.fs
           map == IF holds THEN Put(s.hardlink_map, m.ino, s.at) ELSE s.hardlink_map
<1>1. s.at \in DOMAIN image.headers /\ image.headers[s.at] = c
  BY ImageHeaders, Zenon
<1>2. /\ m \in Member
      /\ c.name = m.name /\ c.mode = m.mode /\ c.nlink = m.nlink /\ c.ino = m.ino
      /\ c.namesize \in Nat /\ c.filesize \in Nat
  BY HeaderType
<1>3. c.name # "TRAILER!!!"
  BY <1>2 DEF Member
<1>4. next = NextHeader(s.at, c) /\ next \in Nat
  <2>1. /\ Start(members, i) \in Nat /\ Start(members, i) % 4 = 0
        /\ next = After(Start(members, i), c)
    BY StartType, Zenon
  <2> HIDE DEF next, c
  <2> QED
    BY <1>2, <2>1, SameOffsets
<1>5. s.fs \in Partial(STRING) /\ s.hardlink_map \in Partial(Nat)
      /\ s.ok \in BOOLEAN /\ s.at \in Nat
  BY DEF LoopState
<1>6. fs \in Partial(STRING) /\ FilesAdded(members, i, fs)
  <2>1. CASE served
    BY <1>5, <2>1, FileAdded, Zenon
  <2>2. CASE ~served
    <3>1. Files(members, i) = Files(members, i - 1) \cup IF served THEN {i} ELSE {}
      BY FilesGrow, Zenon
    <3> HIDE DEF served
    <3>2. Files(members, i) = Files(members, i - 1)
      BY <2>2, <3>1
    <3> QED
      BY <1>5, <2>2, <3>2, Zenon DEF FilesAdded
  <2> QED
    BY <2>1, <2>2, Zenon
<1>7. map \in Partial(Nat) /\ HoldersNoted(members, i, map)
  <2>1. CASE holds
    BY <1>5, <2>1, HolderNoted, Zenon
  <2>2. CASE ~holds
    <3>1. Holders(members, i) = Holders(members, i - 1) \cup IF holds THEN {i} ELSE {}
      BY FilesGrow, Zenon
    <3> HIDE DEF holds
    <3>2. Holders(members, i) = Holders(members, i - 1)
      BY <2>2, <3>1
    <3> QED
      BY <1>5, <2>2, <3>2, Zenon DEF HoldersNoted
  <2> QED
    BY <2>1, <2>2, Zenon
<1>8. Turn(image, s) =
        [s EXCEPT !.at = NextHeader(s.at, c), !.fs = fs, !.hardlink_map = map]
  <2> HIDE DEF image, c, m
  <2> QED
    BY <1>1, <1>2, <1>3 DEF Turn, CheckHeader, HardlinkKey
<1> DEFINE t == Turn(image, s)
<1> HIDE DEF image, c, m, fs, map, next
<1>9. /\ t.at = next /\ t.over = s.over /\ t.ok = s.ok /\ t.fs = fs /\ t.hardlink_map = map
      /\ t \in LoopState
  BY <1>4, <1>5, <1>6, <1>7, <1>8 DEF LoopState
<1> QED
  BY <1>6, <1>7, <1>9, Zenon DEF image, next
\* The turn that finds the trailer.
LEMMA TrailerTurn ==
  ASSUME NEW members, IsArchive(members), NEW s \in LoopState, ~s.over,
         s.at = Starts(members)[Len(members)]
  PROVE  LET t == Turn(ImageOf(members), s)
         IN /\ t \in LoopState /\ t.over /\ t.ok
            /\ t.fs = s.fs /\ t.hardlink_map = s.hardlink_map
<1> DEFINE image == ImageOf(members)
           t == Turn(image, s)
<1>1. s.at \in DOMAIN image.headers /\ image.headers[s.at] = Trailer
  BY ImageHeaders, Zenon
<1>2. Trailer.name = "TRAILER!!!"
  BY DEF Trailer
<1> HIDE DEF image
<1>3. t = [s EXCEPT !.over = TRUE, !.ok = TRUE]
  BY <1>1, <1>2 DEF Turn, CheckHeader
<1> HIDE DEF t
<1>4. t \in LoopState /\ t.over /\ t.ok /\ t.fs = s.fs /\ t.hardlink_map = s.hardlink_map
  BY <1>3 DEF LoopState
<1> QED
  BY <1>4, Zenon DEF t, image

LEMMA NextTurn ==
  ASSUME NEW members, IsArchive(members), NEW n \in Nat, NEW s, AfterTurns(members, n, s)
  PROVE  AfterTurns(members, n + 1, Turn(ImageOf(members), s))
<1> DEFINE N == Len(members)
           t == Turn(ImageOf(members), s)
<1>1. N \in Nat
  BY LenProperties DEF IsArchive
<1>2. CASE n < N
  <2>1. n + 1 \in 1 .. N /\ n <= N /\ n + 1 <= N /\ (n + 1) - 1 = n
    BY <1>1, <1>2
  <2> DEFINE i == n + 1
  <2>2. /\ s \in LoopState /\ ~s.over /\ s.at = Starts(members)[n]
        /\ FilesAdded(members, n, s.fs) /\ HoldersNoted(members, n, s.hardlink_map)
    BY <2>1, Zenon DEF AfterTurns
  <2>3. i - 1 = n /\ i \in 1 .. N
    BY <2>1
  <2>4. Start(members, i) = Starts(members)[n]
    BY <2>3 DEF Start
  <2> HIDE DEF i
  <2>5. s.at = Start(members, i)
    BY <2>2, <2>4, Zenon
  <2>6. FilesAdded(members, i - 1, s.fs) /\ HoldersNoted(members, i - 1, s.hardlink_map)
    BY <2>2, <2>3
  <2>7. /\ t \in LoopState /\ ~t.over /\ t.at = Starts(members)[i]
        /\ FilesAdded(members, i, t.fs) /\ HoldersNoted(members, i, t.hardlink_map)
    BY <2>2, <2>3, <2>5, <2>6, MemberTurn, Zenon
  <2>8. AfterTurns(members, i, t)
    <3>1. i <= Len(members)
      BY <2>1 DEF i
    <3> HIDE DEF t
    <3> QED
      BY <2>7, <3>1, Zenon DEF AfterTurns
  <2> QED
    BY <2>8, Zenon DEF i
<1>3. CASE n = N
  <2>1. n <= N /\ ~(n + 1 <= N)
    BY <1>1, <1>3
  <2>2. /\ s \in LoopState /\ ~s.over /\ s.at = Starts(members)[N]
        /\ FilesAdded(members, N, s.fs) /\ HoldersNoted(members, N, s.hardlink_map)
    BY <1>3, <2>1, Zenon DEF AfterTurns
  <2>3. t \in LoopState /\ t.over /\ t.ok /\ t.fs = s.fs /\ t.hardlink_map = s.hardlink_map
    BY <2>2, TrailerTurn, Zenon
  <2> HIDE DEF t
  <2>4. AfterTurns(members, n + 1, t)
    BY <2>1, <2>2, <2>3, Zenon DEF AfterTurns
  <2> QED
    BY <2>4, Zenon DEF t
<1>4. CASE n > N
  <2>1. ~(n <= N) /\ ~(n + 1 <= N)
    BY <1>1, <1>4
  <2>2. /\ s \in LoopState /\ s.over /\ s.ok
        /\ FilesAdded(members, N, s.fs) /\ HoldersNoted(members, N, s.hardlink_map)
    BY <2>1, Zenon DEF AfterTurns
  <2>3. t = s
    BY <2>2, Zenon DEF Turn
  <2>4. AfterTurns(members, n + 1, s)
    BY <2>1, <2>2, Zenon DEF AfterTurns
  <2> QED
    BY <2>3, <2>4, Zenon
<1> QED
  BY <1>1, <1>2, <1>3, <1>4

LEMMA NoTurn ==
  ASSUME NEW members, IsArchive(members)
  PROVE  AfterTurns(members, 0, Unread)
<1>1. Len(members) \in Nat
  BY LenProperties DEF IsArchive
<1>2. 0 <= Len(members)
  BY <1>1
<1>3. Files(members, 0) = {} /\ Holders(members, 0) = {}
  <2>1. 1 .. 0 = {}
    OBVIOUS
  <2> QED
    BY <2>1, Zenon DEF Files, Holders
<1>4. FilesAdded(members, 0, <<>>) /\ HoldersNoted(members, 0, <<>>)
  BY <1>3, BeforeType DEF FilesAdded, HoldersNoted
<1>5. Unread \in LoopState
  BY BeforeType
<1>6. /\ ~Unread.over /\ Unread.at = 0 /\ Unread.fs = <<>> /\ Unread.hardlink_map = <<>>
  BY DEF Unread
<1>7. Starts(members)[0] = 0
  BY StartsRun, Zenon
<1> QED
  BY <1>2, <1>4, <1>5, <1>6, <1>7, Zenon DEF AfterTurns

\* The loop ends at the trailer, with all members behind it.
LEMMA LoopLoads ==
  ASSUME NEW members, IsArchive(members)
  PROVE  LET loaded == cpiofs_LoadDirectory(ImageOf(members))
         IN /\ loaded.ok
            /\ FilesAdded(members, Len(members), loaded.fs)
            /\ HoldersNoted(members, Len(members), loaded.hardlink_map)
<1> DEFINE image == ImageOf(members)
           N == image.size \div CpioHeaderSize
           B(g) == [n \in 0 .. N |-> IF n = 0 THEN Unread ELSE Turn(image, g[n - 1])]
           S == LoopState
           Step(s) == IF Turn(image, s) \in S THEN Turn(image, s) ELSE s
           step == [n \in Nat |-> [s \in S |-> Step(s)]]
<1>1. N \in Nat /\ Len(members) + 1 <= N
  BY ImageSize
<1>2. Unread \in S
  BY BeforeType
<1>3. \A s : \A n \in Nat : AfterTurns(members, n, s) =>
        AfterTurns(members, n + 1, Turn(image, s)) /\ s \in S
  <2>1. ASSUME NEW n \in Nat, NEW s, AfterTurns(members, n, s)
        PROVE  AfterTurns(members, n + 1, Turn(image, s)) /\ s \in S
    <3>1. s \in S
      BY <2>1, Zenon DEF AfterTurns
    <3> QED
      BY <2>1, <3>1, NextTurn, Zenon
  <2> QED
    BY <2>1, Zenon
<1> HIDE DEF image, N, S
<1>4. step \in [Nat -> [S -> S]]
  <2>1. \A s \in S : Step(s) \in S
    BY Zenon
  <2> HIDE DEF Step
  <2> QED
    BY <2>1
<1>5. \A n \in Nat, s \in S : step[n][s] = Step(s)
  <2> HIDE DEF Step
  <2> QED
    OBVIOUS
<1> HIDE DEF step
<1>6. Runs(S, Unread, step, N) # {}
  BY <1>1, <1>2, <1>4, LoopRuns, Zenon
<1>7. PICK f \in [0 .. N -> S] :
         f[0] = Unread /\ \A n \in 0 .. N - 1 : f[n + 1] = step[n][f[n]]
  BY <1>6, Zenon DEF Runs
<1> DEFINE Reached(g) == {n \in Nat : AfterTurns(members, n, g[n])}
<1>8. ASSUME NEW n \in 0 .. N - 1, AfterTurns(members, n, f[n])
      PROVE  f[n + 1] = Turn(image, f[n]) /\ AfterTurns(members, n + 1, f[n + 1])
  <2>1. n \in Nat /\ n + 1 \in Nat
    BY <1>1
  <2>2. AfterTurns(members, n + 1, Turn(image, f[n])) /\ f[n] \in S
    BY <1>3, <1>8, <2>1, Zenon
  <2>3. Turn(image, f[n]) \in S
    BY <1>3, <2>1, <2>2, Zenon
  <2>4. f[n + 1] = Step(f[n])
    BY <1>5, <1>7, <2>1, <2>2, Zenon
  <2> QED
    BY <2>2, <2>3, <2>4, Zenon
<1>9. 0 .. N \subseteq Reached(f)
  <2>1. 0 \in Reached(f)
    BY <1>7, NoTurn
  <2>2. ASSUME NEW n \in 0 .. N - 1, n \in Reached(f) PROVE n + 1 \in Reached(f)
    <3>1. n + 1 \in Nat
      BY <1>1
    <3>2. AfterTurns(members, n, f[n])
      BY <2>2
    <3> QED
      BY <1>8, <3>1, <3>2
  <2> HIDE DEF Reached
  <2> QED
    BY <1>1, <2>1, <2>2, InductUpTo
<1>10. f = B(f)
  <2>1. ASSUME NEW n \in 0 .. N
        PROVE  f[n] = IF n = 0 THEN Unread ELSE Turn(image, f[n - 1])
    <3>1. CASE n = 0
      BY <1>7, <3>1, Zenon
    <3>2. CASE n # 0
      <4>1. n - 1 \in 0 .. N - 1 /\ (n - 1) + 1 = n /\ n - 1 \in 0 .. N
        BY <1>1, <3>2
      <4>2. AfterTurns(members, n - 1, f[n - 1])
        BY <1>9, <4>1
      <4>3. f[(n - 1) + 1] = Turn(image, f[n - 1])
        BY <1>8, <4>1, <4>2, Zenon
      <4> QED
        BY <3>2, <4>1, <4>3
    <3> QED
      BY <3>1, <3>2, Zenon
  <2> QED
    BY <2>1
<1> DEFINE g == CHOOSE h : h = B(h)
<1>11. g = B(g)
  <2> HIDE DEF B
  <2> QED
    BY <1>10
<1>12. cpiofs_LoadDirectory(image) = g[N]
  BY Zenon DEF cpiofs_LoadDirectory, N, Unread
<1> HIDE DEF g
<1>13. g[0] = Unread /\ \A n \in 0 .. N : n # 0 => g[n] = Turn(image, g[n - 1])
  BY <1>1, <1>11
<1>14. 0 .. N \subseteq Reached(g)
  <2>1. 0 \in Reached(g)
    BY <1>13, NoTurn
  <2>2. ASSUME NEW n \in 0 .. N - 1, n \in Reached(g) PROVE n + 1 \in Reached(g)
    <3>1. n \in Nat /\ n + 1 \in 0 .. N /\ n + 1 \in Nat /\ n + 1 # 0 /\ (n + 1) - 1 = n
      BY <1>1
    <3>2. AfterTurns(members, n, g[n])
      BY <2>2
    <3>3. AfterTurns(members, n + 1, Turn(image, g[n]))
      BY <1>3, <3>1, <3>2, Zenon
    <3>4. g[n + 1] = Turn(image, g[n])
      BY <1>13, <3>1
    <3>5. AfterTurns(members, n + 1, g[n + 1])
      BY <3>3, <3>4, Zenon
    <3> QED
      BY <3>1, <3>5
  <2> HIDE DEF Reached
  <2> QED
    BY <1>1, <2>1, <2>2, InductUpTo
<1>15. AfterTurns(members, N, g[N]) /\ ~(N <= Len(members))
  <2>1. Len(members) \in Nat
    BY LenProperties DEF IsArchive
  <2> QED
    BY <1>1, <1>14, <2>1
<1>16. g[N].ok /\ FilesAdded(members, Len(members), g[N].fs)
         /\ HoldersNoted(members, Len(members), g[N].hardlink_map)
  BY <1>15, Zenon DEF AfterTurns
<1> QED
  BY <1>12, <1>16, Zenon DEF image
-----------------------------------------------------------------------------
(* What is served of an archive.                                           *)

LEMMA ContentsServed ==
  ASSUME NEW members, IsArchive(members), NEW i \in 1 .. Len(members),
         HeaderOf(members, i).filesize > 0
  PROVE  ContentsOf(ImageOf(members), Start(members, i)) = members[i].data
<1> DEFINE image == ImageOf(members)
           at == Start(members, i)
           c == HeaderOf(members, i)
           d == members[i].data
<1>1. image.headers[at] = c
  BY ImageHeaders, Zenon
<1>2. /\ members[i] \in Member /\ c.namesize \in Nat /\ c.filesize \in Nat
      /\ c.filesize = Len(d)
  BY HeaderType
<1>3. at \in Nat /\ at % 4 = 0
  BY StartType
<1>4. d \in Seq(Nat)
  BY <1>2 DEF Member
<1>5. SubSeq(d, 1, Len(d)) = d
  <2> DEFINE u == SubSeq(d, 1, Len(d))
  <2>1. Len(d) \in Nat /\ \A n \in 1 .. Len(d) : d[n] \in Nat
    BY <1>4, LenProperties, ElementOfSeq
  <2>2. /\ u \in Seq(Nat) /\ Len(u) = IF 1 <= Len(d) THEN Len(d) - 1 + 1 ELSE 0
        /\ \A n \in 1 .. Len(d) - 1 + 1 : u[n] = d[1 + n - 1]
    BY <1>4, <2>1, SubSeqProperties
  <2> HIDE DEF u, d
  <2>3. Len(u) = Len(d) /\ \A n \in 1 .. Len(d) : u[n] = d[n]
    BY <2>1, <2>2
  <2> QED
    BY <1>4, <2>2, <2>3, SeqEqual DEF u
<1>6. Body(at, c) \in DOMAIN image.contents /\ image.contents[Body(at, c)] = d
  BY ImageContents, Zenon
<1>7. c.filesize > 0
  OBVIOUS
<1> HIDE DEF image, at, c, d
<1>8. at + CpioHeaderSize + ContentsOffset(c) = Body(at, c)
  BY <1>2, <1>3, SameOffsets
<1>9. c.filesize # 0
  BY <1>2, <1>7
<1>10. ContentsOf(image, at) = SubSeq(image.contents[Body(at, c)], 1, c.filesize)
  BY <1>1, <1>6, <1>8, <1>9 DEF ContentsOf
<1>11. ContentsOf(image, at) = d
  BY <1>2, <1>5, <1>6, <1>10
<1> QED
  BY <1>11 DEF image, at, d

\* The names of an inode agree.
LEMMA NamesAgree ==
  ASSUME NEW members, IsArchive(members), NEW i \in 1 .. Len(members),
         NEW j \in 1 .. Len(members), i # j
  PROVE  /\ members[i].name # members[j].name
         /\ members[i].ino = members[j].ino =>
              /\ members[i].mode = members[j].mode /\ members[i].mode # "S_IFDIR"
              /\ members[i].data = members[j].data
              /\ members[i].nlink > 1
<1>1. DOMAIN members = 1 .. Len(members)
  BY LenProperties DEF IsArchive
<1> QED
  BY <1>1, Zenon DEF IsArchive

\* The size in the header is that of the contents, or 0 for all names but the
\* last.
LEMMA SizeInHeader ==
  ASSUME NEW members, IsArchive(members), NEW i \in 1 .. Len(members)
  PROVE  /\ members[i].data \in Seq(Nat) /\ Len(members[i].data) \in Nat
         /\ Len(members[i].data) = 0 <=> members[i].data = <<>>
         /\ ~Deferred(members, i) => HeaderOf(members, i).filesize = Len(members[i].data)
         /\ Deferred(members, i) => HeaderOf(members, i).filesize = 0
<1>1. members[i] \in Member
  BY HeaderType
<1>2. members[i].data \in Seq(Nat)
  BY <1>1 DEF Member
<1>3. /\ Len(members[i].data) \in Nat
      /\ Len(members[i].data) = 0 <=> members[i].data = <<>>
  BY <1>2, LenProperties, EmptySeq
<1> QED
  BY <1>2, <1>3, Zenon DEF HeaderOf

\* A file with several names and contents has one name that holds them: the
\* last.
LEMMA OneHolds ==
  ASSUME NEW members, IsArchive(members), NEW i \in 1 .. Len(members),
         members[i].mode = "S_IFREG", members[i].data # <<>>, members[i].nlink > 1
  PROVE  \E h \in Holders(members, Len(members)) : members[h].ino = members[i].ino
<1> DEFINE N == Len(members)
           Same == {j \in 1 .. N : members[j].ino = members[i].ino}
           T == {N - j : j \in Same}
<1>1. N \in Nat
  BY LenProperties DEF IsArchive
<1>2. T \in SUBSET Nat /\ T # {}
  <2>1. i \in Same
    OBVIOUS
  <2> QED
    BY <1>1, <2>1
<1>3. PICK x \in T : \A y \in T : x <= y
  <2> HIDE DEF T
  <2> QED
    BY <1>2, LeastNumber
<1>4. PICK h \in Same : x = N - h
  BY <1>3
<1>5. h \in 1 .. N /\ members[h].ino = members[i].ino
  OBVIOUS
<1>6. ASSUME NEW j \in h + 1 .. N, members[j].ino = members[h].ino PROVE FALSE
  <2>1. j \in Same /\ N - j < N - h
    BY <1>1, <1>5, <1>6
  <2>2. N - j \in T
    BY <2>1
  <2>3. h \in Int /\ j \in Int
    BY <1>1, <1>5
  <2> HIDE DEF Same, T
  <2>4. N - h <= N - j
    BY <1>3, <1>4, <2>2
  <2> QED
    BY <1>1, <2>1, <2>3, <2>4
<1> HIDE DEF Same, T
<1>7. ~Deferred(members, h)
  BY <1>6, Zenon DEF Deferred, N
<1>8. /\ members[h].mode = "S_IFREG" /\ members[h].data = members[i].data
      /\ members[h].nlink > 1
  <2>1. CASE h = i
    BY <2>1
  <2>2. CASE h # i
    BY <1>5, <2>2, NamesAgree, Zenon DEF N
  <2> QED
    BY <2>1, <2>2
<1>9. HeaderOf(members, h).filesize > 0
  <2>1. h \in 1 .. Len(members)
    BY <1>5 DEF N
  <2>2. /\ Len(members[h].data) \in Nat /\ Len(members[h].data) # 0
        /\ HeaderOf(members, h).filesize = Len(members[h].data)
    BY <1>7, <1>8, <2>1, SizeInHeader, Zenon
  <2> QED
    BY <2>2
<1>10. h \in Holders(members, N)
  BY <1>5, <1>8, <1>9, Zenon DEF Holders, Files
<1> QED
  BY <1>5, <1>10, Zenon DEF N
\* Where a file is served from: its own header, or the one that holds the
\* contents, if there are any.
ServedFrom(members, i, where) ==
  IF members[i].nlink > 1 /\ members[i].data = <<>> THEN where = NoHeader
  ELSE \E h \in 1 .. Len(members) :
         /\ where = Start(members, h)
         /\ HeaderOf(members, h).filesize = Len(members[i].data)
         /\ members[h].data = members[i].data

LEMMA Resolved ==
  ASSUME NEW members, IsArchive(members), NEW i \in 1 .. Len(members),
         members[i].mode = "S_IFREG", NEW loaded,
         HoldersNoted(members, Len(members), loaded.hardlink_map)
  PROVE  ServedFrom(members, i, resolveHardlink(ImageOf(members), loaded, Start(members, i)))
<1> DEFINE image == ImageOf(members)
           at == Start(members, i)
           c == HeaderOf(members, i)
           m == members[i]
           map == loaded.hardlink_map
           where == resolveHardlink(image, loaded, at)
           Hold == Holders(members, Len(members))
<1>1. image.headers[at] = c
  BY ImageHeaders, Zenon
<1>2. /\ m \in Member /\ c.nlink = m.nlink /\ c.ino = m.ino /\ c.filesize \in Nat
      /\ m.nlink \in Nat \ {0}
  <2>1. m \in Member /\ c.nlink = m.nlink /\ c.ino = m.ino /\ c.filesize \in Nat
    BY HeaderType
  <2> QED
    BY <2>1 DEF Member
<1>3. /\ m.data \in Seq(Nat) /\ Len(m.data) \in Nat /\ (Len(m.data) = 0 <=> m.data = <<>>)
      /\ (~Deferred(members, i) => c.filesize = Len(m.data))
      /\ (Deferred(members, i) => c.filesize = 0)
  BY SizeInHeader, Zenon
<1>4. Deferred(members, i) => m.nlink > 1
  <2>1. ASSUME Deferred(members, i) PROVE m.nlink > 1
    <3>1. PICK j \in i + 1 .. Len(members) : members[j].ino = m.ino
      BY <2>1, Zenon DEF Deferred
    <3>2. j \in 1 .. Len(members) /\ j # i
      <4>1. Len(members) \in Nat
        BY LenProperties DEF IsArchive
      <4> QED
        BY <4>1
    <3> QED
      BY <3>1, <3>2, NamesAgree, Zenon
  <2> QED
    BY <2>1
<1>5. /\ DOMAIN map = {members[j].ino : j \in Hold}
      /\ \A k \in DOMAIN map : \E j \in Hold : members[j].ino = k /\ map[k] = Start(members, j)
  BY Zenon DEF HoldersNoted
<1>6. ASSUME NEW h \in Hold, members[h].ino = m.ino
      PROVE  /\ h \in 1 .. Len(members) /\ members[h].data = m.data /\ m.data # <<>>
             /\ HeaderOf(members, h).filesize = Len(m.data)
  <2>1. h \in 1 .. Len(members) /\ HeaderOf(members, h).filesize > 0
    BY Zenon DEF Holders, Files
  <2>2. members[h].data = m.data
    <3>1. CASE h = i
      BY <3>1, Zenon
    <3>2. CASE h # i
      BY <1>6, <2>1, <3>2, NamesAgree, Zenon
    <3> QED
      BY <3>1, <3>2
  <2>3. HeaderOf(members, h).filesize = Len(members[h].data)
    BY <2>1, HeaderType
  <2>4. Len(m.data) > 0
    BY <2>1, <2>2, <2>3
  <2> QED
    BY <1>3, <2>1, <2>2, <2>3, <2>4
<1>7. where = CASE c.nlink = 1 \/ c.filesize > 0 -> at
                [] c.nlink # 1 /\ c.filesize = 0 /\ c.ino \in DOMAIN map -> map[c.ino]
                [] OTHER -> NoHeader
  BY <1>1, Zenon DEF resolveHardlink, HardlinkKey
<1>8. i \in 1 .. Len(members) /\ m = members[i] /\ m.mode = "S_IFREG" /\ c = HeaderOf(members, i)
      /\ at = Start(members, i)
  OBVIOUS
<1> HIDE DEF image, at, c, m, map, where, Hold
<1>9. CASE c.nlink = 1 \/ c.filesize > 0
  <2>1. where = at
    BY <1>7, <1>9
  <2>2. ~(m.nlink > 1 /\ m.data = <<>>)
    BY <1>2, <1>3, <1>9
  <2>3. c.filesize = Len(m.data)
    BY <1>2, <1>3, <1>4, <1>9
  <2>4. \E h \in 1 .. Len(members) :
          /\ where = Start(members, h) /\ HeaderOf(members, h).filesize = Len(m.data)
          /\ members[h].data = m.data
    BY <1>8, <2>1, <2>3, Zenon
  <2> QED
    BY <2>2, <2>4, Zenon DEF where, image, at, m, ServedFrom
<1>10. CASE ~(c.nlink = 1 \/ c.filesize > 0) /\ m.data = <<>>
  <2>1. c.ino \notin DOMAIN map
    BY <1>2, <1>5, <1>6, <1>10
  <2>2. where = NoHeader
    BY <1>7, <1>10, <2>1
  <2>3. m.nlink > 1
    BY <1>2, <1>10
  <2> QED
    BY <1>10, <2>2, <2>3, Zenon DEF where, image, at, m, ServedFrom
<1>11. CASE ~(c.nlink = 1 \/ c.filesize > 0) /\ m.data # <<>>
  <2>1. c.nlink # 1 /\ c.filesize = 0 /\ m.nlink > 1
    BY <1>2, <1>11
  <2>2. \E h \in Hold : members[h].ino = m.ino
    BY <1>8, <1>11, <2>1, OneHolds DEF Hold
  <2>3. c.ino \in DOMAIN map
    BY <1>2, <1>5, <2>2
  <2>4. where = map[c.ino]
    BY <1>7, <1>11, <2>1, <2>3
  <2>5. PICK h \in Hold : members[h].ino = c.ino /\ map[c.ino] = Start(members, h)
    BY <1>5, <2>3, Zenon
  <2>6. /\ h \in 1 .. Len(members) /\ members[h].data = m.data
        /\ HeaderOf(members, h).filesize = Len(m.data)
    BY <1>2, <1>6, <2>5
  <2>7. \E k \in 1 .. Len(members) :
          /\ where = Start(members, k) /\ HeaderOf(members, k).filesize = Len(m.data)
          /\ members[k].data = m.data
    BY <2>4, <2>5, <2>6, Zenon
  <2> QED
    BY <1>11, <2>7, Zenon DEF where, image, at, m, ServedFrom
<1> QED
  BY <1>9, <1>10, <1>11
\* What is read of a header is what its body holds.
LEMMA ReadAt ==
  ASSUME NEW members, IsArchive(members), NEW h \in 1 .. Len(members),
         HeaderOf(members, h).filesize = Len(members[h].data)
  PROVE  ContentsOf(ImageOf(members), Start(members, h)) = members[h].data
<1>1. /\ Len(members[h].data) \in Nat /\ (Len(members[h].data) = 0 <=> members[h].data = <<>>)
  BY SizeInHeader, Zenon
<1>2. ImageOf(members).headers[Start(members, h)] = HeaderOf(members, h)
  BY ImageHeaders, Zenon
<1>3. CASE HeaderOf(members, h).filesize = 0
  <2>1. ContentsOf(ImageOf(members), Start(members, h)) = <<>>
    BY <1>2, <1>3, Zenon DEF ContentsOf
  <2>2. Len(members[h].data) = 0
    BY <1>3
  <2> QED
    BY <1>1, <2>1, <2>2, Zenon
<1>4. CASE HeaderOf(members, h).filesize # 0
  <2>1. HeaderOf(members, h).filesize > 0
    BY <1>1, <1>4
  <2> QED
    BY <2>1, ContentsServed, Zenon
<1> QED
  BY <1>3, <1>4

LEMMA FileServed ==
  ASSUME NEW members, IsArchive(members), NEW i \in 1 .. Len(members), NEW loaded,
         FilesAdded(members, Len(members), loaded.fs),
         HoldersNoted(members, Len(members), loaded.hardlink_map)
  PROVE  MemberServed(ImageOf(members), loaded, members[i])
<1> DEFINE image == ImageOf(members)
           m == members[i]
           dies == m.nlink > 1 /\ m.data = <<>>
           at == Start(members, i)
           All == Files(members, Len(members))
<1>1. DOMAIN loaded.fs = {members[j].name : j \in All}
      /\ \A j \in All : loaded.fs[members[j].name] = Start(members, j)
  BY Zenon DEF FilesAdded
<1>2. i \in All <=> m.mode \in {"S_IFREG", "S_IFLNK"}
  BY DEF Files
<1>3. m.mode \in {"S_IFREG", "S_IFLNK", "S_IFDIR"}
  <2>1. m \in Member
    BY HeaderType
  <2> QED
    BY <2>1 DEF Member
<1>4. image.headers[at] = HeaderOf(members, i) /\ HeaderOf(members, i).mode = m.mode
  <2>1. HeaderOf(members, i).mode = m.mode
    BY HeaderType
  <2> QED
    BY <2>1, ImageHeaders, Zenon
<1>5. CASE m.mode = "S_IFDIR"
  <2>1. ASSUME NEW j \in All PROVE members[j].name # m.name
    <3>1. j \in 1 .. Len(members) /\ members[j].mode \in {"S_IFREG", "S_IFLNK"}
      BY Zenon DEF Files
    <3>2. j # i
      BY <1>5, <3>1
    <3> QED
      BY <3>1, <3>2, NamesAgree, Zenon
  <2>2. m.name \notin DOMAIN loaded.fs
    BY <1>1, <2>1
  <2> QED
    BY <1>5, <2>2 DEF MemberServed
<1>6. CASE m.mode = "S_IFLNK"
  <2>1. m.name \in DOMAIN loaded.fs /\ loaded.fs[m.name] = at
    BY <1>1, <1>2, <1>6
  <2>2. ~Deferred(members, i)
    BY <1>6 DEF Deferred
  <2>3. HeaderOf(members, i).filesize = Len(m.data)
    BY <2>2, SizeInHeader, Zenon
  <2>4. ContentsOf(image, at) = m.data
    BY <2>3, ReadAt, Zenon
  <2>5. cpio_readlink(image, loaded, m.name) = m.data
    BY <2>1, <2>4, Zenon DEF cpio_readlink
  <2> QED
    BY <1>6, <2>5 DEF MemberServed
<1>7. CASE m.mode = "S_IFREG"
  <2> DEFINE where == resolveHardlink(image, loaded, at)
  <2>1. m.name \in DOMAIN loaded.fs /\ loaded.fs[m.name] = at
    BY <1>1, <1>2, <1>7
  <2>2. IF dies THEN where = NoHeader
        ELSE \E h \in 1 .. Len(members) :
               /\ where = Start(members, h) /\ HeaderOf(members, h).filesize = Len(m.data)
               /\ members[h].data = m.data
    <3>1. ServedFrom(members, i, where)
      BY <1>7, Resolved, Zenon
    <3> QED
      BY <3>1, Zenon DEF ServedFrom
  <2>3. /\ cpio_getattr(image, loaded, m.name) =
             IF where = NoHeader THEN Crash
             ELSE <<image.headers[at].mode, image.headers[where].filesize>>
        /\ cpio_read(image, loaded, m.name) =
             IF where = NoHeader THEN Crash ELSE ContentsOf(image, where)
    BY <2>1, Zenon DEF cpio_getattr, cpio_read
  <2>4. /\ cpio_getattr(image, loaded, m.name) = IF dies THEN Crash ELSE <<m.mode, Len(m.data)>>
        /\ cpio_read(image, loaded, m.name) = IF dies THEN Crash ELSE m.data
    <3>1. CASE dies
      BY <2>2, <2>3, <3>1, Zenon
    <3>2. CASE ~dies
      <4>1. PICK h \in 1 .. Len(members) :
              /\ where = Start(members, h) /\ HeaderOf(members, h).filesize = Len(m.data)
              /\ members[h].data = m.data
        BY <2>2, <3>2, Zenon
      <4>2. HeaderOf(members, h).filesize = Len(members[h].data)
        BY <4>1, Zenon
      <4>3. ContentsOf(image, where) = m.data
        BY <4>1, <4>2, ReadAt, Zenon
      <4>4. image.headers[where].filesize = Len(m.data)
        <5>1. image.headers[Start(members, h)] = HeaderOf(members, h)
          BY ImageHeaders, Zenon
        <5> QED
          BY <4>1, <5>1, Zenon
      <4>5. where # NoHeader
        <5>1. Start(members, h) \in Nat
          BY StartType
        <5>2. Start(members, h) # NoHeader
          BY <5>1 DEF NoHeader
        <5> QED
          BY <4>1, <5>2, Zenon
      <4> QED
        BY <1>4, <2>3, <3>2, <4>3, <4>4, <4>5, Zenon
    <3> QED
      BY <3>1, <3>2
  <2> HIDE DEF where, image
  <2> QED
    BY <1>7, <2>4 DEF MemberServed, image
<1> QED
  BY <1>3, <1>5, <1>6, <1>7

\* MembersServed, for every archive: any number of members with names and
\* contents of any size, and any inodes shared in any order.  LoadDirectory
\* finds every header, and each file has its own mode, size and contents;
\* only an empty file with several names ends the daemon.
LEMMA MembersAreServed ==
  ASSUME NEW members, IsArchive(members)
  PROVE  MembersServed(members)
<1> DEFINE image == ImageOf(members)
           loaded == cpiofs_LoadDirectory(image)
<1>1. /\ loaded.ok
      /\ FilesAdded(members, Len(members), loaded.fs)
      /\ HoldersNoted(members, Len(members), loaded.hardlink_map)
  BY LoopLoads, Zenon
<1>2. DOMAIN members = 1 .. Len(members)
  BY LenProperties DEF IsArchive
<1> HIDE DEF loaded
<1>3. \A i \in 1 .. Len(members) : MemberServed(image, loaded, members[i])
  BY <1>1, FileServed, Zenon
<1> QED
  BY <1>1, <1>2, <1>3, Zenon DEF MembersServed, loaded, image

-----------------------------------------------------------------------------
(* Quotients and remainders.                                                *)

LEMMA TimesLess ==
  ASSUME NEW x \in Nat, NEW y \in Nat, NEW b \in Nat, x < y
  PROVE  x * b + b <= y * b /\ x * b \in Nat /\ y * b \in Nat
<1>1. PICK e \in Nat : y = x + 1 + e
  <2>1. y - x - 1 \in Nat /\ y = x + 1 + (y - x - 1)
    OBVIOUS
  <2> QED
    BY <2>1
<1>2. y * b = x * b + b + e * b
  BY <1>1
<1>3. x * b \in Nat /\ e * b \in Nat /\ y * b \in Nat
  OBVIOUS
<1> QED
  BY <1>2, <1>3

LEMMA DivIs ==
  ASSUME NEW b \in Nat \ {0}, NEW q \in Nat, NEW r \in 0 .. b - 1
  PROVE  (q * b + r) \div b = q /\ (q * b + r) % b = r
<1> DEFINE a == q * b + r
           p == a \div b
           m == a % b
<1>1. a \in Nat /\ q * b \in Nat
  OBVIOUS
<1> HIDE DEF a
<1>2. p \in Nat /\ m \in 0 .. b - 1 /\ a = p * b + m
  BY <1>1
<1> HIDE DEF p, m
<1>3. ~(p < q)
  <2> SUFFICES ASSUME p < q PROVE FALSE
    OBVIOUS
  <2>1. p * b + b <= q * b /\ p * b \in Nat
    BY <1>2, TimesLess
  <2> QED
    BY <1>1, <1>2, <2>1 DEF a
<1>4. ~(q < p)
  <2> SUFFICES ASSUME q < p PROVE FALSE
    OBVIOUS
  <2>1. q * b + b <= p * b /\ p * b \in Nat
    BY <1>2, TimesLess
  <2> QED
    BY <1>1, <1>2, <2>1 DEF a
<1>5. p = q
  BY <1>2, <1>3, <1>4
<1>6. m = r
  BY <1>1, <1>2, <1>5 DEF a
<1> QED
  BY <1>5, <1>6 DEF a, p, m

LEMMA DivMod ==
  ASSUME NEW a \in Nat, NEW b \in Nat \ {0}
  PROVE  a \div b \in Nat /\ a % b \in 0 .. b - 1 /\ a = (a \div b) * b + (a % b)
         /\ (a \div b) * b \in Nat
OBVIOUS

\* A quotient is below a bound if the number is below its multiple.
LEMMA DivLess ==
  ASSUME NEW a \in Nat, NEW b \in Nat \ {0}, NEW q \in Nat, a < q * b
  PROVE  a \div b < q
<1> DEFINE p == a \div b
<1>1. p \in Nat /\ p * b \in Nat /\ p * b <= a
  BY DivMod
<1> HIDE DEF p
<1>2. ~(q < p)
  <2> SUFFICES ASSUME q < p PROVE FALSE
    OBVIOUS
  <2>1. q * b + b <= p * b /\ q * b \in Nat
    BY <1>1, TimesLess
  <2> QED
    BY <1>1, <2>1
<1>3. p # q
  BY <1>1
<1> QED
  BY <1>1, <1>2, <1>3 DEF p

LEMMA TimesSame ==
  ASSUME NEW x \in Nat, NEW y \in Nat, NEW b \in Nat \ {0}, x * b = y * b
  PROVE  x = y
<1>1. ~(x < y)
  <2> SUFFICES ASSUME x < y PROVE FALSE
    OBVIOUS
  <2>1. x * b + b <= y * b /\ x * b \in Nat
    BY TimesLess
  <2> QED
    BY <2>1
<1>2. ~(y < x)
  <2> SUFFICES ASSUME y < x PROVE FALSE
    OBVIOUS
  <2>1. y * b + b <= x * b /\ y * b \in Nat
    BY TimesLess
  <2> QED
    BY <2>1
<1> QED
  BY <1>1, <1>2

LEMMA MinOfTwo ==
  ASSUME NEW a \in Int, NEW b \in Int
  PROVE  Min({a, b}) = IF a <= b THEN a ELSE b
<1> DEFINE P(x) == x \in {a, b} /\ \A y \in {a, b} : x <= y
<1>1. Min({a, b}) = CHOOSE x \in {a, b} : \A y \in {a, b} : x <= y
  BY DEF Min
<1>2. \E x \in {a, b} : \A y \in {a, b} : x <= y
  OBVIOUS
<1>3. Min({a, b}) \in {a, b} /\ \A y \in {a, b} : Min({a, b}) <= y
  BY <1>1, <1>2
<1> QED
  BY <1>3

LEMMA MaxOfTwo ==
  ASSUME NEW a \in Int, NEW b \in Int
  PROVE  Max({a, b}) = IF a <= b THEN b ELSE a
<1>1. Max({a, b}) = CHOOSE x \in {a, b} : \A y \in {a, b} : x >= y
  BY DEF Max
<1>2. \E x \in {a, b} : \A y \in {a, b} : x >= y
  OBVIOUS
<1>3. Max({a, b}) \in {a, b} /\ \A y \in {a, b} : Max({a, b}) >= y
  BY <1>1, <1>2
<1> QED
  BY <1>3

-----------------------------------------------------------------------------
(* An image.                                                                *)

LEMMA ShiftType ==
  ASSUME NEW n \in Nat, NEW k \in Nat, n % 2 = 0
  PROVE  ShiftLeft(n, k) \in Nat /\ ShiftLeft(n, k) >= n /\ ShiftLeft(n, k) % 2 = 0
<1> DEFINE S == {x \in Nat : x >= n /\ x % 2 = 0}
           B(g) == [i \in 0 .. k |-> IF i = 0 THEN n ELSE 2 * g[i - 1]]
           step == [i \in Nat |-> [x \in S |-> 2 * x]]
<1>1. n \in S /\ \A x \in S : 2 * x \in S
  OBVIOUS
<1>2. step \in [Nat -> [S -> S]]
  BY <1>1
<1>3. \A i \in Nat, x \in S : step[i][x] = 2 * x
  OBVIOUS
<1> HIDE DEF S, step
<1>4. Runs(S, n, step, k) # {}
  BY <1>1, <1>2, LoopRuns, Zenon
<1>5. PICK f \in [0 .. k -> S] : f[0] = n /\ \A i \in 0 .. k - 1 : f[i + 1] = step[i][f[i]]
  BY <1>4, Zenon DEF Runs
<1>6. f = B(f)
  <2>1. ASSUME NEW i \in 0 .. k PROVE f[i] = IF i = 0 THEN n ELSE 2 * f[i - 1]
    <3>1. CASE i = 0
      BY <1>5, <3>1
    <3>2. CASE i # 0
      <4>1. i - 1 \in 0 .. k - 1 /\ (i - 1) + 1 = i /\ i - 1 \in 0 .. k /\ i - 1 \in Nat
        BY <3>2
      <4>2. f[i - 1] \in S
        BY <1>5, <4>1
      <4>3. f[(i - 1) + 1] = step[i - 1][f[i - 1]]
        BY <1>5, <4>1
      <4> QED
        BY <1>3, <3>2, <4>1, <4>2, <4>3
    <3> QED
      BY <3>1, <3>2
  <2> QED
    BY <1>5, <2>1
<1> DEFINE g == CHOOSE h : h = B(h)
<1>7. g = B(g)
  <2> HIDE DEF B
  <2> QED
    BY <1>6
<1>8. ShiftLeft(n, k) = g[k]
  BY Zenon DEF ShiftLeft
<1> HIDE DEF g
<1>9. g[0] = n /\ \A i \in 0 .. k - 1 : g[i + 1] = 2 * g[i]
  <2>1. \A i \in 0 .. k : g[i] = IF i = 0 THEN n ELSE 2 * g[i - 1]
    BY <1>7
  <2>2. ASSUME NEW i \in 0 .. k - 1 PROVE g[i + 1] = 2 * g[i]
    <3>1. i + 1 \in 0 .. k /\ i + 1 # 0 /\ (i + 1) - 1 = i
      OBVIOUS
    <3> QED
      BY <2>1, <3>1
  <2>3. g[0] = n
    BY <2>1
  <2> QED
    BY <2>2, <2>3
<1>10. \A i \in 0 .. k : g[i] \in S
  BY <1>1, <1>9, LoopStays
<1> QED
  BY <1>8, <1>10 DEF S

\* What is known of a layout.
Sound(l) ==
  /\ l.bs \in Nat /\ l.bs >= 16 /\ l.bs % 2 = 0
  /\ l.n_ind \in Nat /\ l.n_ind >= 1 /\ l.n_ind = l.bs \div PointerSize
  /\ l.blocks \in Nat /\ l.doubles \in Nat
  /\ l.desc \in Nat /\ l.desc >= 1
  /\ l.table = l.desc + 1 /\ l.root = l.desc + 5 /\ l.late = l.desc + 6 /\ l.dir = l.desc + 7
  /\ l.ind = l.desc + 8 /\ l.dind = l.desc + 9 /\ l.data = l.desc + 10 + l.doubles

LEMMA LayoutSound ==
  ASSUME NEW log \in Nat, NEW size \in Nat
  PROVE  LET l == Layout(log, size)
         IN /\ Sound(l)
            /\ l.bs = ShiftLeft(MinBlock, log)
            /\ l.desc = (MinBlock \div l.bs) + 1
            /\ l.blocks = (size + l.bs - 1) \div l.bs
            /\ l.doubles = IF l.blocks <= NDirBlocks + l.n_ind THEN 0
                           ELSE (l.blocks - NDirBlocks - 1) \div l.n_ind
<1> DEFINE l == Layout(log, size)
           bs == ShiftLeft(MinBlock, log)
           n_ind == bs \div PointerSize
           blocks == (size + bs - 1) \div bs
           desc == (MinBlock \div bs) + 1
           doubles == IF blocks <= NDirBlocks + n_ind THEN 0
                      ELSE (blocks - NDirBlocks - 1) \div n_ind
<1>1. /\ l.bs = bs /\ l.n_ind = n_ind /\ l.blocks = blocks /\ l.desc = desc
      /\ l.doubles = doubles
      /\ l.table = desc + 1 /\ l.root = desc + 5 /\ l.late = desc + 6 /\ l.dir = desc + 7
      /\ l.ind = desc + 8 /\ l.dind = desc + 9 /\ l.data = desc + 10 + doubles
  BY DEF Layout
<1>2. bs \in Nat /\ bs >= 16 /\ bs % 2 = 0 /\ bs >= MinBlock
  <2>1. bs \in Nat /\ bs >= MinBlock /\ bs % 2 = 0
    BY Ext2Assumption, ShiftType
  <2> HIDE DEF bs
  <2> QED
    BY <2>1, Ext2Assumption
<1> HIDE DEF l, bs
<1>3. n_ind \in Nat /\ n_ind >= 1
  <2>1. PointerSize \in Nat /\ PointerSize >= 1 /\ PointerSize <= bs
    BY <1>2, Ext2Assumption
  <2>2. n_ind \in Nat
    BY <1>2, <2>1
  <2>3. n_ind # 0
    <3>1. bs = n_ind * PointerSize + (bs % PointerSize) /\ bs % PointerSize \in 0 .. PointerSize - 1
      BY <1>2, <2>1, DivMod
    <3> HIDE DEF n_ind
    <3> QED
      BY <2>1, <2>2, <3>1
  <2> QED
    BY <2>2, <2>3
<1>4. blocks \in Nat
  BY <1>2
<1>5. desc \in Nat /\ desc >= 1
  <2>1. MinBlock \div bs \in Nat
    BY <1>2, Ext2Assumption, DivMod
  <2> QED
    BY <2>1
<1> HIDE DEF n_ind, blocks, desc
<1>6. doubles \in Nat
  <2>1. ASSUME ~(blocks <= NDirBlocks + n_ind) PROVE (blocks - NDirBlocks - 1) \div n_ind \in Nat
    <3>1. blocks - NDirBlocks - 1 \in Nat
      BY <1>3, <1>4, <2>1, Ext2Assumption
    <3> QED
      BY <1>3, <3>1, DivMod
  <2> QED
    BY <2>1
<1>7. Sound(l)
  <2>1. n_ind = bs \div PointerSize
    BY DEF n_ind
  <2> HIDE DEF doubles
  <2> QED
    BY <1>1, <1>2, <1>3, <1>4, <1>5, <1>6, <2>1 DEF Sound
<1> QED
  BY <1>1, <1>7, Zenon DEF l, bs, n_ind, blocks, desc, doubles

\* What an image says of itself, and where its inodes are.
LEMMA DiskIs ==
  ASSUME NEW d, IsDisk(d)
  PROVE  LET l == Layout(d.log, d.size)
             image == DiskImage(d)
         IN /\ Sound(l)
            /\ BlockSize(image) = l.bs
            /\ image.magic = "0xef53" /\ image.feature_incompat = {"FILETYPE"}
            /\ image.filesize = (l.data + 2 * l.blocks) * l.bs
            /\ \A n \in 2 .. 4 : Inode(image, n) = SlotOf(l, n)
            /\ image.inodes[SlotOf(l, 2)] = RootInode(l)
            /\ image.inodes[SlotOf(l, 3)] = DirInode(l)
            /\ image.inodes[SlotOf(l, 4)] = FileInode(l, d.mode, d.size)
<1> DEFINE l == Layout(d.log, d.size)
           image == DiskImage(d)
           h == l.bs \div 2
<1>1. d.log \in Nat /\ d.size \in Nat
  BY DEF IsDisk, Disk
<1>2. Sound(l) /\ l.bs = ShiftLeft(MinBlock, d.log) /\ l.desc = (MinBlock \div l.bs) + 1
  BY <1>1, LayoutSound, Zenon
<1>3. /\ image.log_block_size = d.log /\ image.inodes_per_group = 8 /\ image.inode_size = h
      /\ image.magic = "0xef53" /\ image.feature_incompat = {"FILETYPE"}
      /\ image.filesize = (l.data + 2 * l.blocks) * l.bs
      /\ image.group_desc = [x \in {l.desc * l.bs} |-> [n \in {0} |-> l.table]]
      /\ image.inodes = [x \in {SlotOf(l, n) : n \in 2 .. 4} |->
                           IF x = SlotOf(l, 2) THEN RootInode(l)
                           ELSE IF x = SlotOf(l, 3) THEN DirInode(l)
                           ELSE FileInode(l, d.mode, d.size)]
  BY DEF DiskImage
<1> HIDE DEF l, image
<1>4. BlockSize(image) = l.bs
  BY <1>2, <1>3, Zenon DEF BlockSize
<1>5. /\ l.bs \in Nat /\ l.bs >= 16 /\ h \in Nat /\ h >= 8 /\ l.bs = 2 * h
      /\ l.desc \in Nat /\ l.table = l.desc + 1
  BY <1>2 DEF Sound
<1> HIDE DEF h
<1>6. GroupDesc(image, 0) = l.table
  <2>1. block_group_descriptor_table_block_number(image) = l.desc
    BY <1>2, <1>4, Zenon DEF block_group_descriptor_table_block_number
  <2>2. ReadBlock(image, l.desc) = l.desc * l.bs
    BY <1>4, Zenon DEF ReadBlock
  <2>3. image.group_desc[l.desc * l.bs][0] = l.table
    BY <1>3
  <2> QED
    BY <2>1, <2>2, <2>3, Zenon DEF GroupDesc
<1>7. ASSUME NEW n \in 2 .. 4 PROVE Inode(image, n) = SlotOf(l, n)
  <2> DEFINE index == (n - 1) % 8
             group == (n - 1) \div 8
             block == (index * h) \div l.bs
             inside == (index * h) % l.bs
  <2>1. Inode(image, n) = ReadBlock(image, GroupDesc(image, group) + block) + inside
    BY <1>3, <1>4 DEF Inode
  <2>2. index = n - 1 /\ group = 0
    OBVIOUS
  <2>3. block \in Nat /\ inside \in Nat /\ block * l.bs + inside = (n - 1) * h
    <3> DEFINE at == index * h
    <3>1. at \in Nat /\ at = (n - 1) * h
      BY <1>5, <2>2
    <3>2. l.bs \in Nat \ {0}
      BY <1>5
    <3> HIDE DEF at
    <3>3. at \div l.bs \in Nat /\ at % l.bs \in 0 .. l.bs - 1
          /\ at = (at \div l.bs) * l.bs + (at % l.bs)
      BY <3>1, <3>2, DivMod
    <3>4. block = at \div l.bs /\ inside = at % l.bs
      BY DEF at
    <3> HIDE DEF block, inside
    <3> QED
      BY <3>1, <3>2, <3>3, <3>4
  <2> HIDE DEF index, group, block, inside
  <2>4. Inode(image, n) = (l.table + block) * l.bs + inside
    BY <1>4, <1>6, <2>1, <2>2 DEF ReadBlock
  <2>5. (l.table + block) * l.bs = l.table * l.bs + block * l.bs
    BY <1>5, <2>3
  <2>6. SlotOf(l, n) = l.table * l.bs + (n - 1) * h
    BY DEF SlotOf, h
  <2>7. l.table * l.bs \in Nat /\ block * l.bs \in Nat /\ (n - 1) * h \in Nat
    BY <1>5, <2>3
  <2> QED
    BY <2>3, <2>4, <2>5, <2>6, <2>7
<1>8. SlotOf(l, 2) # SlotOf(l, 3) /\ SlotOf(l, 2) # SlotOf(l, 4) /\ SlotOf(l, 3) # SlotOf(l, 4)
  <2> DEFINE t == l.table * l.bs
  <2>1. t \in Nat
    BY <1>5
  <2>2. SlotOf(l, 2) = t + (2 - 1) * h /\ SlotOf(l, 3) = t + (3 - 1) * h /\ SlotOf(l, 4) = t + (4 - 1) * h
    BY Zenon DEF SlotOf, h
  <2> HIDE DEF t
  <2> QED
    BY <1>5, <2>1, <2>2
<1>9. /\ image.inodes[SlotOf(l, 2)] = RootInode(l) /\ image.inodes[SlotOf(l, 3)] = DirInode(l)
      /\ image.inodes[SlotOf(l, 4)] = FileInode(l, d.mode, d.size)
  BY <1>3, <1>8
<1> QED
  BY <1>2, <1>3, <1>4, <1>7, <1>9, Zenon DEF l, image

\* An image that is made, and its layout.
Made(d, l, image) == IsDisk(d) /\ l = Layout(d.log, d.size) /\ image = DiskImage(d)

LEMMA MadeIs ==
  ASSUME NEW d, NEW l, NEW image, Made(d, l, image)
  PROVE  /\ Sound(l)
         /\ BlockSize(image) = l.bs
         /\ image.magic = "0xef53" /\ image.feature_incompat = {"FILETYPE"}
         /\ image.filesize = (l.data + 2 * l.blocks) * l.bs
         /\ \A n \in 2 .. 4 : Inode(image, n) = SlotOf(l, n)
         /\ image.inodes[SlotOf(l, 2)] = RootInode(l)
         /\ image.inodes[SlotOf(l, 3)] = DirInode(l)
         /\ image.inodes[SlotOf(l, 4)] = FileInode(l, d.mode, d.size)
  BY DiskIs, Zenon DEF Made

LEMMA MadeSizes ==
  ASSUME NEW d, NEW l, NEW image, Made(d, l, image)
  PROVE  /\ d.size \in Nat
         /\ l.blocks = (d.size + l.bs - 1) \div l.bs
         /\ l.doubles = IF l.blocks <= NDirBlocks + l.n_ind THEN 0
                        ELSE (l.blocks - NDirBlocks - 1) \div l.n_ind
<1>1. d.log \in Nat /\ d.size \in Nat /\ l = Layout(d.log, d.size)
  BY DEF Made, IsDisk, Disk
<1> QED
  BY <1>1, LayoutSound, Zenon

\* The blocks of pointers, and the entries of directories.
PointerBlocks(l) == {0, l.ind} \cup l.dind .. l.dind + l.doubles
PointersRead(l, image, block) ==
  \A i \in 0 .. l.n_ind - 1 : image.pointers[ReadBlock(image, block)][i] = PointerIn(l, block, i)

LEMMA PointersAt ==
  ASSUME NEW d, NEW l, NEW image, Made(d, l, image), NEW block \in PointerBlocks(l)
  PROVE  PointersRead(l, image, block)
<1>1. image.pointers = [x \in {b * l.bs : b \in PointerBlocks(l)} |->
                          [i \in 0 .. l.n_ind - 1 |-> PointerIn(l, x \div l.bs, i)]]
  BY DEF Made, DiskImage, PointerBlocks
<1>2. Sound(l) /\ BlockSize(image) = l.bs
  BY MadeIs, Zenon
<1>3. block \in Nat /\ l.bs \in Nat \ {0}
  BY <1>2 DEF Sound, PointerBlocks
<1>4. (block * l.bs + 0) \div l.bs = block
  <2>1. 0 \in 0 .. l.bs - 1
    BY <1>3
  <2> QED
    BY <1>3, <2>1, DivIs, Zenon
<1>5. block * l.bs + 0 = block * l.bs
  BY <1>3
<1>6. ReadBlock(image, block) = block * l.bs
  BY <1>2, Zenon DEF ReadBlock
<1>7. (block * l.bs) \div l.bs = block
  BY <1>4, <1>5, Zenon
<1>8. block * l.bs \in {b * l.bs : b \in PointerBlocks(l)}
  OBVIOUS
<1>9. image.pointers[block * l.bs] = [i \in 0 .. l.n_ind - 1 |-> PointerIn(l, (block * l.bs) \div l.bs, i)]
  BY <1>1, <1>8, Zenon
<1>10. image.pointers[ReadBlock(image, block)] = [i \in 0 .. l.n_ind - 1 |-> PointerIn(l, block, i)]
  BY <1>6, <1>7, <1>9, Zenon
<1> QED
  BY <1>10, Zenon DEF PointersRead

\* Two elements, and one more, and another.
LEMMA TwoAndOne ==
  ASSUME NEW a, NEW b, NEW c
  PROVE  <<a, b>> \o <<>> = <<a, b>> /\ <<a, b>> \o <<c>> = <<a, b, c>>
<1> DEFINE S == {a, b, c}
           s == <<a, b>>
           t == <<c>>
           u == <<a, b, c>>
<1>1. /\ s \in Seq(S) /\ t \in Seq(S) /\ u \in Seq(S)
      /\ Len(s) = 2 /\ Len(t) = 1 /\ Len(u) = 3
      /\ s[1] = a /\ s[2] = b /\ t[1] = c /\ u[1] = a /\ u[2] = b /\ u[3] = c
  OBVIOUS
<1> HIDE DEF S, s, t, u
<1>2. s \o t \in Seq(S) /\ Len(s \o t) = 3
      /\ \A i \in 1 .. 3 : (s \o t)[i] = IF i <= 2 THEN s[i] ELSE t[i - 2]
  <2>1. /\ s \o t \in Seq(S) /\ Len(s \o t) = Len(s) + Len(t)
        /\ \A i \in 1 .. Len(s) + Len(t) : (s \o t)[i] = IF i <= Len(s) THEN s[i] ELSE t[i - Len(s)]
    BY <1>1, ConcatProperties, Zenon
  <2>2. Len(s) = 2 /\ Len(t) = 1 /\ 2 + 1 = 3
    BY <1>1
  <2> QED
    BY <2>1, <2>2
<1>3. s \o t = u
  BY <1>1, <1>2, SeqEqual
<1>4. s \o <<>> = s
  BY <1>1, ConcatEmptySeq
<1> QED
  BY <1>3, <1>4 DEF s, t, u

LEMMA ThreeAndOne ==
  ASSUME NEW a, NEW b, NEW c, NEW d
  PROVE  <<a, b, c>> \o <<d>> = <<a, b, c, d>>
<1> DEFINE S == {a, b, c, d}
           s == <<a, b, c>>
           t == <<d>>
           u == <<a, b, c, d>>
<1>1. /\ s \in Seq(S) /\ t \in Seq(S) /\ u \in Seq(S)
      /\ Len(s) = 3 /\ Len(t) = 1 /\ Len(u) = 4
      /\ s[1] = a /\ s[2] = b /\ s[3] = c /\ t[1] = d
      /\ u[1] = a /\ u[2] = b /\ u[3] = c /\ u[4] = d
  OBVIOUS
<1> HIDE DEF S, s, t, u
<1>2. s \o t \in Seq(S) /\ Len(s \o t) = 4
      /\ \A i \in 1 .. 4 : (s \o t)[i] = IF i <= 3 THEN s[i] ELSE t[i - 3]
  <2>1. /\ s \o t \in Seq(S) /\ Len(s \o t) = Len(s) + Len(t)
        /\ \A i \in 1 .. Len(s) + Len(t) : (s \o t)[i] = IF i <= Len(s) THEN s[i] ELSE t[i - Len(s)]
    BY <1>1, ConcatProperties, Zenon
  <2>2. Len(s) = 3 /\ Len(t) = 1 /\ 3 + 1 = 4
    BY <1>1
  <2> QED
    BY <2>1, <2>2
<1>3. s \o t = u
  BY <1>1, <1>2, SeqEqual
<1> QED
  BY <1>3 DEF s, t, u

LEMMA EntriesAre ==
  ASSUME NEW l, NEW block, NEW paths
  PROVE  EntriesIn(l, block, paths) =
           IF block = l.late THEN << <<4, "late">> >>
           ELSE IF block = l.dir
           THEN IF <<"dir", "file">> \in paths THEN << <<3, ".">>, <<2, "..">>, <<4, "file">> >>
                ELSE << <<3, ".">>, <<2, "..">> >>
           ELSE IF <<"file">> \in paths
           THEN << <<2, ".">>, <<2, "..">>, <<4, "file">>, <<3, "dir">> >>
           ELSE << <<2, ".">>, <<2, "..">>, <<3, "dir">> >>
<1> DEFINE self == <<3, ".">>
           top == <<2, ".">>
           up == <<2, "..">>
           file == <<4, "file">>
           dir == <<3, "dir">>
           in(path) == IF path \in paths THEN <<file>> ELSE <<>>
<1>1. EntriesIn(l, block, paths) =
        IF block = l.late THEN << <<4, "late">> >>
        ELSE IF block = l.dir THEN <<self, up>> \o in(<<"dir", "file">>)
        ELSE <<top, up>> \o in(<<"file">>) \o <<dir>>
  BY Zenon DEF EntriesIn
<1> HIDE DEF self, top, up, file, dir
<1>2. \A path : <<self, up>> \o in(path) = IF path \in paths THEN <<self, up, file>> ELSE <<self, up>>
  BY TwoAndOne, Zenon
<1>3. \A path : (<<top, up>> \o in(path)) \o <<dir>> =
        IF path \in paths THEN <<top, up, file, dir>> ELSE <<top, up, dir>>
  <2>1. \A path : (<<top, up>> \o in(path)) = IF path \in paths THEN <<top, up, file>> ELSE <<top, up>>
    BY TwoAndOne, Zenon
  <2> HIDE DEF in
  <2> TAKE path
  <2>2. CASE path \in paths
    BY <2>1, <2>2, ThreeAndOne, Zenon
  <2>3. CASE path \notin paths
    BY <2>1, <2>3, TwoAndOne, Zenon
  <2> QED
    BY <2>2, <2>3, Zenon
<1> HIDE DEF in
<1>4. EntriesIn(l, block, paths) =
           IF block = l.late THEN << <<4, "late">> >>
           ELSE IF block = l.dir
           THEN IF <<"dir", "file">> \in paths THEN <<self, up, file>> ELSE <<self, up>>
           ELSE IF <<"file">> \in paths THEN <<top, up, file, dir>> ELSE <<top, up, dir>>
  BY <1>1, <1>2, <1>3
<1> QED
  BY <1>4, Zenon DEF self, top, up, file, dir

LEMMA EntriesType ==
  ASSUME NEW l, NEW block, NEW paths
  PROVE  LET names == EntriesIn(l, block, paths)
         IN Len(names) \in 1 .. 4 /\ DOMAIN names = 1 .. Len(names)
<1> DEFINE names == EntriesIn(l, block, paths)
<1>1. \/ names = << <<4, "late">> >>
      \/ names = << <<3, ".">>, <<2, "..">>, <<4, "file">> >>
      \/ names = << <<3, ".">>, <<2, "..">> >>
      \/ names = << <<2, ".">>, <<2, "..">>, <<4, "file">>, <<3, "dir">> >>
      \/ names = << <<2, ".">>, <<2, "..">>, <<3, "dir">> >>
  BY EntriesAre
<1> HIDE DEF names
<1>2. Len(names) \in 1 .. 4 /\ DOMAIN names = 1 .. Len(names)
  BY <1>1
<1> QED
  BY <1>2 DEF names

LEMMA SoundType ==
  ASSUME NEW l, Sound(l)
  PROVE  /\ l.bs \in Nat /\ l.bs >= 16 /\ l.bs \in Nat \ {0}
         /\ l.root \in Nat /\ l.late \in Nat /\ l.dir \in Nat /\ l.data \in Nat
         /\ l.root # l.late /\ l.root # l.dir /\ l.dir # l.late
BY DEF Sound

LEMMA DirentAt ==
  ASSUME NEW d, NEW l, NEW image, Made(d, l, image), NEW block \in {l.root, l.late, l.dir},
         NEW i \in 1 .. Len(EntriesIn(l, block, d.paths))
  PROVE  image.dirents[ReadBlock(image, block) + (i - 1) * 4] = Dirent(l, EntriesIn(l, block, d.paths), i)
<1> DEFINE names(b) == EntriesIn(l, b, d.paths)
           Dom == UNION {{b * l.bs + (j - 1) * 4 : j \in DOMAIN names(b)} : b \in {l.root, l.late, l.dir}}
           at == block * l.bs + (i - 1) * 4
<1>1. image.dirents = [x \in Dom |-> Dirent(l, names(x \div l.bs), 1 + ((x % l.bs) \div 4))]
  BY DEF Made, DiskImage
<1>2. Sound(l) /\ BlockSize(image) = l.bs
  BY MadeIs, Zenon
<1>3. block \in Nat /\ l.bs \in Nat \ {0} /\ l.bs >= 16
  <2>1. l.bs \in Nat /\ l.bs >= 16 /\ l.root \in Nat /\ l.late \in Nat /\ l.dir \in Nat
    BY SoundType, <1>2, Zenon
  <2> QED
    BY <2>1
<1>4. Len(names(block)) \in 1 .. 4 /\ DOMAIN names(block) = 1 .. Len(names(block))
  BY EntriesType, Zenon
<1>5. at \in Dom
  <2>1. i \in DOMAIN names(block)
    BY <1>4
  <2> HIDE DEF names
  <2> QED
    BY <2>1
<1>6. (i - 1) * 4 \in 0 .. l.bs - 1 /\ i \in 1 .. 4
  <2>1. i \in 1 .. Len(names(block))
    OBVIOUS
  <2> HIDE DEF names
  <2>2. i \in 1 .. 4
    BY <1>4, <2>1
  <2> QED
    BY <1>3, <2>2
<1>7. at \div l.bs = block /\ at % l.bs = (i - 1) * 4
  BY <1>3, <1>6, DivIs, Zenon
<1>8. 1 + (((i - 1) * 4) \div 4) = i
  BY <1>6
<1>9. image.dirents[at] = Dirent(l, names(at \div l.bs), 1 + ((at % l.bs) \div 4))
  <2> HIDE DEF Dom, names, at
  <2> QED
    BY <1>1, <1>5
<1>10. ReadBlock(image, block) = block * l.bs
  BY <1>2, Zenon DEF ReadBlock
<1>11. image.dirents[at] = Dirent(l, names(block), i)
  BY <1>7, <1>8, <1>9, Zenon
<1> QED
  BY <1>10, <1>11, Zenon

\* Where there are no holes nothing is left out.
LEMMA ThereAll ==
  ASSUME NEW s \in Seq(Nat \ {0})
  PROVE  There(s) = s
<1> DEFINE P == Nat \ {0}
           h == [b \in P |-> <<b>>]
           T == {t \in Seq(P) : FlatMap(h, t) = t}
<1>1. h \in [P -> Seq(P)] /\ \A b \in P : h[b] = <<b>> /\ b # 0
  OBVIOUS
<1>2. There(s) = FlatMap(h, s)
  <2>1. DOMAIN s = 1 .. Len(s) /\ \A i \in 1 .. Len(s) : s[i] \in P
    BY LenProperties, ElementOfSeq
  <2>2. [i \in DOMAIN s |-> IF s[i] = 0 THEN <<>> ELSE <<s[i]>>] = [i \in DOMAIN s |-> h[s[i]]]
    <3> HIDE DEF h
    <3> QED
      BY <1>1, <2>1
  <2> QED
    BY <2>2, Zenon DEF There, FlatMap, MapSeq
<1> HIDE DEF P, h
<1>3. FlatMaps(h, P, P)
  BY <1>1, FlatMapAppend, Zenon
<1>4. FlatMap(h, <<>>) = <<>> /\ \A t \in Seq(P), e \in P :
        FlatMap(h, Append(t, e)) = FlatMap(h, t) \o h[e]
  BY <1>3, Zenon DEF FlatMaps
<1>5. <<>> \in T
  BY <1>4, EmptySeq
<1>6. ASSUME NEW t \in Seq(P), NEW e \in P, t \in T PROVE Append(t, e) \in T
  <2>1. FlatMap(h, t) = t
    BY <1>6
  <2>2. FlatMap(h, Append(t, e)) = t \o <<e>>
    BY <1>1, <1>4, <2>1, Zenon
  <2>3. Append(t, e) = t \o <<e>> /\ Append(t, e) \in Seq(P)
    BY AppendIsConcat, AppendProperties, Zenon
  <2> QED
    BY <2>2, <2>3
<1> HIDE DEF T
<1>7. Seq(P) \subseteq T
  BY <1>5, <1>6, SeqInduct, Zenon
<1>8. s \in T
  BY <1>7 DEF P
<1> QED
  BY <1>2, <1>8 DEF T

-----------------------------------------------------------------------------
(* The blocks of a file.                                                    *)

\* m blocks of a file, from the one numbered a.
Piece(l, a, m) == [i \in 1 .. m |-> DataBlock(l, a + i - 1)]
IsPiece(l, a, m) ==
  /\ Piece(l, a, m) \in Seq(Nat \ {0}) /\ Len(Piece(l, a, m)) = m
  /\ DOMAIN Piece(l, a, m) = 1 .. m
  /\ \A i \in 1 .. m : Piece(l, a, m)[i] = DataBlock(l, a + i - 1)
Joined(l, a, m, n) == Piece(l, a, m) \o Piece(l, a + m, n) = Piece(l, a, m + n)

LEMMA PieceType ==
  ASSUME NEW l, Sound(l), NEW a \in Nat, NEW m \in Nat, a + m <= l.blocks
  PROVE  IsPiece(l, a, m)
<1>1. l.blocks \in Nat /\ l.data \in Nat /\ l.data >= 1
  BY DEF Sound
<1>2. ASSUME NEW i \in 1 .. m PROVE DataBlock(l, a + i - 1) \in Nat \ {0}
  <2>1. a + i - 1 \in Nat /\ a + i - 1 < l.blocks
    BY <1>1
  <2> QED
    BY <1>1, <2>1 DEF DataBlock
<1> DEFINE F(i) == DataBlock(l, a + i - 1)
<1>3. \A i \in 1 .. m : F(i) \in Nat \ {0}
  BY <1>2
<1> HIDE DEF F
<1>4. [i \in 1 .. m |-> F(i)] \in Seq(Nat \ {0}) /\ Len([i \in 1 .. m |-> F(i)]) = m
  BY <1>3
<1>5. Piece(l, a, m) \in Seq(Nat \ {0}) /\ Len(Piece(l, a, m)) = m
  BY <1>4 DEF F, Piece
<1> QED
  BY <1>5 DEF Piece, IsPiece

LEMMA PieceJoin ==
  ASSUME NEW l, Sound(l), NEW a \in Nat, NEW m \in Nat, NEW n \in Nat, a + m + n <= l.blocks
  PROVE  Joined(l, a, m, n)
<1> DEFINE s == Piece(l, a, m)
           t == Piece(l, a + m, n)
           u == Piece(l, a, m + n)
           F(j) == DataBlock(l, j)
<1>0. l.blocks \in Nat
  BY DEF Sound
<1>1. a + m <= l.blocks /\ (a + m) + n <= l.blocks /\ a + (m + n) <= l.blocks
  BY <1>0
<1>2. s \in Seq(Nat \ {0}) /\ Len(s) = m /\ \A i \in 1 .. m : s[i] = F(a + i - 1)
  BY <1>1, PieceType, Zenon DEF IsPiece
<1>3. a + m \in Nat /\ m + n \in Nat
  OBVIOUS
<1>4. t \in Seq(Nat \ {0}) /\ Len(t) = n /\ \A i \in 1 .. n : t[i] = F((a + m) + i - 1)
  BY <1>1, <1>3, PieceType, Zenon DEF IsPiece
<1>5. u \in Seq(Nat \ {0}) /\ Len(u) = m + n /\ \A i \in 1 .. m + n : u[i] = F(a + i - 1)
  BY <1>1, <1>3, PieceType, Zenon DEF IsPiece
<1> HIDE DEF s, t, u, F
<1>6. /\ s \o t \in Seq(Nat \ {0}) /\ Len(s \o t) = Len(s) + Len(t)
      /\ \A i \in 1 .. Len(s) + Len(t) : (s \o t)[i] = IF i <= Len(s) THEN s[i] ELSE t[i - Len(s)]
  BY <1>2, <1>4, ConcatProperties, Zenon
<1>7. ASSUME NEW i \in 1 .. m + n PROVE (s \o t)[i] = u[i]
  <2>1. CASE i <= m
    BY <1>2, <1>4, <1>5, <1>6, <2>1
  <2>2. CASE i > m
    <3>1. i - m \in 1 .. n /\ (a + m) + (i - m) - 1 = a + i - 1
      BY <2>2
    <3>2. t[i - m] = F((a + m) + (i - m) - 1)
      BY <1>4, <3>1, Zenon
    <3>3. (s \o t)[i] = t[i - m]
      BY <1>2, <1>4, <1>6, <2>2
    <3> QED
      BY <1>5, <3>1, <3>2, <3>3, Zenon
  <2>3. i <= m \/ i > m
    OBVIOUS
  <2> QED
    BY <2>1, <2>2, <2>3, Zenon
<1>8. Len(s \o t) = Len(u)
  BY <1>2, <1>4, <1>5, <1>6
<1>9. s \o t = u
  BY <1>2, <1>4, <1>5, <1>6, <1>7, <1>8, SeqEqual
<1> QED
  BY <1>9, Zenon DEF s, t, u, Joined

\* The pointers of a file's inode.
InodePoints(l, mode, size) ==
  LET block == FileInode(l, mode, size).block
  IN /\ \A i \in 0 .. NDirBlocks - 1 : block[i] = DataBlock(l, i)
     /\ block[IndBlock] = IF l.blocks > NDirBlocks THEN l.ind ELSE 0
     /\ block[DindBlock] = IF l.doubles > 0 THEN l.dind ELSE 0

LEMMA InodePointers ==
  ASSUME NEW l, Sound(l), NEW mode, NEW size, ~IsFast(mode, size)
  PROVE  InodePoints(l, mode, size)
<1>1. FileInode(l, mode, size).block = FileArray(l)
  BY DEF FileInode
<1>2. NDirBlocks \in Nat /\ IndBlock = NDirBlocks /\ DindBlock = NDirBlocks + 1
  BY Ext2Assumption DEF IndBlock, DindBlock
<1>3. FileArray(l) = [i \in 0 .. DindBlock |->
                        IF i < NDirBlocks THEN DataBlock(l, i)
                        ELSE IF i = IndBlock THEN (IF l.blocks > NDirBlocks THEN l.ind ELSE 0)
                        ELSE IF l.doubles > 0 THEN l.dind ELSE 0]
  BY Zenon DEF FileArray
<1>4. /\ \A i \in 0 .. NDirBlocks - 1 : FileArray(l)[i] = DataBlock(l, i)
      /\ FileArray(l)[IndBlock] = IF l.blocks > NDirBlocks THEN l.ind ELSE 0
      /\ FileArray(l)[DindBlock] = IF l.doubles > 0 THEN l.dind ELSE 0
  BY <1>2, <1>3
<1> QED
  BY <1>1, <1>4, Zenon DEF InodePoints

\* The blocks that are reached through one block of pointers, and through two.
LEMMA IndirectIs ==
  ASSUME NEW d, NEW l, NEW image, Made(d, l, image), NEW i \in 0 .. l.n_ind - 1
  PROVE  image.pointers[ReadBlock(image, l.ind)][i] = DataBlock(l, NDirBlocks + i)
<1>1. Sound(l)
  BY MadeIs, Zenon
<1>2. l.ind \in PointerBlocks(l)
  BY DEF PointerBlocks
<1>3. image.pointers[ReadBlock(image, l.ind)][i] = PointerIn(l, l.ind, i)
  <2>1. PointersRead(l, image, l.ind)
    BY <1>2, PointersAt, Zenon
  <2> QED
    BY <2>1, Zenon DEF PointersRead
<1>4. l.ind # 0
  BY <1>1 DEF Sound
<1> QED
  BY <1>3, <1>4, Zenon DEF PointerIn

DoublyRead(l, image, q, r) ==
  LET array(n) == image.pointers[ReadBlock(image, n)]
  IN array(array(l.dind)[q])[r] = DataBlock(l, NDirBlocks + (q + 1) * l.n_ind + r)

LEMMA DoublyIs ==
  ASSUME NEW d, NEW l, NEW image, Made(d, l, image), NEW q \in 0 .. l.n_ind - 1,
         NEW r \in 0 .. l.n_ind - 1, q < l.doubles
  PROVE  DoublyRead(l, image, q, r)
<1> DEFINE array(n) == image.pointers[ReadBlock(image, n)]
           p == l.dind + 1 + q
<1>1. Sound(l)
  BY MadeIs, Zenon
<1>2. l.dind \in Nat /\ l.doubles \in Nat /\ l.ind = l.dind - 1 /\ l.dind > 1 /\ q \in Nat
  BY <1>1 DEF Sound
<1>3. l.dind \in PointerBlocks(l) /\ p \in PointerBlocks(l)
  BY <1>2 DEF PointerBlocks
<1>4. array(l.dind)[q] = p
  <2>1. PointersRead(l, image, l.dind)
    BY <1>3, PointersAt, Zenon
  <2>2. array(l.dind)[q] = PointerIn(l, l.dind, q)
    BY <2>1, Zenon DEF PointersRead
  <2>3. l.dind # 0 /\ l.dind # l.ind
    BY <1>2
  <2> QED
    BY <2>2, <2>3, Zenon DEF PointerIn
<1>5. array(p)[r] = PointerIn(l, p, r)
  <2> HIDE DEF p
  <2>1. PointersRead(l, image, p)
    BY <1>3, PointersAt, Zenon
  <2> QED
    BY <2>1, Zenon DEF PointersRead
<1>6. p # 0 /\ p # l.ind /\ p # l.dind /\ p - l.dind = q + 1
  BY <1>2
<1>7. PointerIn(l, p, r) = DataBlock(l, NDirBlocks + (p - l.dind) * l.n_ind + r)
  <2> HIDE DEF p
  <2> QED
    BY <1>6, Zenon DEF PointerIn
<1>8. PointerIn(l, p, r) = DataBlock(l, NDirBlocks + (q + 1) * l.n_ind + r)
  BY <1>6, <1>7, Zenon
<1> HIDE DEF p
<1> QED
  BY <1>4, <1>5, <1>8, Zenon DEF DoublyRead

\* The arithmetic of a doubly indirect block.
DoublySlot(n, D, e, k) ==
  /\ k \div n \in 0 .. n - 1 /\ k % n \in 0 .. n - 1 /\ k \div n < e
  /\ D + ((k \div n) + 1) * n + (k % n) = D + n + k

LEMMA DoublyAt ==
  ASSUME NEW n \in Nat \ {0}, NEW D \in Nat, NEW B \in Nat, NEW e \in Nat, B > D + n,
         e = (B - D - 1) \div n, NEW k \in Nat, k < n * n, k < B - D - n
  PROVE  DoublySlot(n, D, e, k)
<1> DEFINE q == k \div n
           r == k % n
           f == B - D - 1
<1>1. q \in Nat /\ r \in 0 .. n - 1 /\ k = q * n + r /\ q * n \in Nat
  BY DivMod
<1>2. q < n
  BY DivLess
<1>3. f \in Nat /\ k + n <= f
  OBVIOUS
<1>4. f < e * n + n /\ e * n \in Nat
  <2>1. f = (f \div n) * n + (f % n) /\ f % n \in 0 .. n - 1 /\ (f \div n) * n \in Nat
    BY <1>3, DivMod
  <2>2. e = f \div n
    OBVIOUS
  <2>3. f = e * n + (f % n) /\ e * n \in Nat
    BY <2>1, <2>2, Zenon
  <2> HIDE DEF f
  <2> QED
    BY <2>1, <2>3
<1> HIDE DEF q, r, f
<1>5. ~(e <= q)
  <2> SUFFICES ASSUME e <= q PROVE FALSE
    OBVIOUS
  <2>1. e * n <= q * n
    <3>1. CASE e = q
      BY <1>1, <3>1
    <3>2. CASE e < q
      <4>1. e * n + n <= q * n
        BY <1>1, <3>2, TimesLess
      <4> QED
        BY <1>1, <1>4, <4>1
    <3> QED
      BY <1>1, <3>1, <3>2
  <2> QED
    BY <1>1, <1>3, <1>4, <2>1
<1>6. (q + 1) * n = q * n + n
  BY <1>1
<1>7. D + (q + 1) * n + r = D + n + k
  BY <1>1, <1>6
<1> QED
  BY <1>1, <1>2, <1>5, <1>7 DEF q, r, DoublySlot

\* The number of blocks that are reached in one, two and three steps.
LEMMA ThreeParts ==
  ASSUME NEW n \in Nat \ {0}, NEW D \in Nat, NEW B \in Nat, B < D + n + n * n
  PROVE  LET m1 == Min({D, B})
             m2 == IF B < D THEN 0 ELSE Min({n, B - D})
             m3 == IF B < D + n THEN 0 ELSE Min({n * n, B - D - n})
         IN /\ m1 \in Nat /\ m2 \in Nat /\ m3 \in Nat /\ m1 + m2 + m3 = B
            /\ m1 <= D /\ m2 <= n /\ m3 <= n * n
            /\ m2 > 0 => m1 = D /\ B > D
            /\ m3 > 0 => m1 = D /\ m2 = n /\ B > D + n /\ m3 = B - D - n
<1> DEFINE m1 == Min({D, B})
           m2 == IF B < D THEN 0 ELSE Min({n, B - D})
           m3 == IF B < D + n THEN 0 ELSE Min({n * n, B - D - n})
           nn == n * n
<1>1. nn \in Nat /\ B < D + n + nn
  OBVIOUS
<1>2. m1 = IF D <= B THEN D ELSE B
  BY MinOfTwo
<1>3. m2 = IF B < D THEN 0 ELSE IF n <= B - D THEN n ELSE B - D
  <2>1. Min({n, B - D}) = IF n <= B - D THEN n ELSE B - D
    BY MinOfTwo
  <2> QED
    BY <2>1
<1>4. m3 = IF B < D + n THEN 0 ELSE IF nn <= B - D - n THEN nn ELSE B - D - n
  <2> HIDE DEF nn
  <2>1. Min({nn, B - D - n}) = IF nn <= B - D - n THEN nn ELSE B - D - n
    BY <1>1, MinOfTwo
  <2> QED
    BY <2>1 DEF nn
<1> HIDE DEF m1, m2, m3, nn
<1>5. /\ m1 \in Nat /\ m2 \in Nat /\ m3 \in Nat /\ m1 + m2 + m3 = B
      /\ m1 <= D /\ m2 <= n /\ m3 <= nn
      /\ m2 > 0 => m1 = D /\ B > D
      /\ m3 > 0 => m1 = D /\ m2 = n /\ B > D + n /\ m3 = B - D - n
  <2>1. CASE B < D
    BY <1>1, <1>2, <1>3, <1>4, <2>1
  <2>2. CASE B >= D /\ B < D + n
    BY <1>1, <1>2, <1>3, <1>4, <2>2
  <2>3. CASE B >= D + n
    BY <1>1, <1>2, <1>3, <1>4, <2>3
  <2> QED
    BY <2>1, <2>2, <2>3
<1> QED
  BY <1>5 DEF m1, m2, m3, nn

\* GetFileContent of what is written: all the blocks of the file, in order.
LEMMA ContentIs ==
  ASSUME NEW d, NEW l, NEW image, Made(d, l, image), ~IsFast(d.mode, d.size),
         l.blocks < NDirBlocks + l.n_ind + l.n_ind * l.n_ind
  PROVE  LET content == GetFileContent(image, FileInode(l, d.mode, d.size))
         IN /\ Len(content) = l.blocks
            /\ \A i \in 1 .. l.blocks : content[i] = DataBlock(l, i - 1) * l.bs
<1> DEFINE inode == FileInode(l, d.mode, d.size)
           array(k) == image.pointers[ReadBlock(image, k)]
           D == NDirBlocks
           n == l.n_ind
           B == l.blocks
           A0 == ActualBlocks(image, inode.size_lo)
           N0 == BlockSize(image) \div PointerSize
           Direct(A) == [i \in 1 .. Min({D, A}) |-> inode.block[i - 1]]
           Indirect(A, N) ==
             IF A < D THEN <<>>
             ELSE [i \in 1 .. Min({N, A - D}) |-> array(inode.block[IndBlock])[i - 1]]
           Doubly(A, N) ==
             IF A < D + N THEN <<>>
             ELSE [i \in 1 .. Min({N * N, A - D - N}) |->
                     array(array(inode.block[DindBlock])[(i - 1) \div N])[(i - 1) % N]]
           Blocks(A, N) == There(Direct(A)) \o Indirect(A, N) \o There(Doubly(A, N))
           m1 == Min({D, B})
           m2 == IF B < D THEN 0 ELSE Min({n, B - D})
           m3 == IF B < D + n THEN 0 ELSE Min({n * n, B - D - n})
<1>1. GetFileContent(image, inode) = [i \in DOMAIN Blocks(A0, N0) |-> ReadBlock(image, Blocks(A0, N0)[i])]
  BY Zenon DEF GetFileContent
<1>2. Sound(l) /\ BlockSize(image) = l.bs
  BY MadeIs, Zenon
<1>3. n \in Nat \ {0} /\ D \in Nat /\ B \in Nat /\ l.bs \in Nat \ {0} /\ D >= 2
  BY <1>2, Ext2Assumption DEF Sound
<1>4. A0 = B /\ N0 = n
  <2>1. inode.size_lo = d.size
    BY DEF FileInode
  <2>2. A0 = B
    BY <1>2, <2>1, MadeSizes, Zenon DEF ActualBlocks
  <2>3. N0 = n
    BY <1>2, Zenon DEF Sound
  <2> QED
    BY <2>2, <2>3, Zenon
<1>5. GetFileContent(image, inode) = [i \in DOMAIN Blocks(B, n) |-> ReadBlock(image, Blocks(B, n)[i])]
  <2> HIDE DEF A0, N0, Blocks, B, n, inode
  <2> QED
    BY <1>1, <1>4, Zenon
<1>6. /\ m1 \in Nat /\ m2 \in Nat /\ m3 \in Nat /\ m1 + m2 + m3 = B
      /\ m1 <= D /\ m2 <= n /\ m3 <= n * n
      /\ m2 > 0 => m1 = D /\ B > D
      /\ m3 > 0 => m1 = D /\ m2 = n /\ B > D + n /\ m3 = B - D - n
  <2> HIDE DEF inode, Direct, Indirect, Doubly, Blocks, array
  <2> QED
    BY <1>3, ThreeParts, Zenon
<1>0. InodePoints(l, d.mode, d.size)
  BY <1>2, InodePointers, Zenon
<1>7. Direct(B) = Piece(l, 0, m1)
  <2>1. ASSUME NEW i \in 1 .. m1 PROVE inode.block[i - 1] = DataBlock(l, 0 + i - 1)
    <3>1. i - 1 \in 0 .. D - 1 /\ 0 + i - 1 = i - 1
      BY <1>3, <1>6
    <3>2. inode.block[i - 1] = DataBlock(l, i - 1)
      BY <1>0, <3>1, Zenon DEF InodePoints
    <3> QED
      BY <3>1, <3>2
  <2> HIDE DEF inode, m1
  <2>2. Direct(B) = [i \in 1 .. m1 |-> inode.block[i - 1]]
    BY Zenon DEF m1
  <2> QED
    BY <2>1, <2>2 DEF Piece
<1>8. Indirect(B, n) = Piece(l, m1, m2)
  <2>1. ASSUME NEW i \in 1 .. m2
        PROVE  array(inode.block[IndBlock])[i - 1] = DataBlock(l, m1 + i - 1)
    <3>1. i - 1 \in 0 .. n - 1 /\ m1 = D /\ B > D /\ D + (i - 1) = m1 + i - 1
      BY <1>3, <1>6
    <3>2. inode.block[IndBlock] = l.ind
      BY <1>0, <3>1, Zenon DEF InodePoints
    <3>3. array(l.ind)[i - 1] = DataBlock(l, D + (i - 1))
      BY <3>1, IndirectIs, Zenon
    <3> QED
      BY <3>1, <3>2, <3>3, Zenon
  <2> DEFINE F(i) == array(inode.block[IndBlock])[i - 1]
             G(i) == DataBlock(l, m1 + i - 1)
  <2>2. \A i \in 1 .. m2 : F(i) = G(i)
    BY <2>1, Zenon
  <2>3. Indirect(B, n) = IF B < D THEN <<>> ELSE [i \in 1 .. Min({n, B - D}) |-> F(i)]
    BY Zenon
  <2>4. Piece(l, m1, m2) = [i \in 1 .. m2 |-> G(i)]
    BY Zenon DEF Piece
  <2> HIDE DEF F, G, Indirect
  <2>5. CASE B < D
    <3>1. m2 = 0
      BY <2>5
    <3>2. [i \in 1 .. 0 |-> G(i)] = <<>>
      OBVIOUS
    <3> QED
      BY <2>3, <2>4, <2>5, <3>1, <3>2, Zenon
  <2>6. CASE ~(B < D)
    <3>1. m2 = Min({n, B - D})
      BY <2>6, Zenon
    <3>2. Indirect(B, n) = [i \in 1 .. m2 |-> F(i)]
      BY <2>3, <2>6, <3>1, Zenon
    <3> HIDE DEF m1, m2
    <3> QED
      BY <2>2, <2>4, <3>2
  <2> QED
    BY <2>5, <2>6, Zenon
<1>9. Doubly(B, n) = Piece(l, m1 + m2, m3)
  <2>1. ASSUME NEW i \in 1 .. m3
        PROVE  array(array(inode.block[DindBlock])[(i - 1) \div n])[(i - 1) % n]
                 = DataBlock(l, (m1 + m2) + i - 1)
    <3> DEFINE k == i - 1
    <3>1. k \in Nat /\ m1 = D /\ m2 = n /\ B > D + n /\ k < n * n /\ k < B - D - n
          /\ D + n + k = (m1 + m2) + i - 1
      <4> DEFINE nn == n * n
      <4>1. nn \in Nat
        BY <1>3
      <4>2. m3 <= nn
        BY <1>6
      <4>3. m3 \in Nat /\ (m3 > 0 => m1 = D /\ m2 = n /\ B > D + n /\ m3 = B - D - n)
        BY <1>6, Zenon
      <4> HIDE DEF m1, m2, m3, nn, n, B, D
      <4>4. k \in Nat /\ m1 = D /\ m2 = n /\ B > D + n /\ k < nn /\ k < B - D - n
            /\ D + n + k = (m1 + m2) + i - 1
        BY <1>3, <4>1, <4>2, <4>3
      <4> QED
        BY <4>4, Zenon DEF nn
    <3>2. l.doubles = (B - D - 1) \div n
      <4>1. ~(B <= D + n)
        BY <1>3, <3>1
      <4>2. l.doubles = IF B <= D + n THEN 0 ELSE (B - D - 1) \div n
        BY MadeSizes, Zenon
      <4> QED
        BY <4>1, <4>2, Zenon
    <3>3. /\ k \div n \in 0 .. n - 1 /\ k % n \in 0 .. n - 1 /\ k \div n < l.doubles
          /\ D + ((k \div n) + 1) * n + (k % n) = D + n + k
      <4> HIDE DEF k, m1, m2, m3
      <4>1. l.doubles \in Nat
        BY <1>2 DEF Sound
      <4>2. DoublySlot(n, D, l.doubles, k)
        BY <1>3, <3>1, <3>2, <4>1, DoublyAt, Zenon
      <4> QED
        BY <4>2, Zenon DEF DoublySlot
    <3>4. inode.block[DindBlock] = l.dind
      <4>1. l.doubles > 0
        <5>1. l.doubles \in Nat
          BY <1>2 DEF Sound
        <5> DEFINE q == k \div n
        <5>2. q \in 0 .. n - 1 /\ q < l.doubles
          BY <3>3
        <5> HIDE DEF q
        <5> QED
          BY <5>1, <5>2
      <4> QED
        BY <1>0, <4>1, Zenon DEF InodePoints
    <3>5. array(array(l.dind)[k \div n])[k % n] = DataBlock(l, D + ((k \div n) + 1) * n + (k % n))
      <4>1. DoublyRead(l, image, k \div n, k % n)
        <5> HIDE DEF k, m1, m2, m3
        <5> QED
          BY <3>3, DoublyIs, Zenon
      <4> QED
        BY <4>1, Zenon DEF DoublyRead
    <3>6. array(array(inode.block[DindBlock])[k \div n])[k % n] = DataBlock(l, (m1 + m2) + i - 1)
      <4> HIDE DEF k, m1, m2, m3, inode, array
      <4> QED
        BY <3>1, <3>3, <3>4, <3>5, Zenon
    <3> QED
      BY <3>6, Zenon
  <2> DEFINE F(i) == array(array(inode.block[DindBlock])[(i - 1) \div n])[(i - 1) % n]
             G(i) == DataBlock(l, (m1 + m2) + i - 1)
  <2>2. \A i \in 1 .. m3 : F(i) = G(i)
    BY <2>1, Zenon
  <2>3. Doubly(B, n) = IF B < D + n THEN <<>> ELSE [i \in 1 .. Min({n * n, B - D - n}) |-> F(i)]
    BY Zenon
  <2>4. Piece(l, m1 + m2, m3) = [i \in 1 .. m3 |-> G(i)]
    BY Zenon DEF Piece
  <2> HIDE DEF F, G, Doubly
  <2>5. CASE B < D + n
    <3>1. m3 = 0
      BY <2>5, Zenon
    <3>2. [i \in 1 .. 0 |-> G(i)] = <<>>
      OBVIOUS
    <3> QED
      BY <2>3, <2>4, <2>5, <3>1, <3>2, Zenon
  <2>6. CASE ~(B < D + n)
    <3>1. m3 = Min({n * n, B - D - n})
      BY <2>6, Zenon
    <3>2. Doubly(B, n) = [i \in 1 .. m3 |-> F(i)]
      BY <2>3, <2>6, <3>1, Zenon
    <3> HIDE DEF m1, m2, m3
    <3> QED
      BY <2>2, <2>4, <3>2
  <2> QED
    BY <2>5, <2>6, Zenon
<1> HIDE DEF m1, m2, m3, Direct, Indirect, Doubly, inode, array
<1>10. Blocks(B, n) = Piece(l, 0, B)
  <2>0. 0 + m1 <= B /\ (m1 + m2) + m3 <= B /\ 0 + m1 + m2 <= B /\ 0 + (m1 + m2) + m3 <= B
        /\ 0 + m1 = m1 /\ 0 + (m1 + m2) = m1 + m2 /\ m1 + m2 \in Nat /\ (m1 + m2) + m3 = B
    BY <1>6
  <2>1. There(Direct(B)) = Piece(l, 0, m1)
    <3>1. Piece(l, 0, m1) \in Seq(Nat \ {0})
      BY <1>2, <1>6, <2>0, PieceType, 0 \in Nat, Zenon DEF IsPiece
    <3> QED
      BY <1>7, <3>1, ThereAll, Zenon
  <2>2. There(Doubly(B, n)) = Piece(l, m1 + m2, m3)
    <3>1. Piece(l, m1 + m2, m3) \in Seq(Nat \ {0})
      BY <1>2, <1>6, <2>0, PieceType, Zenon DEF IsPiece
    <3> QED
      BY <1>9, <3>1, ThereAll, Zenon
  <2>3. Piece(l, 0, m1) \o Piece(l, m1, m2) = Piece(l, 0, m1 + m2)
    <3>1. Joined(l, 0, m1, m2)
      BY <1>2, <1>6, <2>0, PieceJoin, 0 \in Nat, Zenon
    <3> QED
      BY <2>0, <3>1, Zenon DEF Joined
  <2>4. Piece(l, 0, m1 + m2) \o Piece(l, m1 + m2, m3) = Piece(l, 0, B)
    <3>1. Joined(l, 0, m1 + m2, m3)
      BY <1>2, <1>6, <2>0, PieceJoin, 0 \in Nat, Zenon
    <3> QED
      BY <2>0, <3>1, Zenon DEF Joined
  <2> QED
    BY <1>8, <2>1, <2>2, <2>3, <2>4, Zenon
<1> HIDE DEF Blocks
<1>11. /\ Len(Piece(l, 0, B)) = B /\ DOMAIN Piece(l, 0, B) = 1 .. B
       /\ \A i \in 1 .. B : Piece(l, 0, B)[i] = DataBlock(l, 0 + i - 1)
  <2>1. 0 \in Nat /\ 0 + B <= B
    BY <1>3
  <2>2. IsPiece(l, 0, B)
    BY <1>2, <1>3, <2>1, PieceType, Zenon
  <2> QED
    BY <2>2, Zenon DEF IsPiece
<1>12. GetFileContent(image, inode) = [i \in 1 .. B |-> ReadBlock(image, Piece(l, 0, B)[i])]
  BY <1>5, <1>10, <1>11, Zenon
<1>13. \A i \in 1 .. B : ReadBlock(image, Piece(l, 0, B)[i]) = DataBlock(l, i - 1) * l.bs
  <2>1. ASSUME NEW i \in 1 .. B PROVE ReadBlock(image, Piece(l, 0, B)[i]) = DataBlock(l, i - 1) * l.bs
    <3>1. 0 + i - 1 = i - 1
      OBVIOUS
    <3> QED
      BY <1>2, <1>11, <3>1, Zenon DEF ReadBlock
  <2> QED
    BY <2>1, Zenon
<1>14. Len(GetFileContent(image, inode)) = B
  BY <1>3, <1>12
<1>15. \A i \in 1 .. B : GetFileContent(image, inode)[i] = DataBlock(l, i - 1) * l.bs
  BY <1>12, <1>13
<1> QED
  BY <1>14, <1>15, Zenon DEF inode

\* A file's blocks hold it.
LEMMA BlocksHold ==
  ASSUME NEW d, NEW l, NEW image, Made(d, l, image)
  PROVE  /\ d.size \in Nat /\ d.size <= l.blocks * l.bs
         /\ l.blocks \in Nat /\ l.bs \in Nat \ {0} /\ l.blocks * l.bs \in Nat
         /\ l.blocks * l.bs < d.size + l.bs
<1>1. l.bs \in Nat \ {0} /\ l.blocks \in Nat
  BY MadeIs DEF Sound
<1>2. d.size \in Nat /\ l.blocks = (d.size + l.bs - 1) \div l.bs
  BY MadeSizes, Zenon
<1> DEFINE a == d.size + l.bs - 1
           m == a % l.bs
           p == l.blocks * l.bs
<1>3. a \in Nat
  BY <1>1, <1>2
<1>4. a = (a \div l.bs) * l.bs + m /\ m \in 0 .. l.bs - 1
  <2> HIDE DEF a
  <2> QED
    BY <1>1, <1>3, DivMod
<1>5. a = p + m /\ p \in Nat
  <2>1. a = p + m
    <3> HIDE DEF m
    <3> QED
      BY <1>2, <1>4, Zenon
  <2> QED
    BY <1>1, <2>1
<1> HIDE DEF m, p
<1> QED
  BY <1>1, <1>2, <1>4, <1>5 DEF p

Content(d, l, image) == GetFileContent(image, FileInode(l, d.mode, d.size))
Bytes(l, o, n) == [k \in 1 .. n |-> DataByte(l, o + k - 1)]
Copied(d, l, image, b, r) ==
  CopyFrom(image, Content(d, l, image), r, b * l.bs) = Bytes(l, b * l.bs, r)

\* A copy that starts at a block.
LEMMA CopyAligned ==
  ASSUME NEW d, NEW l, NEW image, Made(d, l, image), ~IsFast(d.mode, d.size),
         l.blocks < NDirBlocks + l.n_ind + l.n_ind * l.n_ind,
         NEW b \in Nat, NEW r \in Nat, b * l.bs + r <= d.size
  PROVE  Copied(d, l, image, b, r)
<1> DEFINE content == Content(d, l, image)
           bs == l.bs
           o == b * bs
           Part(h, next) ==
             [k \in 1 .. r - h |-> BlockAt(content, next + ((k - 1) \div bs)) + ((k - 1) % bs)]
           Begin(h, i) == [k \in 1 .. h |-> BlockAt(content, o \div bs) + i + (k - 1)]
           Head1(i) == IF i = 0 THEN 0 ELSE IF r >= i THEN r - i ELSE r
           Next1(i) == IF i = 0 THEN o \div bs ELSE (o \div bs) + 1
<1>1. /\ d.size \in Nat /\ d.size <= l.blocks * bs /\ l.blocks \in Nat /\ bs \in Nat \ {0}
      /\ l.blocks * bs \in Nat
  BY BlocksHold, Zenon
<1>2. BlockSize(image) = bs
  BY MadeIs, Zenon
<1>3. o \in Nat /\ o \div bs = b /\ o % bs = 0
  <2>1. 0 \in 0 .. bs - 1 /\ o + 0 = o /\ o \in Nat
    BY <1>1
  <2>2. (o + 0) \div bs = b /\ (o + 0) % bs = 0
    BY <1>1, <2>1, DivIs, Zenon
  <2> QED
    BY <2>1, <2>2, Zenon
<1>4. CopyFrom(image, content, r, o) =
        Begin(Head1(o % BlockSize(image)), o % BlockSize(image))
          \o Part(Head1(o % BlockSize(image)), Next1(o % BlockSize(image)))
  BY <1>2 DEF CopyFrom
<1>5. CopyFrom(image, content, r, o) = Begin(0, 0) \o Part(0, b)
  <2>1. Head1(0) = 0 /\ Next1(0) = b
    BY <1>3, Zenon
  <2> HIDE DEF Begin, Part, Head1, Next1, content, o
  <2> QED
    BY <1>2, <1>3, <1>4, <2>1, Zenon
<1>6. Begin(0, 0) = <<>>
  OBVIOUS
<1> DEFINE F(k) == BlockAt(content, b + ((k - 1) \div bs)) + ((k - 1) % bs)
           G(k) == DataByte(l, o + k - 1)
<1>7. ASSUME NEW k \in 1 .. r PROVE F(k) = G(k) /\ F(k) \in Int
  <2> DEFINE q == (k - 1) \div bs
             m == (k - 1) % bs
  <2>1. q \in Nat /\ m \in 0 .. bs - 1 /\ k - 1 = q * bs + m /\ q * bs \in Nat
    <3>1. k - 1 \in Nat
      OBVIOUS
    <3> QED
      BY <1>1, <3>1, DivMod
  <2> HIDE DEF q, m
  <2>2. (b + q) * bs = o + q * bs /\ (b + q) * bs \in Nat /\ b + q \in Nat
    BY <1>1, <2>1
  <2>3. o + k - 1 = (b + q) * bs + m
    BY <1>3, <2>1, <2>2
  <2>4. o + k - 1 < d.size
    BY <1>1, <1>3
  <2>5. b + q < l.blocks
    <3> DEFINE x == b + q
               p == l.blocks * bs
               y == x * bs
    <3>1. y + m < p /\ p \in Nat /\ y \in Nat /\ x \in Nat
      <4>1. y + m < d.size
        BY <2>3, <2>4
      <4> QED
        BY <1>1, <2>1, <2>2, <4>1
    <3>2. l.blocks < x => p + bs <= y
      <4> HIDE DEF x
      <4> QED
        BY <1>1, <3>1, TimesLess
    <3>3. l.blocks = x => p = y
      OBVIOUS
    <3> HIDE DEF x, p, y
    <3> QED
      BY <1>1, <2>1, <3>1, <3>2, <3>3 DEF x
  <2>6. /\ Len(content) = l.blocks
        /\ \A i \in 1 .. l.blocks : content[i] = DataBlock(l, i - 1) * bs
    BY ContentIs, Zenon DEF Content
  <2>7. BlockAt(content, b + q) = DataBlock(l, b + q) * bs
    <3>1. b + q + 1 \in 1 .. l.blocks /\ (b + q + 1) - 1 = b + q
      BY <1>1, <2>2, <2>5
    <3>2. content[b + q + 1] = DataBlock(l, (b + q + 1) - 1) * bs
      <4> HIDE DEF content
      <4> QED
        BY <2>6, <3>1, Zenon
    <3> HIDE DEF content
    <3> QED
      BY <2>5, <2>6, <3>1, <3>2, Zenon DEF BlockAt
  <2>8. (o + k - 1) \div bs = b + q /\ (o + k - 1) % bs = m
    <3>1. ((b + q) * bs + m) \div bs = b + q /\ ((b + q) * bs + m) % bs = m
      BY <1>1, <2>1, <2>2, DivIs
    <3> QED
      BY <2>3, <3>1, Zenon
  <2>9. G(k) = DataBlock(l, b + q) * bs + m
    <3> HIDE DEF o
    <3> QED
      BY <2>8, Zenon DEF DataByte
  <2>10. F(k) = DataBlock(l, b + q) * bs + m
    <3> HIDE DEF content
    <3> QED
      BY <2>7, Zenon DEF q, m
  <2>11. DataBlock(l, b + q) \in Int
    <3>1. l.data \in Nat
      BY MadeIs, SoundType, Zenon
    <3> QED
      BY <2>2, <3>1 DEF DataBlock
  <2>12. DataBlock(l, b + q) * bs + m \in Int
    BY <1>1, <2>1, <2>11
  <2> QED
    BY <2>9, <2>10, <2>12, Zenon
<1>8. Part(0, b) = [k \in 1 .. r |-> F(k)]
  <2>1. r - 0 = r
    OBVIOUS
  <2> QED
    BY <2>1, Zenon
<1> HIDE DEF F, G, Start, Part, content, o
<1>9. [k \in 1 .. r |-> F(k)] \in Seq(Int)
  BY <1>7
<1>10. <<>> \o [k \in 1 .. r |-> F(k)] = [k \in 1 .. r |-> F(k)]
  BY <1>9, ConcatEmptySeq, Zenon
<1>11. [k \in 1 .. r |-> F(k)] = [k \in 1 .. r |-> G(k)]
  BY <1>7
<1>12. CopyFrom(image, content, r, o) = [k \in 1 .. r |-> G(k)]
  BY <1>5, <1>6, <1>8, <1>10, <1>11, Zenon
<1>13. Bytes(l, o, r) = [k \in 1 .. r |-> G(k)]
  BY Zenon DEF Bytes, G
<1> QED
  BY <1>12, <1>13, Zenon DEF Copied, content, o

Dies(l) == l.blocks >= NDirBlocks + l.n_ind + l.n_ind * l.n_ind

LEMMA FileIs ==
  ASSUME NEW d, NEW l, NEW image, Made(d, l, image)
  PROVE  LET inode == image.inodes[SlotOf(l, 4)]
         IN /\ inode = FileInode(l, d.mode, d.size)
            /\ inode.mode = d.mode /\ inode.size_lo = d.size
            /\ TooLarge(image, inode) = Dies(l)
<1> DEFINE inode == image.inodes[SlotOf(l, 4)]
<1>1. Sound(l) /\ BlockSize(image) = l.bs /\ inode = FileInode(l, d.mode, d.size)
  BY MadeIs, Zenon
<1>2. inode.mode = d.mode /\ inode.size_lo = d.size
  <2> HIDE DEF inode
  <2> QED
    BY <1>1 DEF FileInode
<1> HIDE DEF inode
<1>3. ActualBlocks(image, inode.size_lo) = l.blocks
  BY <1>1, <1>2, MadeSizes, Zenon DEF ActualBlocks
<1>4. l.n_ind = l.bs \div PointerSize
  BY <1>1, Zenon DEF Sound
<1>5. TooLarge(image, inode) = (ActualBlocks(image, inode.size_lo)
        >= NDirBlocks + (BlockSize(image) \div PointerSize)
             + (BlockSize(image) \div PointerSize) * (BlockSize(image) \div PointerSize))
  BY Zenon DEF TooLarge
<1>6. TooLarge(image, inode) = Dies(l)
  BY <1>1, <1>3, <1>4, <1>5, Zenon DEF Dies
<1> QED
  BY <1>1, <1>2, <1>6, Zenon DEF inode

\* A read that starts at a block.
ReadServed(d, l, image, b, n) ==
  Read(image, image.inodes[SlotOf(l, 4)], n, b * l.bs) =
    IF Dies(l) THEN Died
    ELSE Bytes(l, b * l.bs, Max({0, Min({n, d.size - b * l.bs})}))

LEMMA ReadIs ==
  ASSUME NEW d, NEW l, NEW image, Made(d, l, image), d.mode = "S_IFREG",
         NEW b \in Nat, NEW n \in Nat
  PROVE  ReadServed(d, l, image, b, n)
<1> DEFINE inode == image.inodes[SlotOf(l, 4)]
           o == b * l.bs
           left == d.size - o
           r == Min({n, left})
<1>1. /\ inode = FileInode(l, d.mode, d.size) /\ inode.size_lo = d.size
      /\ TooLarge(image, inode) = Dies(l)
  BY FileIs, Zenon
<1>2. d.size \in Nat /\ o \in Nat /\ left \in Int
  BY BlocksHold
<1>3. Read(image, inode, n, o) =
        IF Dies(l) THEN Died
        ELSE IF o >= d.size THEN <<>> ELSE CopyFrom(image, Content(d, l, image), r, o)
  <2> HIDE DEF o, inode
  <2> QED
    BY <1>1, Zenon DEF Read, Content
<1>4. ~IsFast(d.mode, d.size)
  BY DEF IsFast
<1>5. CASE Dies(l)
  <2> HIDE DEF o, inode, r
  <2> QED
    BY <1>3, <1>5, Zenon DEF ReadServed, o, inode
<1>6. CASE ~Dies(l) /\ o >= d.size
  <2>1. Max({0, r}) = 0
    <3>1. r = IF n <= left THEN n ELSE left
      <4> HIDE DEF left
      <4> QED
        BY <1>2, MinOfTwo
    <3>2. left <= 0
      BY <1>2, <1>6
    <3> HIDE DEF r, left
    <3>3. r \in Int /\ r <= 0
      BY <1>2, <3>1, <3>2
    <3>4. Max({0, r}) = IF 0 <= r THEN r ELSE 0
      BY <3>3, MaxOfTwo, 0 \in Int
    <3> QED
      BY <3>3, <3>4
  <2>2. Bytes(l, o, 0) = <<>>
    BY DEF Bytes
  <2> HIDE DEF o, inode, r
  <2>3. Read(image, inode, n, o) = Bytes(l, o, Max({0, r}))
    BY <1>3, <1>6, <2>1, <2>2, Zenon
  <2> QED
    BY <1>6, <2>3, Zenon DEF ReadServed, o, inode, r, left
<1>7. CASE ~Dies(l) /\ o < d.size
  <2>1. r \in Nat /\ Max({0, r}) = r /\ o + r <= d.size
    <3>1. r = IF n <= left THEN n ELSE left
      <4> HIDE DEF left
      <4> QED
        BY <1>2, MinOfTwo
    <3>2. left > 0 /\ o + left = d.size
      <4> HIDE DEF o
      <4> QED
        BY <1>2, <1>7
    <3> HIDE DEF r, left, o
    <3>3. r \in Nat /\ o + r <= d.size
      BY <1>2, <3>1, <3>2
    <3>4. Max({0, r}) = IF 0 <= r THEN r ELSE 0
      BY <3>3, MaxOfTwo, 0 \in Int
    <3> QED
      BY <3>3, <3>4
  <2>2. l.blocks < NDirBlocks + l.n_ind + l.n_ind * l.n_ind
    <3> DEFINE nn == l.n_ind * l.n_ind
    <3>1. l.blocks \in Nat /\ l.n_ind \in Nat /\ nn \in Nat /\ NDirBlocks \in Nat
      BY MadeIs, Ext2Assumption DEF Sound
    <3>2. ~(l.blocks >= NDirBlocks + l.n_ind + nn)
      BY <1>7, Zenon DEF Dies
    <3> HIDE DEF nn
    <3>3. l.blocks < NDirBlocks + l.n_ind + nn
      BY <3>1, <3>2
    <3> QED
      BY <3>3, Zenon DEF nn
  <2>3. Copied(d, l, image, b, r)
    <3> HIDE DEF r
    <3> QED
      BY <1>4, <2>1, <2>2, CopyAligned, Zenon
  <2>4. ~(o >= d.size)
    <3> HIDE DEF o
    <3> QED
      BY <1>2, <1>7
  <2> HIDE DEF r, inode
  <2>5. CopyFrom(image, Content(d, l, image), r, o) = Bytes(l, o, r)
    BY <2>3, Zenon DEF Copied
  <2> HIDE DEF o
  <2>6. Read(image, inode, n, o) = Bytes(l, o, Max({0, r}))
    BY <1>3, <1>7, <2>1, <2>4, <2>5, Zenon
  <2> QED
    BY <1>7, <2>6, Zenon DEF ReadServed, o, inode, r, left
<1>8. o < d.size \/ o >= d.size
  <2> HIDE DEF o
  <2> QED
    BY <1>2
<1> QED
  BY <1>5, <1>6, <1>7, <1>8, Zenon

\* A link is read from its inode or from its block.
LinkServed(d, l, image) ==
  Readlink(image, SlotOf(l, 4)) =
    IF d.size <= InlineSize THEN [k \in 1 .. d.size |-> SlotOf(l, 4) + k - 1]
    ELSE Bytes(l, 0, d.size)

LEMMA LinkIs ==
  ASSUME NEW d, NEW l, NEW image, Made(d, l, image), d.mode = "S_IFLNK"
  PROVE  LinkServed(d, l, image)
<1> DEFINE at == SlotOf(l, 4)
           inode == image.inodes[at]
<1>1. /\ inode = FileInode(l, d.mode, d.size) /\ inode.size_lo = d.size
      /\ TooLarge(image, inode) = Dies(l)
  BY FileIs, Zenon
<1>2. d.size \in 1 .. l.bs
  BY DEF Made, IsDisk
<1>3. l.blocks < NDirBlocks + l.n_ind + l.n_ind * l.n_ind
  <2> DEFINE nn == l.n_ind * l.n_ind
             p == l.blocks * l.bs
  <2>1. l.blocks \in Nat /\ l.n_ind \in Nat /\ l.n_ind >= 1 /\ nn \in Nat /\ NDirBlocks \in Nat
        /\ NDirBlocks >= 2
    BY MadeIs, Ext2Assumption DEF Sound
  <2>2. p < d.size + l.bs /\ l.bs \in Nat \ {0} /\ p \in Nat
    BY BlocksHold
  <2>3. l.blocks < 2
    <3>1. 2 < l.blocks => 2 * l.bs + l.bs <= p
      BY <2>1, <2>2, TimesLess
    <3>2. l.blocks = 2 => p = 2 * l.bs
      BY <2>2
    <3> HIDE DEF p
    <3> QED
      BY <1>2, <2>1, <2>2, <3>1, <3>2
  <2> HIDE DEF nn
  <2>4. l.blocks < NDirBlocks + l.n_ind + nn
    BY <2>1, <2>3
  <2> QED
    BY <2>4, Zenon DEF nn
<1>4. ~Dies(l)
  <2> SUFFICES ASSUME Dies(l) PROVE FALSE
    OBVIOUS
  <2> DEFINE m == NDirBlocks + l.n_ind + l.n_ind * l.n_ind
  <2>1. l.blocks < m /\ l.blocks \in Nat /\ m \in Nat
    BY <1>3, MadeIs, Ext2Assumption DEF Sound
  <2>2. l.blocks >= m
    BY Zenon DEF Dies
  <2> HIDE DEF m
  <2> QED
    BY <2>1, <2>2
<1>5. Readlink(image, at) =
        IF d.size > InlineSize THEN CopyFrom(image, Content(d, l, image), d.size, 0)
        ELSE [k \in 1 .. d.size |-> at + k - 1]
  <2> HIDE DEF at
  <2> QED
    BY <1>1, <1>4, Zenon DEF Readlink, Content
<1>6. CASE d.size <= InlineSize
  <2>1. ~(d.size > InlineSize)
    BY <1>2, <1>6, Ext2Assumption
  <2> QED
    BY <1>5, <1>6, <2>1, Zenon DEF LinkServed
<1>7. CASE ~(d.size <= InlineSize)
  <2>1. d.size > InlineSize /\ ~(d.size < InlineSize) /\ d.size \in Nat
    BY <1>2, <1>7, Ext2Assumption
  <2>2. ~IsFast(d.mode, d.size)
    BY <2>1, Zenon DEF IsFast
  <2>3. 0 * l.bs = 0 /\ 0 * l.bs + d.size <= d.size
    BY <2>1, BlocksHold
  <2>4. Copied(d, l, image, 0, d.size)
    BY <1>3, <2>1, <2>2, <2>3, CopyAligned, 0 \in Nat, Zenon
  <2>5. CopyFrom(image, Content(d, l, image), d.size, 0) = Bytes(l, 0, d.size)
    BY <2>3, <2>4, Zenon DEF Copied
  <2> QED
    BY <1>5, <1>7, <2>1, <2>5, Zenon DEF LinkServed
<1> QED
  BY <1>6, <1>7, Zenon

-----------------------------------------------------------------------------
(* ext2: the walk through the directories.                                      *)

Push(t, rest) == <<t>> \o rest
Pushed(S, t, rest) ==
  /\ Push(t, rest) \in Seq(S) /\ Push(t, rest) # <<>>
  /\ Head(Push(t, rest)) = t /\ Tail(Push(t, rest)) = rest

LEMMA PushIs ==
  ASSUME NEW S, NEW t \in S, NEW rest \in Seq(S)
  PROVE  Pushed(S, t, rest)
<1> DEFINE one == <<t>>
           s == one \o rest
<1>1. one \in Seq(S) /\ Len(one) = 1 /\ one[1] = t
  OBVIOUS
<1>2. Len(rest) \in Nat /\ \A i \in 1 .. Len(rest) : rest[i] \in S
  BY LenProperties, ElementOfSeq
<1> HIDE DEF one
<1>3. /\ s \in Seq(S) /\ Len(s) = Len(one) + Len(rest)
      /\ \A i \in 1 .. Len(one) + Len(rest) : s[i] = IF i <= Len(one) THEN one[i] ELSE rest[i - Len(one)]
  BY <1>1, ConcatProperties, Zenon
<1> HIDE DEF s
<1>4. s # <<>> /\ Len(s) = Len(rest) + 1 /\ s[1] = t /\ \A i \in 1 .. Len(rest) : s[i + 1] = rest[i]
  <2>1. Len(s) = Len(rest) + 1
    BY <1>1, <1>2, <1>3
  <2>2. s # <<>>
    BY <1>2, <1>3, <2>1, EmptySeq
  <2>3. s[1] = t
    BY <1>1, <1>2, <1>3
  <2>4. ASSUME NEW i \in 1 .. Len(rest) PROVE s[i + 1] = rest[i]
    BY <1>1, <1>2, <1>3
  <2> QED
    BY <2>1, <2>2, <2>3, <2>4
<1>5. Head(s) = t
  BY <1>3, <1>4, HeadTailProperties
<1>6. Tail(s) \in Seq(S) /\ Len(Tail(s)) = Len(s) - 1 /\ \A i \in 1 .. Len(Tail(s)) : Tail(s)[i] = s[i + 1]
  BY <1>3, <1>4, HeadTailProperties, Zenon
<1>7. Tail(s) = rest
  <2>1. Len(Tail(s)) = Len(rest)
    BY <1>2, <1>4, <1>6
  <2> QED
    BY <1>4, <1>6, <2>1, SeqEqual
<1> QED
  BY <1>3, <1>4, <1>5, <1>7, Zenon DEF Pushed, Push, s, one

\* A call of WalkDir that is at entry i of a block.
Where(l, paths, block, i) == IF i <= Len(EntriesIn(l, block, paths)) THEN (i - 1) * 4 ELSE l.bs
Entry(l, paths, path, block, i) ==
  [path |-> path, begin |-> block * l.bs, dirent |-> block * l.bs + Where(l, paths, block, i)]
Calls == [path : {<<>>, <<"dir">>}, begin : Nat, dirent : Nat]
Walking(fs, stack) == [fs |-> fs, stack |-> stack]

LEMMA CallType ==
  ASSUME NEW d, NEW l, NEW image, Made(d, l, image), NEW block \in {l.root, l.dir},
         NEW i \in Nat \ {0}, NEW path \in {<<>>, <<"dir">>}
  PROVE  /\ Entry(l, d.paths, path, block, i) \in Calls
         /\ Where(l, d.paths, block, i) \in Nat
<1>1. l.bs \in Nat \ {0} /\ block \in Nat
  BY MadeIs, SoundType
<1>2. Where(l, d.paths, block, i) \in Nat
  BY <1>1 DEF Where
<1>3. block * l.bs \in Nat
  BY <1>1
<1> QED
  BY <1>2, <1>3 DEF Entry, Calls

\* A call that is at an entry, and what is read there.
Reads(d, l, image, path, block, i) ==
  LET names == EntriesIn(l, block, d.paths)
      top == Entry(l, d.paths, path, block, i)
      e == image.dirents[top.dirent]
  IN /\ ~(top.dirent >= top.begin + BlockSize(image))
     /\ e.inode = names[i][1] /\ e.filename = names[i][2]
     /\ [top EXCEPT !.dirent = @ + e.rec_len] = Entry(l, d.paths, path, block, i + 1)
     /\ top.path = path

LEMMA EntryRead ==
  ASSUME NEW d, NEW l, NEW image, Made(d, l, image), NEW block \in {l.root, l.dir},
         NEW i \in 1 .. Len(EntriesIn(l, block, d.paths)), NEW path \in {<<>>, <<"dir">>}
  PROVE  Reads(d, l, image, path, block, i)
<1> DEFINE names == EntriesIn(l, block, d.paths)
           top == Entry(l, d.paths, path, block, i)
           o == block * l.bs
           n == Len(names)
<1>1. n \in 1 .. 4 /\ i \in 1 .. n
  BY EntriesType
<1>2. l.bs \in Nat /\ l.bs >= 16 /\ block \in Nat /\ o \in Nat /\ BlockSize(image) = l.bs
  BY MadeIs, SoundType
<1>3. Where(l, d.paths, block, i) = (i - 1) * 4
  <2>1. Where(l, d.paths, block, i) = IF i <= n THEN (i - 1) * 4 ELSE l.bs
    BY Zenon DEF Where
  <2> HIDE DEF n
  <2> QED
    BY <1>1, <2>1
<1>4. top = [path |-> path, begin |-> o, dirent |-> o + (i - 1) * 4]
  BY <1>3, Zenon DEF Entry
<1>5. image.dirents[o + (i - 1) * 4] = Dirent(l, names, i)
  <2>1. block \in {l.root, l.late, l.dir}
    OBVIOUS
  <2>2. image.dirents[ReadBlock(image, block) + (i - 1) * 4] = Dirent(l, names, i)
    BY <2>1, DirentAt
  <2> QED
    BY <1>2, <2>2, Zenon DEF ReadBlock
<1>6. Dirent(l, names, i) =
        [inode |-> names[i][1], filename |-> names[i][2],
         rec_len |-> IF i = n THEN l.bs - (i - 1) * 4 ELSE 4]
  BY Zenon DEF Dirent
<1>7. Entry(l, d.paths, path, block, i + 1) =
        [path |-> path, begin |-> o, dirent |-> o + (IF i + 1 <= n THEN ((i + 1) - 1) * 4 ELSE l.bs)]
  BY Zenon DEF Entry, Where
<1> DEFINE e == image.dirents[top.dirent]
<1>8. top.dirent = o + (i - 1) * 4 /\ top.begin = o /\ top.path = path
  <2> HIDE DEF top, o
  <2> QED
    BY <1>4
<1>9. /\ e.inode = names[i][1] /\ e.filename = names[i][2]
      /\ e.rec_len = IF i = n THEN l.bs - (i - 1) * 4 ELSE 4
  <2>1. e = Dirent(l, names, i)
    <3> HIDE DEF top, o
    <3> QED
      BY <1>5, <1>8, Zenon
  <2> HIDE DEF e, names, n
  <2> QED
    BY <1>6, <2>1
<1>10. [top EXCEPT !.dirent = @ + e.rec_len] = Entry(l, d.paths, path, block, i + 1)
  <2> HIDE DEF e, n, o, names
  <2>1. o + (i - 1) * 4 + e.rec_len = o + (IF i + 1 <= n THEN ((i + 1) - 1) * 4 ELSE l.bs)
    BY <1>1, <1>2, <1>9
  <2>2. [top EXCEPT !.dirent = @ + e.rec_len] =
          [path |-> path, begin |-> o, dirent |-> o + (i - 1) * 4 + e.rec_len]
    <3> HIDE DEF top
    <3> QED
      BY <1>4
  <2> HIDE DEF top
  <2> QED
    BY <1>7, <2>1, <2>2, Zenon
<1>11. ~(top.dirent >= top.begin + BlockSize(image))
  <2> HIDE DEF top, o, n
  <2> QED
    BY <1>1, <1>2, <1>8
<1> QED
  BY <1>8, <1>9, <1>10, <1>11, Zenon DEF Reads

\* A turn of the walk: at the end of a block, at a name that stays, at a file
\* and at a directory.
TurnIs(image, s, t) == WalkTurn(image, s) = t

LEMMA TurnEnd ==
  ASSUME NEW d, NEW l, NEW image, Made(d, l, image), NEW block \in {l.root, l.dir},
         NEW path \in {<<>>, <<"dir">>}, NEW rest \in Seq(Calls), NEW fs
  PROVE  LET top == Entry(l, d.paths, path, block, Len(EntriesIn(l, block, d.paths)) + 1)
         IN TurnIs(image, Walking(fs, Push(top, rest)), Walking(fs, rest))
<1> DEFINE n == Len(EntriesIn(l, block, d.paths))
           top == Entry(l, d.paths, path, block, n + 1)
           s == Walking(fs, Push(top, rest))
<1>1. n \in 1 .. 4
  BY EntriesType
<1>2. top \in Calls
  <2>1. n + 1 \in Nat \ {0}
    BY <1>1
  <2> HIDE DEF n
  <2> QED
    BY <2>1, CallType, Zenon
<1>3. Pushed(Calls, top, rest)
  BY <1>2, PushIs, Zenon
<1>4. s.fs = fs /\ s.stack = Push(top, rest)
  BY DEF Walking
<1>5. s.stack # <<>> /\ Head(s.stack) = top /\ Tail(s.stack) = rest
  BY <1>3, <1>4, Zenon DEF Pushed
<1>6. BlockSize(image) = l.bs /\ l.bs \in Nat /\ block \in Nat
  BY MadeIs, SoundType
<1>7. top.dirent >= top.begin + BlockSize(image)
  <2>1. Where(l, d.paths, block, n + 1) = IF n + 1 <= n THEN ((n + 1) - 1) * 4 ELSE l.bs
    BY Zenon DEF Where
  <2> HIDE DEF n
  <2>2. Where(l, d.paths, block, n + 1) = l.bs
    BY <1>1, <2>1
  <2> DEFINE o == block * l.bs
  <2>3. o \in Nat
    BY <1>6
  <2>4. top = [path |-> path, begin |-> o, dirent |-> o + l.bs]
    BY <2>2, Zenon DEF Entry
  <2> HIDE DEF o, top
  <2> QED
    BY <1>6, <2>3, <2>4
<1> HIDE DEF top, n
<1>8. [s EXCEPT !.stack = Tail(@)] = Walking(fs, rest)
  BY <1>5 DEF Walking
<1> HIDE DEF s
<1>9. WalkTurn(image, s) = [s EXCEPT !.stack = Tail(@)]
  BY <1>5, <1>7, Zenon DEF WalkTurn
<1> QED
  BY <1>8, <1>9, Zenon DEF TurnIs, s, top, n

Placed(fs, p, at) == [q \in DOMAIN fs \cup {p} |-> IF q = p THEN at ELSE fs[q]]

\* What becomes of an entry that has the name "name" and the inode "inode".
AfterEntry(l, image, path, fs, next, name, inode) ==
  LET at == Inode(image, inode)
      new_path == Append(path, name)
  IN IF name \in {".", ".."} THEN Walking(fs, next)
     ELSE IF image.inodes[at].mode = "S_IFDIR"
     THEN Walking(fs, Push(WalkDir(image, new_path, image.inodes[at].block[0]), next))
     ELSE Walking(Placed(fs, new_path, at), next)

LEMMA TurnEntry ==
  ASSUME NEW d, NEW l, NEW image, Made(d, l, image), NEW block \in {l.root, l.dir},
         NEW i \in 1 .. Len(EntriesIn(l, block, d.paths)),
         NEW path \in {<<>>, <<"dir">>}, NEW rest \in Seq(Calls), NEW fs
  PROVE  LET names == EntriesIn(l, block, d.paths)
         IN TurnIs(image, Walking(fs, Push(Entry(l, d.paths, path, block, i), rest)),
                 AfterEntry(l, image, path, fs, Push(Entry(l, d.paths, path, block, i + 1), rest),
                       names[i][2], names[i][1]))
<1> DEFINE names == EntriesIn(l, block, d.paths)
           top == Entry(l, d.paths, path, block, i)
           next == Push(Entry(l, d.paths, path, block, i + 1), rest)
           s == Walking(fs, Push(top, rest))
           e == image.dirents[top.dirent]
           name == names[i][2]
           inode == names[i][1]
           at == Inode(image, inode)
           new_path == Append(path, name)
<1>1. i \in Nat \ {0}
  OBVIOUS
<1>2. top \in Calls
  BY <1>1, CallType, Zenon
<1>3. Pushed(Calls, top, rest)
  <2> HIDE DEF top
  <2> QED
    BY <1>2, PushIs, Zenon
<1>4. s.fs = fs /\ s.stack = Push(top, rest)
  BY DEF Walking
<1>5. s.stack # <<>> /\ Head(s.stack) = top /\ Tail(s.stack) = rest
  BY <1>3, <1>4, Zenon DEF Pushed
<1>6. Reads(d, l, image, path, block, i)
  BY EntryRead, Zenon
<1>7. /\ ~(top.dirent >= top.begin + BlockSize(image))
      /\ e.inode = inode /\ e.filename = name
      /\ [top EXCEPT !.dirent = @ + e.rec_len] = Entry(l, d.paths, path, block, i + 1)
      /\ top.path = path
  BY <1>6, Zenon DEF Reads
<1>8. <<[top EXCEPT !.dirent = @ + e.rec_len]>> \o Tail(s.stack) = next
  BY <1>5, <1>7, Zenon DEF Push
<1> HIDE DEF top, next, e, name, inode, at, new_path, names
<1>9. ASSUME NEW t PROVE [s EXCEPT !.stack = t] = Walking(fs, t)
  BY DEF Walking
<1>10. [fs |-> Placed(fs, new_path, at), stack |-> next] = Walking(Placed(fs, new_path, at), next)
  BY Zenon DEF Walking
<1> HIDE DEF s
<1>11. WalkTurn(image, s) =
         IF name \in {".", ".."} THEN [s EXCEPT !.stack = next]
         ELSE IF image.inodes[at].mode = "S_IFDIR"
         THEN [s EXCEPT !.stack = <<WalkDir(image, new_path, image.inodes[at].block[0])>> \o next]
         ELSE [fs |-> Placed(fs, new_path, at), stack |-> next]
  <2> DEFINE Next0 == <<[top EXCEPT !.dirent = @ + e.rec_len]>> \o Tail(s.stack)
             At0 == Inode(image, e.inode)
             Path0 == Append(top.path, e.filename)
  <2>1. WalkTurn(image, s) =
         IF e.filename \in {".", ".."} THEN [s EXCEPT !.stack = Next0]
         ELSE IF image.inodes[At0].mode = "S_IFDIR"
         THEN [s EXCEPT !.stack = <<WalkDir(image, Path0, image.inodes[At0].block[0])>> \o Next0]
         ELSE [fs |-> Placed(s.fs, Path0, At0), stack |-> Next0]
    BY <1>5, <1>7, Zenon DEF WalkTurn, Placed, e
  <2>2. Next0 = next /\ At0 = at /\ Path0 = new_path
    BY <1>7, <1>8, Zenon DEF at, new_path
  <2> HIDE DEF Next0, At0, Path0
  <2> QED
    BY <1>4, <1>7, <2>1, <2>2, Zenon
<1>12. WalkTurn(image, s) = AfterEntry(l, image, path, fs, next, name, inode)
  BY <1>9, <1>10, <1>11, Zenon DEF AfterEntry, Push, at, new_path
<1> QED
  BY <1>12, Zenon DEF TurnIs, s, top, next, name, inode, names

-----------------------------------------------------------------------------
(* A walk that comes to its end within m turns, with one inode at each of    *)
(* the paths P.                                                             *)
Holds(fs, P, at) == DOMAIN fs = P /\ \A p \in P : fs[p] = at
Ends(image, s, m, P, at) ==
  \E k \in 0 .. m : \E c, fs :
    /\ c[0] = s /\ (\A n \in 0 .. k - 1 : c[n + 1] = WalkTurn(image, c[n]))
    /\ c[k] = Walking(fs, <<>>) /\ Holds(fs, P, at)

LEMMA EndsHere ==
  ASSUME NEW image, NEW fs, NEW P, NEW at, Holds(fs, P, at)
  PROVE  Ends(image, Walking(fs, <<>>), 0, P, at)
<1> DEFINE c == [n \in 0 .. 0 |-> Walking(fs, <<>>)]
<1>1. 0 \in 0 .. 0 /\ c[0] = Walking(fs, <<>>) /\ \A n \in 0 .. 0 - 1 : c[n + 1] = WalkTurn(image, c[n])
  OBVIOUS
<1> HIDE DEF c
<1> QED
  BY <1>1, Zenon DEF Ends

LEMMA EndsStep ==
  ASSUME NEW image, NEW s, NEW t, NEW m \in Nat, NEW P, NEW at, TurnIs(image, s, t),
         Ends(image, t, m, P, at)
  PROVE  Ends(image, s, m + 1, P, at)
<1>0. PICK k \in 0 .. m : \E c, fs :
        /\ c[0] = t /\ (\A n \in 0 .. k - 1 : c[n + 1] = WalkTurn(image, c[n]))
        /\ c[k] = Walking(fs, <<>>) /\ Holds(fs, P, at)
  BY Zenon DEF Ends
<1>1. PICK c, fs :
        /\ c[0] = t /\ (\A n \in 0 .. k - 1 : c[n + 1] = WalkTurn(image, c[n]))
        /\ c[k] = Walking(fs, <<>>) /\ Holds(fs, P, at)
  BY <1>0, Zenon
<1> DEFINE b == [n \in 0 .. k + 1 |-> IF n = 0 THEN s ELSE c[n - 1]]
<1>2. k + 1 \in 0 .. m + 1 /\ b[0] = s /\ b[k + 1] = c[k]
  OBVIOUS
<1>3. ASSUME NEW n \in 0 .. (k + 1) - 1 PROVE b[n + 1] = WalkTurn(image, b[n])
  <2>1. b[n + 1] = c[n]
    OBVIOUS
  <2>2. CASE n = 0
    BY <1>1, <2>1, <2>2 DEF TurnIs
  <2>3. CASE n # 0
    <3>1. n - 1 \in 0 .. k - 1 /\ (n - 1) + 1 = n /\ b[n] = c[n - 1]
      BY <2>3
    <3>2. c[(n - 1) + 1] = WalkTurn(image, c[n - 1])
      BY <1>1, <3>1, Zenon
    <3> HIDE DEF b
    <3> QED
      BY <2>1, <3>1, <3>2
  <2> QED
    BY <2>2, <2>3
<1>4. b[k + 1] = Walking(fs, <<>>)
  BY <1>1, <1>2, Zenon
<1> HIDE DEF b
<1> QED
  BY <1>1, <1>2, <1>3, <1>4, Zenon DEF Ends

LEMMA EndsLater ==
  ASSUME NEW image, NEW s, NEW m \in Nat, NEW n \in Nat, m <= n, NEW P, NEW at,
         Ends(image, s, m, P, at)
  PROVE  Ends(image, s, n, P, at)
<1>1. 0 .. m \subseteq 0 .. n
  OBVIOUS
<1> QED
  BY <1>1, Zenon DEF Ends

\* The entry of the file, and that of the directory.
LEMMA AfterFile ==
  ASSUME NEW d, NEW l, NEW image, Made(d, l, image), NEW path, NEW fs, NEW next
  PROVE  AfterEntry(l, image, path, fs, next, "file", 4)
           = Walking(Placed(fs, Append(path, "file"), SlotOf(l, 4)), next)
<1>1. Inode(image, 4) = SlotOf(l, 4)
  BY MadeIs
<1>2. image.inodes[SlotOf(l, 4)].mode = d.mode
  BY FileIs, Zenon
<1>3. d.mode # "S_IFDIR"
  BY DEF Made, IsDisk, Disk
<1>4. "file" \notin {".", ".."}
  OBVIOUS
<1> QED
  BY <1>1, <1>2, <1>3, <1>4, Zenon DEF AfterEntry

\* A call of WalkDir starts at the first entry.
Begins(d, l, image, path, block) == WalkDir(image, path, block) = Entry(l, d.paths, path, block, 1)

LEMMA WalkDirIs ==
  ASSUME NEW d, NEW l, NEW image, Made(d, l, image), NEW path, NEW block \in {l.root, l.dir}
  PROVE  Begins(d, l, image, path, block)
<1> DEFINE o == block * l.bs
           n == Len(EntriesIn(l, block, d.paths))
<1>1. n \in 1 .. 4
  BY EntriesType
<1>2. l.bs \in Nat /\ block \in Nat /\ BlockSize(image) = l.bs
  BY MadeIs, SoundType
<1>3. o \in Nat
  BY <1>2
<1>4. Where(l, d.paths, block, 1) = 0
  <2>1. Where(l, d.paths, block, 1) = IF 1 <= n THEN (1 - 1) * 4 ELSE l.bs
    BY Zenon DEF Where
  <2> HIDE DEF n
  <2> QED
    BY <1>1, <2>1
<1>5. WalkDir(image, path, block) = [path |-> path, begin |-> o, dirent |-> o]
  BY <1>2, Zenon DEF WalkDir, ReadBlock
<1>6. Entry(l, d.paths, path, block, 1) = [path |-> path, begin |-> o, dirent |-> o + 0]
  BY <1>4, Zenon DEF Entry
<1> HIDE DEF o
<1>7. o + 0 = o
  BY <1>3
<1> QED
  BY <1>5, <1>6, <1>7, Zenon DEF Begins

LEMMA AfterDir ==
  ASSUME NEW d, NEW l, NEW image, Made(d, l, image), NEW fs, NEW next
  PROVE  AfterEntry(l, image, <<>>, fs, next, "dir", 3)
           = Walking(fs, Push(Entry(l, d.paths, <<"dir">>, l.dir, 1), next))
<1> DEFINE at == SlotOf(l, 3)
<1>1. Inode(image, 3) = at /\ image.inodes[at] = DirInode(l) /\ BlockSize(image) = l.bs
  BY MadeIs
<1>2. DirInode(l).mode = "S_IFDIR" /\ DirInode(l).block = BlockArray(l, l.dir, 0)
  BY DEF DirInode
<1>3. BlockArray(l, l.dir, 0)[0] = l.dir
  <2>1. 0 \in 0 .. DindBlock
    BY Ext2Assumption DEF DindBlock
  <2> QED
    BY <2>1 DEF BlockArray
<1>4. "dir" \notin {".", ".."}
  OBVIOUS
<1>5. Append(<<>>, "dir") = <<"dir">>
  OBVIOUS
<1>6. WalkDir(image, <<"dir">>, l.dir) = Entry(l, d.paths, <<"dir">>, l.dir, 1)
  <2>1. Begins(d, l, image, <<"dir">>, l.dir)
    BY WalkDirIs
  <2> QED
    BY <2>1, Zenon DEF Begins
<1> HIDE DEF at
<1> QED
  BY <1>1, <1>2, <1>3, <1>4, <1>5, <1>6, Zenon DEF AfterEntry

LEMMA PlacedHolds ==
  ASSUME NEW fs, NEW P, NEW at, NEW p, Holds(fs, P, at)
  PROVE  Holds(Placed(fs, p, at), P \cup {p}, at)
BY DEF Holds, Placed

\* What is left to do once the paths P were found, which ends with Q.
RestEnds(image, rest, m, P, Q, at) ==
  \A fs : Holds(fs, P, at) => Ends(image, Walking(fs, rest), m, Q, at)

\* A turn at entry i.
EntryEnds(d, l, image, path, block, i, rest, m, P, Q) ==
  RestEnds(image, Push(Entry(l, d.paths, path, block, i), rest), m, P, Q, SlotOf(l, 4))

LEMMA DotEnds ==
  ASSUME NEW d, NEW l, NEW image, Made(d, l, image), NEW block \in {l.root, l.dir},
         NEW i \in 1 .. Len(EntriesIn(l, block, d.paths)),
         EntriesIn(l, block, d.paths)[i][2] \in {".", ".."},
         NEW path \in {<<>>, <<"dir">>}, NEW rest \in Seq(Calls), NEW m \in Nat, NEW P, NEW Q,
         EntryEnds(d, l, image, path, block, i + 1, rest, m, P, Q)
  PROVE  EntryEnds(d, l, image, path, block, i, rest, m + 1, P, Q)
<1> DEFINE next == Push(Entry(l, d.paths, path, block, i + 1), rest)
           here == Push(Entry(l, d.paths, path, block, i), rest)
           names == EntriesIn(l, block, d.paths)
           at == SlotOf(l, 4)
<1>1. ASSUME NEW fs, Holds(fs, P, at) PROVE Ends(image, Walking(fs, here), m + 1, Q, at)
  <2>1. TurnIs(image, Walking(fs, here), AfterEntry(l, image, path, fs, next, names[i][2], names[i][1]))
    BY TurnEntry, Zenon
  <2>2. AfterEntry(l, image, path, fs, next, names[i][2], names[i][1]) = Walking(fs, next)
    BY Zenon DEF AfterEntry
  <2>3. Ends(image, Walking(fs, next), m, Q, at)
    BY <1>1, Zenon DEF EntryEnds, RestEnds
  <2> HIDE DEF here, next, names, at
  <2>4. TurnIs(image, Walking(fs, here), Walking(fs, next))
    BY <2>1, <2>2, Zenon
  <2> QED
    BY <2>3, <2>4, EndsStep, Zenon
<1> QED
  BY <1>1, Zenon DEF EntryEnds, RestEnds

LEMMA FileEnds ==
  ASSUME NEW d, NEW l, NEW image, Made(d, l, image), NEW block \in {l.root, l.dir},
         NEW i \in 1 .. Len(EntriesIn(l, block, d.paths)),
         EntriesIn(l, block, d.paths)[i] = <<4, "file">>,
         NEW path \in {<<>>, <<"dir">>}, NEW rest \in Seq(Calls), NEW m \in Nat, NEW P, NEW Q,
         EntryEnds(d, l, image, path, block, i + 1, rest, m, P \cup {Append(path, "file")}, Q)
  PROVE  EntryEnds(d, l, image, path, block, i, rest, m + 1, P, Q)
<1> DEFINE next == Push(Entry(l, d.paths, path, block, i + 1), rest)
           here == Push(Entry(l, d.paths, path, block, i), rest)
           names == EntriesIn(l, block, d.paths)
           at == SlotOf(l, 4)
           p == Append(path, "file")
<1>1. ASSUME NEW fs, Holds(fs, P, at) PROVE Ends(image, Walking(fs, here), m + 1, Q, at)
  <2>1. TurnIs(image, Walking(fs, here), AfterEntry(l, image, path, fs, next, names[i][2], names[i][1]))
    BY TurnEntry, Zenon
  <2>2. names[i][2] = "file" /\ names[i][1] = 4
    OBVIOUS
  <2>3. AfterEntry(l, image, path, fs, next, "file", 4) = Walking(Placed(fs, p, at), next)
    BY AfterFile
  <2> HIDE DEF here, names
  <2>4. TurnIs(image, Walking(fs, here), Walking(Placed(fs, p, at), next))
    BY <2>1, <2>2, <2>3, Zenon
  <2>5. Holds(Placed(fs, p, at), P \cup {p}, at)
    BY <1>1, PlacedHolds, Zenon
  <2>6. Ends(image, Walking(Placed(fs, p, at), next), m, Q, at)
    BY <2>5, Zenon DEF EntryEnds, RestEnds
  <2> HIDE DEF next, p, at
  <2> QED
    BY <2>4, <2>6, EndsStep, Zenon
<1> QED
  BY <1>1, Zenon DEF EntryEnds, RestEnds

LEMMA SubdirEnds ==
  ASSUME NEW d, NEW l, NEW image, Made(d, l, image),
         NEW i \in 1 .. Len(EntriesIn(l, l.root, d.paths)),
         EntriesIn(l, l.root, d.paths)[i] = <<3, "dir">>,
         NEW rest \in Seq(Calls), NEW m \in Nat, NEW P, NEW Q,
         EntryEnds(d, l, image, <<"dir">>, l.dir, 1,
                   Push(Entry(l, d.paths, <<>>, l.root, i + 1), rest), m, P, Q)
  PROVE  EntryEnds(d, l, image, <<>>, l.root, i, rest, m + 1, P, Q)
<1> DEFINE next == Push(Entry(l, d.paths, <<>>, l.root, i + 1), rest)
           here == Push(Entry(l, d.paths, <<>>, l.root, i), rest)
           there == Push(Entry(l, d.paths, <<"dir">>, l.dir, 1), next)
           names == EntriesIn(l, l.root, d.paths)
           at == SlotOf(l, 4)
<1>1. ASSUME NEW fs, Holds(fs, P, at) PROVE Ends(image, Walking(fs, here), m + 1, Q, at)
  <2>1. TurnIs(image, Walking(fs, here), AfterEntry(l, image, <<>>, fs, next, names[i][2], names[i][1]))
    BY TurnEntry, Zenon
  <2>2. names[i][2] = "dir" /\ names[i][1] = 3
    OBVIOUS
  <2>3. AfterEntry(l, image, <<>>, fs, next, "dir", 3) = Walking(fs, there)
    BY AfterDir
  <2> HIDE DEF here, names
  <2>4. TurnIs(image, Walking(fs, here), Walking(fs, there))
    BY <2>1, <2>2, <2>3, Zenon
  <2>5. Ends(image, Walking(fs, there), m, Q, at)
    BY <1>1, Zenon DEF EntryEnds, RestEnds
  <2> HIDE DEF there, next, at
  <2> QED
    BY <2>4, <2>5, EndsStep, Zenon
<1> QED
  BY <1>1, Zenon DEF EntryEnds, RestEnds

LEMMA EndEnds ==
  ASSUME NEW d, NEW l, NEW image, Made(d, l, image), NEW block \in {l.root, l.dir},
         NEW path \in {<<>>, <<"dir">>}, NEW rest \in Seq(Calls), NEW m \in Nat, NEW P, NEW Q,
         RestEnds(image, rest, m, P, Q, SlotOf(l, 4))
  PROVE  EntryEnds(d, l, image, path, block, Len(EntriesIn(l, block, d.paths)) + 1, rest, m + 1, P, Q)
<1> DEFINE at == SlotOf(l, 4)
           here == Push(Entry(l, d.paths, path, block, Len(EntriesIn(l, block, d.paths)) + 1), rest)
<1>1. ASSUME NEW fs, Holds(fs, P, at) PROVE Ends(image, Walking(fs, here), m + 1, Q, at)
  <2>1. TurnIs(image, Walking(fs, here), Walking(fs, rest))
    BY TurnEnd, Zenon
  <2>2. Ends(image, Walking(fs, rest), m, Q, at)
    BY <1>1, Zenon DEF RestEnds
  <2> HIDE DEF here, at
  <2> QED
    BY <2>1, <2>2, EndsStep, Zenon
<1> QED
  BY <1>1, Zenon DEF EntryEnds, RestEnds

LEMMA EntryLater ==
  ASSUME NEW d, NEW l, NEW image, NEW path, NEW block, NEW i, NEW rest, NEW m \in Nat, NEW P, NEW Q,
         EntryEnds(d, l, image, path, block, i, rest, m, P, Q)
  PROVE  EntryEnds(d, l, image, path, block, i, rest, m + 1, P, Q)
<1> DEFINE here == Push(Entry(l, d.paths, path, block, i), rest)
           at == SlotOf(l, 4)
<1>1. ASSUME NEW fs, Holds(fs, P, at) PROVE Ends(image, Walking(fs, here), m + 1, Q, at)
  <2>1. Ends(image, Walking(fs, here), m, Q, at)
    BY <1>1, Zenon DEF EntryEnds, RestEnds
  <2>2. m + 1 \in Nat /\ m <= m + 1
    OBVIOUS
  <2> HIDE DEF here, at
  <2> QED
    BY <2>1, <2>2, EndsLater, Zenon
<1> QED
  BY <1>1, Zenon DEF EntryEnds, RestEnds

\* The walk through the directory, and what it adds.
InRoot == <<"file">>
InDir == <<"dir", "file">>

LEMMA DirEnds ==
  ASSUME NEW d, NEW l, NEW image, Made(d, l, image), NEW rest \in Seq(Calls), NEW m \in Nat,
         NEW P, NEW Q, RestEnds(image, rest, m, P \cup ({InDir} \cap d.paths), Q, SlotOf(l, 4))
  PROVE  EntryEnds(d, l, image, <<"dir">>, l.dir, 1, rest, m + 4, P, Q)
<1> DEFINE names == EntriesIn(l, l.dir, d.paths)
           path == <<"dir">>
           R == P \cup ({InDir} \cap d.paths)
           Is(i, n, p) == EntryEnds(d, l, image, path, l.dir, i, rest, n, p, Q)
<1>1. l.dir # l.late /\ l.dir # l.root
  BY MadeIs, SoundType
<1>2. names = IF InDir \in d.paths THEN << <<3, ".">>, <<2, "..">>, <<4, "file">> >>
              ELSE << <<3, ".">>, <<2, "..">> >>
  <2>1. names = IF l.dir = l.late THEN << <<4, "late">> >>
           ELSE IF l.dir = l.dir
           THEN IF <<"dir", "file">> \in d.paths THEN << <<3, ".">>, <<2, "..">>, <<4, "file">> >>
                ELSE << <<3, ".">>, <<2, "..">> >>
           ELSE IF <<"file">> \in d.paths
           THEN << <<2, ".">>, <<2, "..">>, <<4, "file">>, <<3, "dir">> >>
           ELSE << <<2, ".">>, <<2, "..">>, <<3, "dir">> >>
    BY EntriesAre
  <2> HIDE DEF names
  <2> QED
    BY <1>1, <2>1, Zenon DEF InDir
<1>3. Is(Len(names) + 1, m + 1, R)
  <2>1. l.dir \in {l.root, l.dir} /\ path \in {<<>>, <<"dir">>}
    OBVIOUS
  <2> HIDE DEF R
  <2> QED
    BY <2>1, EndEnds, Zenon DEF R
<1>4. Append(path, "file") = InDir
  <2> DEFINE S == {"dir", "file"}
             e == "file"
             t == <<"dir", "file">>
  <2>1. /\ path \in Seq(S) /\ e \in S /\ t \in Seq(S) /\ Len(t) = Len(path) + 1
        /\ (\A i \in 1 .. Len(path) : t[i] = path[i]) /\ t[Len(path) + 1] = e
    OBVIOUS
  <2> HIDE DEF S, e, t
  <2>2. Append(path, e) = t
    BY <2>1, AppendIs
  <2> QED
    BY <2>2, Zenon DEF InDir, e, t
<1>5. m + 1 \in Nat /\ (m + 1) + 1 \in Nat /\ ((m + 1) + 1) + 1 \in Nat
      /\ (((m + 1) + 1) + 1) + 1 = m + 4
  OBVIOUS
<1>6. l.dir \in {l.root, l.dir} /\ path \in {<<>>, <<"dir">>}
  OBVIOUS
<1>7. CASE InDir \in d.paths
  <2>1. names = << <<3, ".">>, <<2, "..">>, <<4, "file">> >>
    BY <1>2, <1>7, Zenon
  <2>2. /\ Len(names) = 3 /\ names[1][2] = "." /\ names[2][2] = ".." /\ names[3] = <<4, "file">>
    <3> HIDE DEF names
    <3> QED
      BY <2>1
  <2>3. /\ 3 \in 1 .. Len(names) /\ 2 \in 1 .. Len(names) /\ 1 \in 1 .. Len(names)
        /\ 3 + 1 = Len(names) + 1 /\ 2 + 1 = 3 /\ 1 + 1 = 2
        /\ names[1][2] \in {".", ".."} /\ names[2][2] \in {".", ".."}
    <3> HIDE DEF names
    <3> QED
      BY <2>2
  <2>4. R = P \cup {Append(path, "file")}
    BY <1>4, <1>7
  <2>5. Is(3 + 1, m + 1, P \cup {Append(path, "file")})
    <3> HIDE DEF Is, R, names
    <3> QED
      BY <1>3, <2>3, <2>4, Zenon
  <2>6. Is(3, (m + 1) + 1, P)
    BY <1>5, <1>6, <2>2, <2>3, <2>5, FileEnds, Zenon
  <2>7. Is(2, ((m + 1) + 1) + 1, P)
    BY <1>5, <1>6, <2>3, <2>6, DotEnds, Zenon
  <2>8. Is(1, (((m + 1) + 1) + 1) + 1, P)
    BY <1>5, <1>6, <2>3, <2>7, DotEnds, Zenon
  <2> QED
    BY <1>5, <2>8, Zenon
<1>8. CASE InDir \notin d.paths
  <2>1. names = << <<3, ".">>, <<2, "..">> >>
    BY <1>2, <1>8, Zenon
  <2>2. Len(names) = 2 /\ names[1][2] = "." /\ names[2][2] = ".."
    <3> HIDE DEF names
    <3> QED
      BY <2>1
  <2>3. /\ 2 \in 1 .. Len(names) /\ 1 \in 1 .. Len(names)
        /\ 2 + 1 = Len(names) + 1 /\ 1 + 1 = 2
        /\ names[1][2] \in {".", ".."} /\ names[2][2] \in {".", ".."}
    <3> HIDE DEF names
    <3> QED
      BY <2>2
  <2>4. R = P
    BY <1>8
  <2>5. Is(2 + 1, m + 1, P)
    <3> HIDE DEF Is, R, names
    <3> QED
      BY <1>3, <2>3, <2>4, Zenon
  <2>6. Is(2, (m + 1) + 1, P)
    BY <1>5, <1>6, <2>3, <2>5, DotEnds, Zenon
  <2>7. Is(1, ((m + 1) + 1) + 1, P)
    BY <1>5, <1>6, <2>3, <2>6, DotEnds, Zenon
  <2>8. Is(1, (((m + 1) + 1) + 1) + 1, P)
    BY <1>5, <2>7, EntryLater, Zenon
  <2> QED
    BY <1>5, <2>8, Zenon
<1> QED
  BY <1>7, <1>8, Zenon

\* The walk through the whole tree.
LEMMA RootEnds ==
  ASSUME NEW d, NEW l, NEW image, Made(d, l, image)
  PROVE  EntryEnds(d, l, image, <<>>, l.root, 1, <<>>, 9, {}, d.paths)
<1> DEFINE names == EntriesIn(l, l.root, d.paths)
           n == Len(names)
           path == <<>>
           at == SlotOf(l, 4)
           F == {} \cup ({InRoot} \cap d.paths)
           Is(i, m, p) == EntryEnds(d, l, image, path, l.root, i, <<>>, m, p, d.paths)
           next == Push(Entry(l, d.paths, <<>>, l.root, n + 1), <<>>)
<1>1. l.root # l.late /\ l.root # l.dir
  BY MadeIs, SoundType
<1>2. names = IF InRoot \in d.paths THEN << <<2, ".">>, <<2, "..">>, <<4, "file">>, <<3, "dir">> >>
              ELSE << <<2, ".">>, <<2, "..">>, <<3, "dir">> >>
  <2>1. names = IF l.root = l.late THEN << <<4, "late">> >>
           ELSE IF l.root = l.dir
           THEN IF <<"dir", "file">> \in d.paths THEN << <<3, ".">>, <<2, "..">>, <<4, "file">> >>
                ELSE << <<3, ".">>, <<2, "..">> >>
           ELSE IF <<"file">> \in d.paths
           THEN << <<2, ".">>, <<2, "..">>, <<4, "file">>, <<3, "dir">> >>
           ELSE << <<2, ".">>, <<2, "..">>, <<3, "dir">> >>
    BY EntriesAre
  <2> HIDE DEF names
  <2> QED
    BY <1>1, <2>1, Zenon DEF InRoot
<1>3. Append(path, "file") = InRoot
  BY DEF InRoot
<1>4. l.root \in {l.root, l.dir} /\ path \in {<<>>, <<"dir">>} /\ <<>> \in Seq(Calls)
  OBVIOUS
<1>5. d.paths \subseteq {InRoot, InDir}
  BY DEF Made, IsDisk, Disk, InRoot, InDir
<1>6. F \cup ({InDir} \cap d.paths) = d.paths
  BY <1>5
<1>7. RestEnds(image, <<>>, 0, d.paths, d.paths, at)
  BY EndsHere, Zenon DEF RestEnds
<1>8. Is(n + 1, 0 + 1, d.paths)
  <2> HIDE DEF at
  <2> QED
    BY <1>4, <1>7, EndEnds, 0 \in Nat, Zenon DEF at
<1>9. RestEnds(image, next, 1, F \cup ({InDir} \cap d.paths), d.paths, at)
  <2>1. RestEnds(image, next, 0 + 1, d.paths, d.paths, at)
    BY <1>8, Zenon DEF EntryEnds
  <2>2. 0 + 1 = 1
    OBVIOUS
  <2> HIDE DEF next, F, at
  <2> QED
    BY <1>6, <2>1, <2>2, Zenon
<1>10. next \in Seq(Calls)
  <2>1. n + 1 \in Nat \ {0}
    <3>1. n \in 1 .. 4
      BY EntriesType
    <3> HIDE DEF n
    <3> QED
      BY <3>1
  <2>2. Entry(l, d.paths, <<>>, l.root, n + 1) \in Calls
    <3> HIDE DEF n
    <3> QED
      BY <1>4, <2>1, CallType, Zenon
  <2> DEFINE t == Entry(l, d.paths, <<>>, l.root, n + 1)
  <2> HIDE DEF t
  <2>3. Pushed(Calls, t, <<>>)
    BY <1>4, <2>2, PushIs, Zenon DEF t
  <2> QED
    BY <2>3, Zenon DEF Pushed, t
<1>11. EntryEnds(d, l, image, <<"dir">>, l.dir, 1, next, 1 + 4, F, d.paths)
  <2> HIDE DEF next, F, at
  <2> QED
    BY <1>9, <1>10, DirEnds, 1 \in Nat, Zenon DEF at
<1> HIDE DEF F
<1>12. names[n] = <<3, "dir">> => Is(n, (1 + 4) + 1, F)
  <2>1. n \in 1 .. Len(names)
    <3>1. n \in 1 .. 4
      BY EntriesType
    <3> HIDE DEF n
    <3> QED
      BY <3>1 DEF n
  <2>2. 1 + 4 \in Nat
    OBVIOUS
  <2> QED
    BY <1>4, <1>11, <2>1, <2>2, SubdirEnds, Zenon
<1>13. (1 + 4) + 1 = 6 /\ 6 + 1 = 7 /\ 7 + 1 = 8 /\ 8 + 1 = 9 /\ 6 \in Nat /\ 7 \in Nat /\ 8 \in Nat
  OBVIOUS
<1>14. CASE InRoot \in d.paths
  <2>1. names = << <<2, ".">>, <<2, "..">>, <<4, "file">>, <<3, "dir">> >>
    BY <1>2, <1>14, Zenon
  <2>2. /\ n = 4 /\ names[1][2] = "." /\ names[2][2] = ".." /\ names[3] = <<4, "file">>
        /\ names[4] = <<3, "dir">>
    <3>1. Len(names) = 4 /\ names[1][2] = "." /\ names[2][2] = ".." /\ names[3] = <<4, "file">>
          /\ names[4] = <<3, "dir">>
      <4> HIDE DEF names
      <4> QED
        BY <2>1
    <3> QED
      BY <3>1, Zenon
  <2>3. /\ 3 \in 1 .. Len(names) /\ 2 \in 1 .. Len(names) /\ 1 \in 1 .. Len(names)
        /\ 3 + 1 = 4 /\ 2 + 1 = 3 /\ 1 + 1 = 2
        /\ names[1][2] \in {".", ".."} /\ names[2][2] \in {".", ".."}
    <3> HIDE DEF names
    <3> QED
      BY <2>2 DEF n
  <2>4. F = {} \cup {Append(path, "file")}
    BY <1>3, <1>14 DEF F
  <2>5. Is(3 + 1, 6, {} \cup {Append(path, "file")})
    <3>1. Is(4, 6, F)
      <4> HIDE DEF Is, names, n
      <4> QED
        BY <1>12, <1>13, <2>2, Zenon
    <3> HIDE DEF Is, names, n
    <3> QED
      BY <2>3, <2>4, <3>1, Zenon
  <2>6. Is(3, 6 + 1, {})
    BY <1>4, <1>13, <2>2, <2>3, <2>5, FileEnds, Zenon
  <2>7. Is(3, 7, {})
    BY <1>13, <2>6, Zenon
  <2>8. Is(2, 7 + 1, {})
    BY <1>4, <1>13, <2>3, <2>7, DotEnds, Zenon
  <2>9. Is(2, 8, {})
    BY <1>13, <2>8, Zenon
  <2>10. Is(1, 8 + 1, {})
    BY <1>4, <1>13, <2>3, <2>9, DotEnds, Zenon
  <2> QED
    BY <1>13, <2>10, Zenon
<1>15. CASE InRoot \notin d.paths
  <2>1. names = << <<2, ".">>, <<2, "..">>, <<3, "dir">> >>
    BY <1>2, <1>15, Zenon
  <2>2. /\ n = 3 /\ names[1][2] = "." /\ names[2][2] = ".." /\ names[3] = <<3, "dir">>
    <3>1. Len(names) = 3 /\ names[1][2] = "." /\ names[2][2] = ".." /\ names[3] = <<3, "dir">>
      <4> HIDE DEF names
      <4> QED
        BY <2>1
    <3> QED
      BY <3>1, Zenon
  <2>3. /\ 2 \in 1 .. Len(names) /\ 1 \in 1 .. Len(names)
        /\ 2 + 1 = 3 /\ 1 + 1 = 2
        /\ names[1][2] \in {".", ".."} /\ names[2][2] \in {".", ".."}
    <3> HIDE DEF names
    <3> QED
      BY <2>2 DEF n
  <2>4. F = {}
    BY <1>15 DEF F
  <2>5. Is(2 + 1, 6, {})
    <3> HIDE DEF Is, names, n
    <3> QED
      BY <1>12, <1>13, <2>2, <2>3, <2>4, Zenon
  <2>6. Is(2, 6 + 1, {})
    BY <1>4, <1>13, <2>3, <2>5, DotEnds, Zenon
  <2>7. Is(2, 7, {})
    BY <1>13, <2>6, Zenon
  <2>8. Is(1, 7 + 1, {})
    BY <1>4, <1>13, <2>3, <2>7, DotEnds, Zenon
  <2>9. Is(1, 8, {})
    BY <1>13, <2>8, Zenon
  <2>10. Is(1, 8 + 1, {})
    BY <1>13, <2>9, EntryLater, Zenon
  <2> QED
    BY <1>13, <2>10, Zenon
<1> QED
  BY <1>14, <1>15, Zenon

\* The loop of Mount runs as a walk that ends does, and stays there.
LEMMA WalkRuns ==
  ASSUME NEW image, NEW x, NEW P, NEW at, NEW turns \in Nat, turns >= 9, Ends(image, x, 9, P, at)
  PROVE  LET s[n \in 0 .. turns] == IF n = 0 THEN x ELSE WalkTurn(image, s[n - 1])
         IN Holds(s[turns].fs, P, at)
<1> DEFINE B(g) == [n \in 0 .. turns |-> IF n = 0 THEN x ELSE WalkTurn(image, g[n - 1])]
           g == CHOOSE h : h = B(h)
<1>1. PICK k \in 0 .. 9 : \E c, fs :
        /\ c[0] = x /\ (\A n \in 0 .. k - 1 : c[n + 1] = WalkTurn(image, c[n]))
        /\ c[k] = Walking(fs, <<>>) /\ Holds(fs, P, at)
  BY Zenon DEF Ends
<1>2. PICK c, fs :
        /\ c[0] = x /\ (\A n \in 0 .. k - 1 : c[n + 1] = WalkTurn(image, c[n]))
        /\ c[k] = Walking(fs, <<>>) /\ Holds(fs, P, at)
  BY <1>1, Zenon
<1>3. WalkTurn(image, c[k]) = c[k]
  <2>1. c[k].stack = <<>>
    BY <1>2 DEF Walking
  <2> QED
    BY <2>1, Zenon DEF WalkTurn
<1> DEFINE f == [n \in 0 .. turns |-> IF n <= k THEN c[n] ELSE c[k]]
<1>4. ASSUME NEW n \in 0 .. turns PROVE f[n] = IF n = 0 THEN x ELSE WalkTurn(image, f[n - 1])
  <2>1. CASE n = 0
    BY <1>2, <2>1
  <2>2. CASE n # 0 /\ n <= k
    <3>1. n - 1 \in 0 .. k - 1 /\ (n - 1) + 1 = n /\ f[n] = c[n] /\ f[n - 1] = c[n - 1]
      BY <2>2
    <3>2. c[(n - 1) + 1] = WalkTurn(image, c[n - 1])
      BY <1>2, <3>1, Zenon
    <3> HIDE DEF f
    <3> QED
      BY <2>2, <3>1, <3>2
  <2>3. CASE n # 0 /\ ~(n <= k)
    <3>1. f[n] = c[k] /\ f[n - 1] = c[k]
      BY <2>3
    <3> HIDE DEF f
    <3> QED
      BY <1>3, <2>3, <3>1
  <2> QED
    BY <2>1, <2>2, <2>3, Zenon
<1>5. f = B(f)
  <2>1. f = [n \in 0 .. turns |-> f[n]]
    OBVIOUS
  <2>2. [n \in 0 .. turns |-> f[n]] = B(f)
    <3> HIDE DEF f
    <3> QED
      BY <1>4
  <2> HIDE DEF f, B
  <2> QED
    BY <2>1, <2>2, Zenon
<1>6. g = B(g)
  <2> HIDE DEF B, f
  <2> QED
    BY <1>5
<1>7. f[turns] = c[k]
  BY k <= turns
<1> HIDE DEF g, f
<1>8. \A n \in 0 .. turns : g[n] = IF n = 0 THEN x ELSE WalkTurn(image, g[n - 1])
  BY <1>6
<1> DEFINE T == {n \in 0 .. turns : g[n] = f[n]}
<1>9. 0 \in T
  BY <1>4, <1>8
<1>10. ASSUME NEW n \in 0 .. turns - 1, n \in T PROVE n + 1 \in T
  <2>1. n + 1 \in 0 .. turns /\ n + 1 # 0 /\ (n + 1) - 1 = n
    OBVIOUS
  <2>2. g[n + 1] = WalkTurn(image, g[n]) /\ f[n + 1] = WalkTurn(image, f[n])
    BY <1>4, <1>8, <2>1
  <2>3. g[n] = f[n]
    BY <1>10
  <2> QED
    BY <2>1, <2>2, <2>3
<1> HIDE DEF T
<1>11. 0 .. turns \subseteq T
  BY <1>9, <1>10, InductUpTo, Zenon
<1>12. turns \in T
  BY <1>11
<1>13. g[turns] = c[k]
  BY <1>7, <1>12 DEF T
<1>14. g[turns].fs = fs
  BY <1>2, <1>13 DEF Walking
<1>15. Holds(g[turns].fs, P, at)
  BY <1>2, <1>14, Zenon
<1> QED
  BY <1>15, Zenon DEF g

\* An image has room for the walk.
LEMMA TurnsEnough ==
  ASSUME NEW d, NEW l, NEW image, Made(d, l, image)
  PROVE  image.filesize \div 4 \in Nat /\ image.filesize \div 4 >= 9
<1> DEFINE m == l.data + 2 * l.blocks
           f == m * l.bs
<1>1. image.filesize = f
  BY MadeIs, Zenon
<1>2. l.bs \in Nat /\ l.bs >= 16 /\ m \in Nat /\ m >= 11
  BY MadeIs DEF Sound
<1> HIDE DEF m
<1>3. PICK e \in Nat : m = 11 + e
  <2>1. m - 11 \in Nat /\ m = 11 + (m - 11)
    BY <1>2
  <2> QED
    BY <2>1
<1>4. f = 11 * l.bs + e * l.bs /\ e * l.bs \in Nat
  BY <1>2, <1>3
<1>5. f \in Nat /\ f >= 176
  BY <1>2, <1>4
<1> HIDE DEF f
<1> QED
  BY <1>1, <1>5

\* Ext2Reader finds the file at its paths.
Mounted(d, l, image) == Holds(Mount(image), d.paths, SlotOf(l, 4))

LEMMA MountIs ==
  ASSUME NEW d, NEW l, NEW image, Made(d, l, image)
  PROVE  Mounted(d, l, image)
<1> DEFINE at == SlotOf(l, 4)
           root == image.inodes[Inode(image, 2)]
           turns == image.filesize \div 4
           call == WalkDir(image, <<>>, root.block[0])
           x == [fs |-> <<>>, stack |-> <<call>>]
           s[n \in 0 .. turns] == IF n = 0 THEN x ELSE WalkTurn(image, s[n - 1])
<1>1. root = RootInode(l)
  BY MadeIs
<1>2. root.mode = "S_IFDIR" /\ root.perm = "0755" /\ root.block[0] = l.root
  <2>1. BlockArray(l, l.root, l.late)[0] = l.root
    <3>1. 0 \in 0 .. DindBlock
      BY Ext2Assumption DEF DindBlock
    <3> QED
      BY <3>1 DEF BlockArray
  <2>2. /\ RootInode(l).mode = "S_IFDIR" /\ RootInode(l).perm = "0755"
        /\ RootInode(l).block = BlockArray(l, l.root, l.late)
    BY DEF RootInode
  <2> HIDE DEF root
  <2> QED
    BY <1>1, <2>1, <2>2, Zenon
<1>3. Mount(image) = s[turns].fs
  <2>1. image.magic = "0xef53" /\ image.feature_incompat = {"FILETYPE"}
    BY MadeIs
  <2> QED
    BY <1>2, <2>1, Zenon DEF Mount
<1>4. call = Entry(l, d.paths, <<>>, l.root, 1)
  <2>1. Begins(d, l, image, <<>>, l.root)
    BY WalkDirIs
  <2> HIDE DEF root
  <2> QED
    BY <1>2, <2>1, Zenon DEF Begins
<1>5. x = Walking(<<>>, Push(Entry(l, d.paths, <<>>, l.root, 1), <<>>))
  <2> HIDE DEF call
  <2>1. <<call>> \in Seq({call})
    OBVIOUS
  <2>2. <<call>> \o <<>> = <<call>>
    BY <2>1, ConcatEmptySeq
  <2> QED
    BY <1>4, <2>2, Zenon DEF Walking, Push
<1>6. Ends(image, x, 9, d.paths, at)
  <2>1. EntryEnds(d, l, image, <<>>, l.root, 1, <<>>, 9, {}, d.paths)
    BY RootEnds, Zenon
  <2>2. Holds(<<>>, {}, at)
    BY DEF Holds
  <2> HIDE DEF x
  <2> QED
    BY <1>5, <2>1, <2>2, Zenon DEF EntryEnds, RestEnds
<1>7. turns \in Nat /\ turns >= 9
  BY TurnsEnough
<1>8. Holds(s[turns].fs, d.paths, at)
  <2> HIDE DEF x, turns, at
  <2> QED
    BY <1>6, <1>7, WalkRuns, Zenon
<1> QED
  BY <1>3, <1>8, Zenon DEF Mounted

\* What mke2fs writes is served.
LEMMA DiskIsServed ==
  ASSUME NEW d, IsDisk(d)
  PROVE  DiskServed(d)
<1> DEFINE image == DiskImage(d)
           l == Layout(d.log, d.size)
           fs == Mount(image)
           at == SlotOf(l, 4)
           inline == [k \in 1 .. d.size |-> at + k - 1]
<1>1. Made(d, l, image)
  BY Zenon DEF Made
<1> HIDE DEF image, l
<1>2. DOMAIN fs = d.paths /\ \A path \in d.paths : fs[path] = at
  <2>1. Mounted(d, l, image)
    BY <1>1, MountIs, Zenon
  <2> QED
    BY <2>1, Zenon DEF Mounted, Holds
<1> HIDE DEF fs, at
<1>3. image.inodes[at].mode = d.mode /\ image.inodes[at].size_lo = d.size
  BY <1>1, FileIs, Zenon DEF at
<1>4. l.blocks \in Nat /\ l.bs \in Nat
  BY <1>1, BlocksHold
<1>5. ASSUME NEW path \in d.paths
      PROVE  /\ ext2_getattr(image, fs, path) = <<d.mode, d.size>>
             /\ d.mode = "S_IFLNK" =>
                  ext2_readlink(image, fs, path) = IF d.size <= InlineSize THEN inline ELSE Bytes(l, 0, d.size)
             /\ d.mode = "S_IFREG" =>
                  \A b \in 0 .. l.blocks : \A n \in {1, l.bs, 2 * l.bs + 1} :
                    ext2_read(image, fs, path, n, b * l.bs) =
                      IF Dies(l) THEN Died
                      ELSE Bytes(l, b * l.bs, Max({0, Min({n, d.size - b * l.bs})}))
  <2>1. path \in DOMAIN fs /\ fs[path] = at
    BY <1>2, Zenon
  <2>2. ext2_getattr(image, fs, path) = <<d.mode, d.size>>
    BY <1>3, <2>1, Zenon DEF ext2_getattr
  <2>3. ASSUME d.mode = "S_IFLNK"
        PROVE  ext2_readlink(image, fs, path) = IF d.size <= InlineSize THEN inline ELSE Bytes(l, 0, d.size)
    <3>1. LinkServed(d, l, image)
      BY <1>1, <2>3, LinkIs, Zenon
    <3> QED
      BY <2>1, <3>1, Zenon DEF LinkServed, ext2_readlink, at
  <2>4. ASSUME d.mode = "S_IFREG", NEW b \in 0 .. l.blocks, NEW n \in {1, l.bs, 2 * l.bs + 1}
        PROVE  ext2_read(image, fs, path, n, b * l.bs) =
                 IF Dies(l) THEN Died
                 ELSE Bytes(l, b * l.bs, Max({0, Min({n, d.size - b * l.bs})}))
    <3>1. b \in Nat /\ n \in Nat
      BY <1>4
    <3>2. ReadServed(d, l, image, b, n)
      BY <1>1, <2>4, <3>1, ReadIs, Zenon
    <3> QED
      BY <2>1, <3>2, Zenon DEF ReadServed, ext2_read, at
  <2> QED
    BY <2>2, <2>3, <2>4, Zenon
<1> QED
  BY <1>2, <1>5, Zenon DEF DiskServed, Dies, Bytes, image, l, fs, at

-----------------------------------------------------------------------------
(* The readers, whatever they are given.                                    *)

\* What an input is that was taken.
Written ==
  \/ input = <<"none">>
  \/ \E es \in Listings : input = <<"listing", es>>
  \/ \E members \in Archives : input = <<"cpio", members>>
  \/ \E d \in Disks : input = <<"ext2", d>>

LEMMA InputsAreWritten == WrittenSpec => []Written
<1>1. ReadInit => Written
  BY DEF ReadInit, Written
<1>2. Written /\ [WrittenNext]_input => Written'
  <2>1. ASSUME Written, WrittenNext PROVE Written'
    <3>1. CASE TakeListing
      BY <3>1 DEF TakeListing, Take, Written
    <3>2. CASE TakeArchive
      BY <3>2 DEF TakeArchive, Take, Written
    <3>3. CASE TakeDisk
      BY <3>3 DEF TakeDisk, Take, Written
    <3> QED
      BY <2>1, <3>1, <3>2, <3>3 DEF WrittenNext
  <2>2. ASSUME Written, UNCHANGED input PROVE Written'
    BY <2>2 DEF Written
  <2> QED
    BY <2>1, <2>2
<1> QED
  BY <1>1, <1>2, PTL DEF WrittenSpec

\* Whatever the tree, with any words and any paths that git writes without
\* quotes, LoadDirectory mounts its entries in their order with path, mode,
\* hash and size; only those with a space in the path are lost.
THEOREM ListingIsServed == WrittenSpec => []ListingServed
<1>1. Written => ListingServed
  <2> SUFFICES ASSUME Written, input[1] = "listing" PROVE EntriesServed(input[2])
    BY DEF ListingServed
  <2>1. PICK es \in Listings : input = <<"listing", es>>
    BY DEF Written
  <2>2. es \in Seq(GitEntry)
    BY WrittenAssumption
  <2>3. EntriesServed(es)
    BY <2>2, EntriesAreServed
  <2> QED
    BY <2>1, <2>3
<1> QED
  BY <1>1, InputsAreWritten, PTL

\* Whatever cpio archived, members of any number with names and contents of
\* any length in any order, cpiofs serves each regular file and symbolic link
\* with its mode, size and contents.
THEOREM ArchiveIsServed == WrittenSpec => []CpioServed
<1>1. Written => CpioServed
  <2> SUFFICES ASSUME Written, input[1] = "cpio" PROVE MembersServed(input[2])
    BY DEF CpioServed
  <2>1. PICK members \in Archives : input = <<"cpio", members>>
    BY DEF Written
  <2>2. IsArchive(members)
    BY WrittenAssumption
  <2>3. MembersServed(members)
    BY <2>2, MembersAreServed
  <2> QED
    BY <2>1, <2>3
<1> QED
  BY <1>1, InputsAreWritten, PTL

\* Whatever image mke2fs made, with blocks of any size and a file of any size,
\* the ext2 reader finds the file under each of its names, serves the mode, the
\* size and each byte to reads that start at a block, and ends only with a file
\* that has all the blocks that two indirections reach.
THEOREM ImageIsServed == WrittenSpec => []Ext2Served
<1>1. Written => Ext2Served
  <2> SUFFICES ASSUME Written, input[1] = "ext2" PROVE DiskServed(input[2])
    BY DEF Ext2Served
  <2>1. PICK d \in Disks : input = <<"ext2", d>>
    BY DEF Written
  <2>2. IsDisk(d)
    BY WrittenAssumption
  <2>3. DiskServed(d)
    BY <2>2, DiskIsServed
  <2> QED
    BY <2>1, <2>3
<1> QED
  BY <1>1, InputsAreWritten, PTL
=============================================================================
