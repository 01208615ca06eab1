--------------------------- MODULE GitCatFileProofs ---------------------------
(***************************************************************************)
(* For any objects and sizes, any number of threads, any size of the first *)
(* read from two bytes on, and a child that writes in any pieces and may   *)
(* die: while nothing comes on stderr, no answer is mixed up or cut, and   *)
(* the pipes are in step.                                                  *)
(***************************************************************************)
EXTENDS GitCatFile, SequenceTheorems, TLAPS

Bytes == (Refs \cup {NoRef}) \X Nat

\* s is what follows the first k bytes of the answer for r.
Follows(s, r, k) ==
  /\ s \in Seq(Bytes)
  /\ \A i \in 1 .. Len(s) : s[i] = <<r, k + i>>

AnswerSize(r) == IF r \in MissingRefs THEN HeaderSize ELSE HeaderSize + Size[r] + 1

LEMMA SizesAre ==
  ASSUME NEW r \in Refs
  PROVE  /\ AnswerSize(r) \in Nat /\ AnswerSize(r) >= HeaderSize /\ HeaderSize = 2
         /\ Size[r] \in Nat /\ MaxHeader \in Nat /\ MaxHeader >= 2
         /\ r \notin MissingRefs => AnswerSize(r) = Size[r] + 3
BY CatAssumption DEF AnswerSize, HeaderSize

\* The two parts of such bytes, at any place.
LEMMA Cut ==
  ASSUME NEW r \in Refs, NEW k \in Nat, NEW s, Follows(s, r, k), NEW n \in 0 .. Len(s)
  PROVE  /\ Follows(SubSeq(s, 1, n), r, k) /\ Len(SubSeq(s, 1, n)) = n
         /\ Follows(SubSeq(s, n + 1, Len(s)), r, k + n)
         /\ Len(SubSeq(s, n + 1, Len(s))) = Len(s) - n
<1>1. s \in Seq(Bytes) /\ Len(s) \in Nat /\ n \in Nat /\ n <= Len(s)
  BY DEF Follows
<1>2. \A i \in 1 .. Len(s) : s[i] \in Bytes
  BY <1>1
<1>3. /\ SubSeq(s, 1, n) \in Seq(Bytes) /\ Len(SubSeq(s, 1, n)) = n
      /\ \A i \in 1 .. n : SubSeq(s, 1, n)[i] = s[i]
  BY <1>1, <1>2, SubSeqProperties
<1>4. /\ SubSeq(s, n + 1, Len(s)) \in Seq(Bytes)
      /\ Len(SubSeq(s, n + 1, Len(s))) = Len(s) - n
      /\ \A i \in 1 .. Len(s) - n : SubSeq(s, n + 1, Len(s))[i] = s[n + i]
  BY <1>1, <1>2, SubSeqProperties
<1>5. \A i \in 1 .. n : SubSeq(s, 1, n)[i] = <<r, k + i>>
  BY <1>1, <1>3 DEF Follows
<1>6. \A i \in 1 .. Len(s) - n : SubSeq(s, n + 1, Len(s))[i] = <<r, k + n + i>>
  BY <1>1, <1>4 DEF Follows
<1> QED
  BY <1>3, <1>4, <1>5, <1>6 DEF Follows

LEMMA Joined ==
  ASSUME NEW r \in Refs, NEW k \in Nat, NEW s, NEW u, Follows(s, r, k),
         Follows(u, r, k + Len(s))
  PROVE  Follows(s \o u, r, k) /\ Len(s \o u) = Len(s) + Len(u)
<1>1. s \in Seq(Bytes) /\ u \in Seq(Bytes) /\ Len(s) \in Nat /\ Len(u) \in Nat
  BY DEF Follows
<1>2. /\ s \o u \in Seq(Bytes) /\ Len(s \o u) = Len(s) + Len(u)
      /\ \A i \in 1 .. Len(s) + Len(u) :
           (s \o u)[i] = IF i <= Len(s) THEN s[i] ELSE u[i - Len(s)]
  BY <1>1, ConcatProperties
<1>3. ASSUME NEW i \in 1 .. Len(s) + Len(u) PROVE (s \o u)[i] = <<r, k + i>>
  <2>1. CASE i <= Len(s)
    BY <1>1, <1>2, <2>1 DEF Follows
  <2>2. CASE i > Len(s)
    <3>1. i - Len(s) \in 1 .. Len(u) /\ k + Len(s) + (i - Len(s)) = k + i
      BY <1>1, <2>2
    <3>2. u[i - Len(s)] = <<r, k + Len(s) + (i - Len(s))>>
      BY <3>1 DEF Follows
    <3> QED
      BY <1>1, <1>2, <2>2, <3>1, <3>2
  <2> QED
    BY <1>1, <2>1, <2>2
<1> QED
  BY <1>2, <1>3 DEF Follows

\* The answer in its three places: s with the caller, u in the pipe, and v
\* still to be written.
InPlace(s, u, v, r) ==
  Follows(s, r, 0) /\ Follows(u, r, Len(s)) /\ Follows(v, r, Len(s) + Len(u))

LEMMA InPlaceLengths ==
  ASSUME NEW r, NEW s, NEW u, NEW v, InPlace(s, u, v, r)
  PROVE  Len(s) \in Nat /\ Len(u) \in Nat /\ Len(v) \in Nat
BY DEF InPlace, Follows

\* The child writes n more bytes.
LEMMA Written ==
  ASSUME NEW r \in Refs, NEW s, NEW u, NEW v, InPlace(s, u, v, r), NEW n \in 0 .. Len(v)
  PROVE  /\ InPlace(s, u \o SubSeq(v, 1, n), SubSeq(v, n + 1, Len(v)), r)
         /\ Len(u \o SubSeq(v, 1, n)) = Len(u) + n
         /\ Len(SubSeq(v, n + 1, Len(v))) = Len(v) - n
<1> DEFINE x == u \o SubSeq(v, 1, n)
           y == SubSeq(v, n + 1, Len(v))
<1>1. Len(s) \in Nat /\ Len(u) \in Nat /\ Len(v) \in Nat /\ n \in Nat
  BY InPlaceLengths
<1>2. PICK k \in Nat : k = Len(s) + Len(u)
  BY <1>1
<1>3. Follows(s, r, 0) /\ Follows(u, r, Len(s)) /\ Follows(v, r, k)
  BY <1>2 DEF InPlace
<1>4. /\ Follows(SubSeq(v, 1, n), r, k) /\ Len(SubSeq(v, 1, n)) = n
      /\ Follows(y, r, k + n) /\ Len(y) = Len(v) - n
  BY <1>3, Cut
<1>5. Follows(x, r, Len(s)) /\ Len(x) = Len(u) + n
  <2>1. PICK p : p = SubSeq(v, 1, n)
    OBVIOUS
  <2>2. Follows(p, r, Len(s) + Len(u)) /\ Len(p) = n /\ x = u \o p
    BY <1>2, <1>4, <2>1
  <2>3. PICK a \in Nat : a = Len(s)
    BY <1>1
  <2>4. Follows(u, r, a) /\ Follows(p, r, a + Len(u))
    BY <1>3, <2>2, <2>3
  <2>5. Follows(u \o p, r, a) /\ Len(u \o p) = Len(u) + Len(p)
    BY <2>4, Joined
  <2> QED
    BY <2>2, <2>3, <2>5
<1> HIDE DEF x, y
<1>6. k + n = Len(s) + Len(x)
  BY <1>1, <1>2, <1>5
<1>7. InPlace(s, x, y, r) /\ Len(x) = Len(u) + n /\ Len(y) = Len(v) - n
  BY <1>3, <1>4, <1>5, <1>6 DEF InPlace
<1> QED
  BY <1>7 DEF x, y

\* The caller reads n more bytes.
LEMMA Taken ==
  ASSUME NEW r \in Refs, NEW s, NEW u, NEW v, InPlace(s, u, v, r), NEW n \in 0 .. Len(u)
  PROVE  /\ InPlace(s \o SubSeq(u, 1, n), SubSeq(u, n + 1, Len(u)), v, r)
         /\ Len(s \o SubSeq(u, 1, n)) = Len(s) + n
         /\ Len(SubSeq(u, n + 1, Len(u))) = Len(u) - n
<1> DEFINE x == s \o SubSeq(u, 1, n)
           y == SubSeq(u, n + 1, Len(u))
<1>1. Len(s) \in Nat /\ Len(u) \in Nat /\ Len(v) \in Nat /\ n \in Nat
  BY InPlaceLengths
<1>2. PICK a \in Nat : a = Len(s)
  BY <1>1
<1>3. Follows(s, r, 0) /\ Follows(u, r, a) /\ Follows(v, r, a + Len(u))
  BY <1>2 DEF InPlace
<1>4. /\ Follows(SubSeq(u, 1, n), r, a) /\ Len(SubSeq(u, 1, n)) = n
      /\ Follows(y, r, a + n) /\ Len(y) = Len(u) - n
  BY <1>3, Cut
<1>5. Follows(x, r, 0) /\ Len(x) = Len(s) + n
  <2>1. PICK p : p = SubSeq(u, 1, n)
    OBVIOUS
  <2>2. Follows(p, r, 0 + Len(s)) /\ Len(p) = n /\ x = s \o p
    BY <1>1, <1>2, <1>4, <2>1
  <2>3. PICK z \in Nat : z = 0
    OBVIOUS
  <2>4. Follows(s, r, z) /\ Follows(p, r, z + Len(s))
    BY <1>3, <2>2, <2>3
  <2>5. Follows(s \o p, r, z) /\ Len(s \o p) = Len(s) + Len(p)
    BY <2>4, Joined
  <2> QED
    BY <2>2, <2>3, <2>5
<1> HIDE DEF x, y
<1>6. a + n = Len(x)
  BY <1>2, <1>5
<1>7. a + Len(u) = Len(x) + Len(y)
  <2>1. Len(y) = Len(u) - n
    BY <1>4
  <2>2. Len(x) \in Nat
    BY <1>1, <1>5
  <2> QED
    BY <1>1, <1>6, <2>1, <2>2
<1>8. InPlace(x, y, v, r) /\ Len(x) = Len(s) + n /\ Len(y) = Len(u) - n
  BY <1>3, <1>4, <1>5, <1>6, <1>7 DEF InPlace
<1> QED
  BY <1>8 DEF x, y

LEMMA NothingFollows ==
  ASSUME NEW r, NEW k \in Nat
  PROVE  Follows(<<>>, r, k) /\ Len(<<>>) = 0
BY EmptySeq DEF Follows

\* git's answer has the bytes the client counts on.
LEMMA AnswerFollows ==
  ASSUME NEW r \in Refs
  PROVE  Follows(AnswerTo(r), r, 0) /\ Len(AnswerTo(r)) = AnswerSize(r)
<1>1. AnswerTo(r) = [i \in 1 .. AnswerSize(r) |-> <<r, i>>]
  BY DEF AnswerTo, AnswerSize
<1>2. AnswerTo(r) \in [1 .. AnswerSize(r) -> Bytes] /\ AnswerSize(r) \in Nat
  BY <1>1, SizesAre DEF Bytes
<1>3. AnswerTo(r) \in Seq(Bytes)
  BY <1>2, SeqDef
<1>4. Len(AnswerTo(r)) = AnswerSize(r)
  BY <1>2, <1>3, LenProperties
<1>5. ASSUME NEW i \in 1 .. AnswerSize(r) PROVE AnswerTo(r)[i] = <<r, 0 + i>>
  <2>1. 0 + i = i
    OBVIOUS
  <2> QED
    BY <1>1, <2>1
<1> QED
  BY <1>3, <1>4, <1>5 DEF Follows

-----------------------------------------------------------------------------
(* The invariant, while the client is open.                                 *)

CallerState ==
  [pc : {"idle", "lock", "header", "rest", "missing", "returned"},
   ref : Refs \cup {NoRef}, first_line_size_ : Nat, size_ : Nat,
   response : Seq(Bytes), result : Seq(Bytes)]

\* m_ is held from the request to the end of its answer.
CallersOK ==
  /\ caller \in [Callers -> CallerState]
  /\ m_ \in Callers \cup {Nobody}
  /\ ssh \in BOOLEAN
  /\ \A t \in Callers :
       /\ caller[t].pc \in {"header", "rest"} <=> m_ = t
       /\ caller[t].pc # "idle" => caller[t].ref \in Refs
       /\ caller[t].pc \in {"lock", "header"} => caller[t].response = <<>>
       /\ caller[t].pc = "rest" => /\ caller[t].first_line_size_ = HeaderSize
                                   /\ caller[t].size_ = Size[caller[t].ref]
       /\ caller[t].pc = "returned" => /\ caller[t].ref \notin MissingRefs
                                       /\ caller[t].result = Content(caller[t].ref)
       /\ caller[t].pc = "missing" => caller[t].ref \in MissingRefs

\* The answer for r under way: what the caller has, then what is in the
\* pipe, then what the child has still to write; none of it is lost but by
\* the end of the child.
Streams(r, response, pc) ==
  /\ InPlace(response, pipe, owed, r)
  /\ Len(response) + Len(pipe) + Len(owed) <= AnswerSize(r)
  /\ asked \in {<<>>, <<r>>}
  /\ asked = <<r>> => response = <<>> /\ pipe = <<>> /\ owed = <<>>
  /\ asked = <<>> /\ ~died => Len(response) + Len(pipe) + Len(owed) = AnswerSize(r)
  /\ pc = "rest" => Len(response) >= 2 /\ r \notin MissingRefs
  /\ pc = "header" /\ ~ssh /\ ~died /\ pipe # <<>> => Len(pipe) >= 2

Quiet == asked = <<>> /\ owed = <<>> /\ pipe = <<>>

PipesOK ==
  /\ child # "none" /\ died \in BOOLEAN /\ (child = "runs" <=> ~died)
  /\ died => asked = <<>> /\ owed = <<>>
  /\ m_ = Nobody => Quiet
  /\ \A t \in Callers : m_ = t => Streams(caller[t].ref, caller[t].response, caller[t].pc)

\* After the first line on stderr nothing is claimed.
Inv ==
  /\ catPhase \in {"new", "open", "closed", "aborted"} /\ strays \in Nat
  /\ catPhase = "new" => NothingAsked
  /\ catPhase = "open" /\ strays = 0 => CallersOK /\ PipesOK
  /\ AbortsOnlyFor

LEMMA AtRestTyped == AtRest \in CallerState /\ AtRest.pc = "idle"
BY EmptySeq DEF AtRest, CallerState

\* What the holder of m_ may count on.
LEMMA Held ==
  ASSUME CallersOK, PipesOK, NEW t \in Callers, caller[t].pc \in {"header", "rest"}
  PROVE  /\ m_ = t /\ caller[t].ref \in Refs
         /\ Streams(caller[t].ref, caller[t].response, caller[t].pc)
BY DEF CallersOK, PipesOK

\* A step of caller t, with m_ in its hands or not.
Moves(t, p) ==
  /\ caller' \in [Callers -> CallerState]
  /\ caller'[t].pc = p /\ caller'[t].ref = caller[t].ref
  /\ \A u \in Callers \ {t} : caller'[u] = caller[u]

LEMMA GotoMoves ==
  ASSUME CallersOK, NEW t \in Callers, NEW p \in {"header", "missing"},
         caller' = [caller EXCEPT ![t].pc = p]
  PROVE  Moves(t, p) /\ caller'[t].response = caller[t].response
<1>1. caller \in [Callers -> CallerState]
  BY DEF CallersOK
<1>2. [caller[t] EXCEPT !.pc = p] \in CallerState
  BY <1>1 DEF CallerState
<1> QED
  BY <1>1, <1>2 DEF Moves, CallerState

LEMMA AbortInv ==
  ASSUME Inv, strays' = 0, CatAbort, died \/ ssh
  PROVE  Inv'
BY DEF Inv, CatAbort, AbortsOnlyFor

\* From the first line on stderr on.
LEMMA StrayInv == Inv /\ CatNext /\ strays' # 0 => Inv'
<1> SUFFICES ASSUME Inv, CatNext, strays' # 0 PROVE Inv'
  OBVIOUS
<1>1. /\ catPhase \in {"new", "open", "closed", "aborted"} /\ strays \in Nat
      /\ catPhase = "new" => child = "none"
  BY DEF Inv, NothingAsked
<1>2. strays' \in Nat /\ catPhase' \in {"open", "closed", "aborted"}
  <2>1. CASE StartChild \/ ChildComplains
    <3>1. Stray => strays' = strays + 1
      BY DEF Stray
    <3>2. Stray => strays' \in Nat
      BY <1>1, <3>1
    <3> QED
      BY <1>1, <2>1, <3>2 DEF StartChild, ChildComplains
  <2>3. CASE ChildReads \/ ChildWrites \/ ChildDies
    BY <1>1, <2>3 DEF ChildReads, ChildWrites, ChildDies
  <2>4. CASE Destroy
    BY <1>1, <2>4 DEF Destroy
  <2>2. CASE \E t \in Callers : Requesting(t) \/ \E r \in Refs : CallRequest(t, r)
    BY <1>1, <2>2 DEF Requesting, Write, ReadHeader, ReadRest, Finish, RequestReturns,
                      CallRequest, CatAbort, AtCat
  <2> QED
    BY <2>1, <2>2, <2>3, <2>4 DEF CatNext
<1> QED
  BY <1>2 DEF Inv, AbortsOnlyFor

LEMMA InitInv == CatInit => Inv
BY DEF CatInit, Inv, NothingAsked, AbortsOnlyFor

LEMMA StartChildInv == Inv /\ strays' = 0 /\ StartChild => Inv'
<1> SUFFICES ASSUME Inv, strays' = 0, StartChild PROVE Inv'
  OBVIOUS
<1>1. NothingAsked /\ strays = 0
  BY DEF Inv, StartChild, NothingAsked
<1>2. CallersOK'
  <2>1. caller' = [t \in Callers |-> AtRest] /\ m_' = Nobody /\ ssh' \in BOOLEAN
    BY <1>1 DEF NothingAsked, StartChild
  <2> QED
    BY <2>1, AtRestTyped, CatAssumption DEF CallersOK
<1>3. PipesOK'
  <2>1. ~Stray
    BY <1>1 DEF Stray
  <2> QED
    BY <1>1, <2>1, CatAssumption DEF NothingAsked, StartChild, PipesOK, Quiet
<1> QED
  BY <1>2, <1>3 DEF Inv, StartChild, AbortsOnlyFor

-----------------------------------------------------------------------------
(* The child.                                                               *)

LEMMA ChildReadsInv == Inv /\ strays' = 0 /\ ChildReads => Inv'
<1> SUFFICES ASSUME Inv, strays' = 0, ChildReads PROVE Inv'
  OBVIOUS
<1>1. catPhase' = catPhase /\ catPhase # "new" /\ AbortsOnlyFor'
  BY DEF Inv, ChildReads, NothingAsked, AbortsOnlyFor
<1>2. ASSUME catPhase = "open" PROVE CallersOK' /\ PipesOK'
  <2>1. /\ CallersOK /\ PipesOK /\ child = "runs" /\ ~died /\ asked # <<>> /\ owed = <<>>
    BY <1>2 DEF Inv, ChildReads, PipesOK
  <2>2. PICK t \in Callers : m_ = t
    BY <2>1 DEF CallersOK, PipesOK, Quiet
  <2> DEFINE r == caller[t].ref
  <2>3. /\ r \in Refs /\ asked = <<r>> /\ pipe = <<>> /\ caller[t].response = <<>>
        /\ caller[t].pc = "header"
        /\ Streams(r, <<>>, "header")
    <3>1. caller[t].pc \in {"header", "rest"}
      BY <2>1, <2>2 DEF CallersOK
    <3>2. r \in Refs /\ Streams(r, caller[t].response, caller[t].pc)
      BY <2>1, <3>1, Held
    <3>3. caller[t].response = <<>> /\ pipe = <<>> /\ asked = <<r>>
      BY <2>1, <3>2 DEF Streams
    <3>4. caller[t].pc = "header"
      BY <3>1, <3>2, <3>3, EmptySeq DEF Streams
    <3> QED
      BY <3>2, <3>3, <3>4
  <2>4. owed' = AnswerTo(r) /\ asked' = <<>>
    BY <2>3 DEF ChildReads
  <2>5. UNCHANGED <<m_, caller, pipe, child, died, ssh>>
    BY DEF ChildReads
  <2>6. Streams(r, <<>>, "header")'
    BY <2>1, <2>3, <2>4, <2>5, AnswerFollows, NothingFollows, SizesAre DEF Streams, InPlace
  <2>7. CallersOK'
    BY <2>1, <2>5 DEF CallersOK
  <2>8. PipesOK'
    BY <2>1, <2>2, <2>3, <2>4, <2>5, <2>6, CatAssumption DEF PipesOK
  <2> QED
    BY <2>7, <2>8
<1> QED
  BY <1>1, <1>2 DEF Inv

LEMMA ChildWritesInv == Inv /\ strays' = 0 /\ ChildWrites => Inv'
<1> SUFFICES ASSUME Inv, strays' = 0, ChildWrites PROVE Inv'
  OBVIOUS
<1>1. catPhase' = catPhase /\ catPhase # "new" /\ AbortsOnlyFor'
  BY DEF Inv, ChildWrites, NothingAsked, AbortsOnlyFor
<1>2. ASSUME catPhase = "open" PROVE CallersOK' /\ PipesOK'
  <2>1. CallersOK /\ PipesOK /\ child = "runs" /\ ~died /\ owed # <<>>
    BY <1>2 DEF Inv, ChildWrites, PipesOK
  <2>2. PICK t \in Callers : m_ = t
    BY <2>1 DEF CallersOK, PipesOK, Quiet
  <2> DEFINE r == caller[t].ref
             response == caller[t].response
             pc == caller[t].pc
  <2>3. r \in Refs /\ Streams(r, response, pc) /\ pc \in {"header", "rest"}
    <3>1. caller[t].pc \in {"header", "rest"}
      BY <2>1, <2>2 DEF CallersOK
    <3> QED
      BY <2>1, <3>1, Held
  <2>4. PICK n \in 1 .. Len(owed) :
          /\ ssh \/ Head(owed)[2] # 1 \/ n >= HeaderSize
          /\ pipe' = pipe \o SubSeq(owed, 1, n)
          /\ owed' = SubSeq(owed, n + 1, Len(owed))
    BY DEF ChildWrites
  <2>5. UNCHANGED <<m_, caller, asked, child, died, ssh>>
    BY DEF ChildWrites
  <2>6. /\ Len(response) \in Nat /\ Len(pipe) \in Nat /\ Len(owed) \in Nat
        /\ n \in 0 .. Len(owed) /\ n \in Nat /\ asked = <<>>
    BY <2>1, <2>3, InPlaceLengths DEF Streams
  <2>7. InPlace(response, pipe, owed, r)
    BY <2>3 DEF Streams
  <2>8. /\ InPlace(response, pipe', owed', r)
        /\ Len(pipe') = Len(pipe) + n /\ Len(owed') = Len(owed) - n
    <3>1. r \in Refs /\ n \in 0 .. Len(owed)
      BY <2>3, <2>6
    <3> HIDE DEF response, r
    <3>2. /\ InPlace(response, pipe \o SubSeq(owed, 1, n), SubSeq(owed, n + 1, Len(owed)), r)
          /\ Len(pipe \o SubSeq(owed, 1, n)) = Len(pipe) + n
          /\ Len(SubSeq(owed, n + 1, Len(owed))) = Len(owed) - n
      BY <2>7, <3>1, Written
    <3> QED
      BY <2>4, <3>2
  <2>9. ASSUME pc = "header", ~ssh PROVE Len(pipe') >= 2
    <3>1. response = <<>> /\ Len(response) = 0
      BY <2>1, <2>9, EmptySeq DEF CallersOK
    <3>2. CASE pipe = <<>>
      <4>1. Follows(owed, r, 0) /\ Len(pipe) = 0
        BY <2>3, <3>1, <3>2, EmptySeq DEF Streams, InPlace
      <4>2. owed \in Seq(Bytes) /\ Head(owed) = owed[1] /\ owed[1] = <<r, 0 + 1>>
        BY <2>1, <4>1, EmptySeq DEF Follows
      <4>3. n >= 2
        BY <2>4, <2>9, <4>2 DEF HeaderSize
      <4> QED
        BY <2>6, <2>8, <4>3
    <3>3. CASE pipe # <<>>
      BY <2>1, <2>3, <2>6, <2>8, <2>9, <3>3 DEF Streams
    <3> QED
      BY <3>2, <3>3
  <2>10. Streams(r, response, pc)'
    <3>1. Len(response) + Len(pipe') + Len(owed') = Len(response) + Len(pipe) + Len(owed)
      <4>1. PICK a \in Nat : a = Len(response)
        BY <2>6
      <4>2. /\ Len(pipe) \in Nat /\ Len(owed) \in Nat /\ n \in Nat
            /\ Len(pipe') = Len(pipe) + n /\ Len(owed') = Len(owed) - n
        BY <2>6, <2>8
      <4>3. a + Len(pipe') + Len(owed') = a + Len(pipe) + Len(owed)
        <5> HIDE DEF response
        <5> QED
          BY <4>2
      <4> QED
        BY <4>1, <4>3
    <3>3. response' = response /\ pc' = pc /\ r' = r
      BY <2>5
    <3> QED
      BY <2>1, <2>3, <2>5, <2>6, <2>8, <2>9, <3>1, <3>3 DEF Streams
  <2>11. CallersOK'
    BY <2>1, <2>5 DEF CallersOK
  <2>12. PipesOK'
    BY <2>1, <2>2, <2>5, <2>10, CatAssumption DEF PipesOK
  <2> QED
    BY <2>11, <2>12
<1> QED
  BY <1>1, <1>2 DEF Inv

LEMMA ChildDiesInv == Inv /\ strays' = 0 /\ ChildDies => Inv'
<1> SUFFICES ASSUME Inv, strays' = 0, ChildDies PROVE Inv'
  OBVIOUS
<1>1. /\ catPhase = "open" /\ catPhase' = "open" /\ CallersOK /\ PipesOK
      /\ child = "runs" /\ ~died /\ child' \in Statuses /\ died'
      /\ asked' = <<>> /\ owed' = <<>> /\ died' = TRUE
      /\ UNCHANGED <<m_, caller, pipe, ssh>>
  BY DEF Inv, ChildDies, PipesOK
<1>2. ASSUME NEW t \in Callers, m_ = t
      PROVE  Streams(caller[t].ref, caller[t].response, caller[t].pc)'
  <2> DEFINE r == caller[t].ref
             response == caller[t].response
  <2>1. caller[t].pc \in {"header", "rest"}
    BY <1>1, <1>2 DEF CallersOK
  <2>2. r \in Refs /\ Streams(r, response, caller[t].pc)
    BY <1>1, <2>1, Held
  <2>3. /\ Len(response) \in Nat /\ Len(pipe) \in Nat /\ Len(owed) \in Nat
        /\ AnswerSize(r) \in Nat
    BY <2>2, SizesAre, InPlaceLengths DEF Streams
  <2>4. Follows(<<>>, r, Len(response) + Len(pipe)) /\ Len(<<>>) = 0
    BY <2>3, NothingFollows
  <2> QED
    BY <1>1, <2>2, <2>3, <2>4 DEF Streams, InPlace
<1>3. PipesOK'
  BY <1>1, <1>2 DEF PipesOK, Quiet, Statuses
<1>4. CallersOK'
  BY <1>1 DEF CallersOK
<1> QED
  BY <1>1, <1>3, <1>4 DEF Inv, AbortsOnlyFor

-----------------------------------------------------------------------------
(* A caller.                                                                *)

\* A step of a caller that does not hold m_ leaves the pipes as they are.
LEMMA PipesKept ==
  ASSUME PipesOK, UNCHANGED <<m_, asked, owed, pipe, child, died, ssh>>,
         \A u \in Callers : m_ = u => caller'[u] = caller[u]
  PROVE  PipesOK'
BY DEF PipesOK, Quiet, Streams

LEMMA CallRequestInv ==
  ASSUME Inv, strays' = 0, NEW t \in Callers, NEW r \in Refs, CallRequest(t, r)
  PROVE  Inv'
<1>1. /\ CallersOK /\ PipesOK /\ caller[t].pc = "idle" /\ catPhase = "open"
      /\ caller' = [caller EXCEPT ![t] = [AtRest EXCEPT !.pc = "lock", !.ref = r]]
      /\ UNCHANGED <<m_, asked, owed, pipe, child, died, ssh, catPhase>>
  BY DEF Inv, CallRequest, AtCat
<1>2. m_ # t
  BY <1>1 DEF CallersOK
<1>3. CallersOK'
  <2> DEFINE new == [AtRest EXCEPT !.pc = "lock", !.ref = r]
  <2>1. /\ new \in CallerState /\ new.pc = "lock" /\ new.ref = r /\ new.response = <<>>
    BY EmptySeq DEF AtRest, CallerState
  <2> HIDE DEF new
  <2>2. /\ caller' \in [Callers -> CallerState] /\ caller'[t] = new
        /\ \A u \in Callers \ {t} : caller'[u] = caller[u]
    BY <1>1, <2>1 DEF CallersOK, new
  <2> QED
    BY <1>1, <1>2, <2>1, <2>2 DEF CallersOK
<1>4. PipesOK'
  <2>1. \A u \in Callers : m_ = u => caller'[u] = caller[u]
    BY <1>1, <1>2 DEF CallersOK
  <2> QED
    BY <1>1, <2>1, PipesKept
<1> QED
  BY <1>1, <1>3, <1>4 DEF Inv, AbortsOnlyFor

LEMMA RequestReturnsInv ==
  ASSUME Inv, strays' = 0, NEW t \in Callers, RequestReturns(t)
  PROVE  Inv'
<1>1. /\ CallersOK /\ PipesOK /\ caller[t].pc \in {"returned", "missing"} /\ catPhase = "open"
      /\ caller' = [caller EXCEPT ![t] = AtRest]
      /\ UNCHANGED <<m_, asked, owed, pipe, child, died, ssh, catPhase>>
  BY DEF Inv, RequestReturns, AtCat
<1>2. m_ # t
  BY <1>1 DEF CallersOK
<1>3. CallersOK'
  <2>1. /\ caller' \in [Callers -> CallerState] /\ caller'[t] = AtRest
        /\ \A u \in Callers \ {t} : caller'[u] = caller[u]
    BY <1>1, AtRestTyped DEF CallersOK
  <2> QED
    BY <1>1, <1>2, <2>1, AtRestTyped DEF CallersOK
<1>4. PipesOK'
  <2>1. \A u \in Callers : m_ = u => caller'[u] = caller[u]
    BY <1>1, <1>2 DEF CallersOK
  <2> QED
    BY <1>1, <2>1, PipesKept
<1> QED
  BY <1>1, <1>3, <1>4 DEF Inv, AbortsOnlyFor

\* What m_ guards is at rest, so the request is alone in the pipes.
LEMMA WriteInv ==
  ASSUME Inv, strays' = 0, NEW t \in Callers, Write(t)
  PROVE  Inv'
<1>1. /\ CallersOK /\ PipesOK /\ caller[t].pc = "lock" /\ catPhase = "open"
      /\ m_ = Nobody /\ m_' = t
      /\ asked' = IF child = "runs" THEN Append(asked, caller[t].ref) ELSE asked
      /\ caller' = [caller EXCEPT ![t].pc = "header"]
      /\ UNCHANGED <<owed, pipe, child, died, ssh, catPhase>>
  BY DEF Inv, Write, AtCat
<1>2. Moves(t, "header") /\ caller'[t].response = <<>> /\ caller[t].ref \in Refs
  <2>1. caller[t].response = <<>> /\ caller[t].ref \in Refs
    BY <1>1 DEF CallersOK
  <2> QED
    BY <1>1, <2>1, GotoMoves
<1>3. CallersOK'
  <2>1. \A u \in Callers \ {t} : m_' # u /\ caller[u].pc \notin {"header", "rest"}
    BY <1>1, CatAssumption DEF CallersOK
  <2>2. ssh' \in BOOLEAN /\ m_' = t
    BY <1>1 DEF CallersOK
  <2> QED
    BY <1>1, <1>2, <2>1, <2>2 DEF CallersOK, Moves
<1>4. PipesOK'
  <2> DEFINE r == caller[t].ref
  <2>1. Quiet
    BY <1>1 DEF PipesOK
  <2>2. asked' = IF child = "runs" THEN <<r>> ELSE <<>>
    BY <1>1, <2>1 DEF Quiet
  <2>3. /\ InPlace(<<>>, <<>>, <<>>, r) /\ Len(<<>>) = 0
        /\ AnswerSize(r) \in Nat /\ AnswerSize(r) >= 2
    BY <1>2, NothingFollows, SizesAre DEF InPlace
  <2>4. Streams(r, <<>>, "header")'
    BY <1>1, <2>1, <2>2, <2>3 DEF Streams, Quiet, PipesOK
  <2> QED
    BY <1>1, <1>2, <2>1, <2>2, <2>4, CatAssumption DEF PipesOK, Quiet, Moves
<1> QED
  BY <1>1, <1>3, <1>4 DEF Inv, AbortsOnlyFor

\* What a read of at most m bytes takes.
LEMMA ReadsPiece ==
  ASSUME NEW r \in Refs, NEW s, InPlace(s, pipe, owed, r), NEW m \in Nat
  PROVE  \E n \in 0 .. Len(pipe) :
           /\ n = IF Len(pipe) < m THEN Len(pipe) ELSE m
           /\ Available(m) = SubSeq(pipe, 1, n) /\ Len(Available(m)) = n
           /\ Rest(Available(m)) = SubSeq(pipe, n + 1, Len(pipe))
           /\ \A i \in 1 .. n : Available(m)[i] = <<r, Len(s) + i>>
<1> DEFINE n == IF Len(pipe) < m THEN Len(pipe) ELSE m
<1>1. Len(pipe) \in Nat /\ Len(s) \in Nat
  BY InPlaceLengths
<1>2. n \in 0 .. Len(pipe)
  BY <1>1
<1>3. Available(m) = SubSeq(pipe, 1, n)
  BY DEF Available
<1>4. PICK a \in Nat : a = Len(s) /\ Follows(pipe, r, a)
  BY <1>1 DEF InPlace
<1> HIDE DEF n
<1>5. Follows(SubSeq(pipe, 1, n), r, a) /\ Len(SubSeq(pipe, 1, n)) = n
  BY <1>2, <1>4, Cut
<1>6. Rest(Available(m)) = SubSeq(pipe, n + 1, Len(pipe)) /\ Len(Available(m)) = n
  BY <1>3, <1>5 DEF Rest
<1>7. \A i \in 1 .. n : Available(m)[i] = <<r, Len(s) + i>>
  BY <1>3, <1>4, <1>5 DEF Follows
<1> QED
  BY <1>2, <1>3, <1>6, <1>7 DEF n

\* The holder of m_ goes on reading what its response lacks.
LEMMA ToRest ==
  ASSUME CallersOK, NEW t \in Callers, m_ = t, NEW s \in Seq(Bytes), m_' = m_, ssh' = ssh,
         caller[t].ref \notin MissingRefs,
         caller' = [caller EXCEPT ![t].pc = "rest", ![t].first_line_size_ = HeaderSize,
                      ![t].size_ = Size[caller[t].ref], ![t].response = s]
  PROVE  CallersOK' /\ caller'[t].pc = "rest" /\ caller'[t].response = s
<1> DEFINE new == [caller[t] EXCEPT !.pc = "rest", !.first_line_size_ = HeaderSize,
                                    !.size_ = Size[caller[t].ref], !.response = s]
<1>1. caller[t] \in CallerState /\ HeaderSize \in Nat /\ Size[caller[t].ref] \in Nat
  BY SizesAre DEF CallersOK
<1>2. /\ new \in CallerState /\ new.pc = "rest" /\ new.response = s /\ new.ref = caller[t].ref
      /\ new.first_line_size_ = HeaderSize /\ new.size_ = Size[caller[t].ref]
  BY <1>1 DEF CallerState
<1>3. caller' = [caller EXCEPT ![t] = new]
  BY DEF CallersOK
<1> HIDE DEF new
<1>4. /\ caller' \in [Callers -> CallerState] /\ caller'[t] = new
      /\ \A u \in Callers \ {t} : caller'[u] = caller[u] /\ m_ # u
  <2>1. caller \in [Callers -> CallerState]
    BY DEF CallersOK
  <2>2. caller' \in [Callers -> CallerState] /\ caller'[t] = new
    <3>1. t \in Callers /\ new \in CallerState
      BY <1>2
    <3> QED
      BY ONLY <1>3, <2>1, <3>1
  <2>3. \A u \in Callers \ {t} : caller'[u] = caller[u] /\ m_ # u
    BY <1>3, <2>1
  <2> QED
    BY <2>2, <2>3
<1>5. caller[t].ref \in Refs
  BY DEF CallersOK
<1> QED
  BY <1>2, <1>4, <1>5 DEF CallersOK

LEMMA ReadHeaderInv ==
  ASSUME Inv, strays' = 0, NEW t \in Callers, ReadHeader(t)
  PROVE  Inv'
<1>0. PICK r, piece : r = caller[t].ref /\ piece = Available(MaxHeader)
  OBVIOUS
<1>1. /\ CallersOK /\ PipesOK /\ caller[t].pc = "header" /\ catPhase = "open" /\ Readable
      /\ m_ = t /\ r \in Refs /\ caller[t].response = <<>>
  <2>1. strays = 0
    BY DEF ReadHeader, CatAbort
  <2> QED
    BY <1>0, <2>1, Held DEF Inv, ReadHeader, AtCat, CallersOK
<1>2. Streams(r, <<>>, "header")
  BY <1>0, <1>1, Held
<1>3. Inv'
  <2>1. InPlace(<<>>, pipe, owed, r) /\ MaxHeader \in Nat /\ MaxHeader >= 2
    BY <1>1, <1>2, SizesAre DEF Streams
  <2>2. PICK n \in 0 .. Len(pipe) :
          /\ n = IF Len(pipe) < MaxHeader THEN Len(pipe) ELSE MaxHeader
          /\ piece = SubSeq(pipe, 1, n) /\ Len(piece) = n
          /\ Rest(piece) = SubSeq(pipe, n + 1, Len(pipe))
          /\ \A i \in 1 .. n : piece[i] = <<r, Len(<<>>) + i>>
    BY <1>0, <1>1, <2>1, ReadsPiece
  <2>3. /\ Len(pipe) \in Nat /\ Len(owed) \in Nat /\ Len(<<>>) = 0 /\ n \in Nat
        /\ pipe \in Seq(Bytes) /\ owed \in Seq(Bytes)
    BY <2>1, <2>2, InPlaceLengths, EmptySeq DEF InPlace, Follows
  <2>4. \A i \in 1 .. n : piece[i] = <<r, i>>
    BY <2>2, <2>3
  <2>5. CASE n < 2
    <3>1. CatAbort
      <4> SUFFICES ASSUME NEW i \in 1 .. Len(piece), Newline(piece[i]) PROVE FALSE
        BY <1>0 DEF ReadHeader
      <4>1. i = 1 /\ piece[i] = <<r, 1>> /\ Size[r] \in Nat
        BY <1>1, <2>2, <2>3, <2>4, <2>5, SizesAre
      <4> QED
        BY <4>1 DEF Newline, HeaderSize
    <3>3. Len(pipe) < 2
      BY <2>1, <2>2, <2>3, <2>5
    <3>4. died \/ ssh
      BY <1>1, <1>2, <2>3, <3>3 DEF Streams, Readable, PipesOK
    <3> QED
      BY <3>1, <3>4, AbortInv
  <2>6. CASE n >= 2
    <3>1. /\ pipe # <<>> /\ Len(piece) >= 2
          /\ piece[1] = <<r, 1>> /\ piece[2] = <<r, 2>>
      <4>1. Len(pipe) >= 2 /\ 1 \in 1 .. n /\ 2 \in 1 .. n
        BY <2>2, <2>3, <2>6
      <4> QED
        BY <2>2, <2>4, <2>6, <4>1, EmptySeq
    <3>2. IsHeader(piece) /\ \E i \in 1 .. Len(piece) : Newline(piece[i])
      <4>1. Newline(piece[2]) /\ 2 \in 1 .. Len(piece)
        BY <2>2, <2>3, <2>6, <3>1 DEF Newline, HeaderSize
      <4> QED
        BY <1>1, <3>1, <4>1 DEF IsHeader, HeaderSize
    <3>3. FirstLine(piece) = HeaderSize
      <4>1. /\ 2 \in 1 .. Len(piece) /\ Newline(piece[2]) /\ ~Newline(piece[1])
            /\ \A j \in 1 .. 2 - 1 : j = 1
        <5>1. Size[r] \in Nat /\ r # NoRef
          BY <1>1, SizesAre, CatAssumption
        <5> QED
          BY <2>2, <2>3, <2>6, <3>1, <5>1 DEF Newline, HeaderSize
      <4>2. \A i \in 1 .. Len(piece) :
              (Newline(piece[i]) /\ \A j \in 1 .. i - 1 : ~Newline(piece[j])) <=> i = 2
        <5> SUFFICES ASSUME NEW i \in 1 .. Len(piece)
                     PROVE  (Newline(piece[i]) /\ \A j \in 1 .. i - 1 : ~Newline(piece[j])) <=> i = 2
          OBVIOUS
        <5>1. CASE i = 1
          BY <4>1, <5>1
        <5>2. CASE i = 2
          BY <4>1, <5>2
        <5>3. CASE i > 2
          <6>1. 2 \in 1 .. i - 1
            BY <5>3
          <6> QED
            BY <4>1, <5>3, <6>1
        <5> QED
          BY <5>1, <5>2, <5>3
      <4> QED
        BY <4>1, <4>2 DEF FirstLine, HeaderSize
    <3>4. /\ pipe' = Rest(piece)
          /\ UNCHANGED <<asked, owed, child, died, ssh, catPhase>>
          /\ r \in MissingRefs => /\ m_' = Nobody
                                  /\ caller' = [caller EXCEPT ![t].pc = "missing"]
          /\ r \notin MissingRefs =>
               /\ m_' = m_
               /\ caller' = [caller EXCEPT ![t].pc = "rest", ![t].first_line_size_ = HeaderSize,
                                ![t].size_ = Size[r], ![t].response = piece]
      <4>1. PICK m \in Metadata(piece) :
              /\ pipe' = Rest(piece)
              /\ IF m.type_ = "missing"
                 THEN /\ m_' = Nobody
                      /\ caller' = [caller EXCEPT ![t].pc = "missing"]
                 ELSE /\ caller' = [caller EXCEPT ![t].pc = "rest",
                            ![t].first_line_size_ = FirstLine(piece),
                            ![t].size_ = m.size_, ![t].response = piece]
                      /\ UNCHANGED m_
              /\ UNCHANGED <<asked, owed, child, died, strays, late, ssh, catPhase>>
        BY <1>0, <3>2 DEF ReadHeader
      <4>2. m = IF r \in MissingRefs THEN [type_ |-> "missing", size_ |-> 0]
                                     ELSE [type_ |-> "blob", size_ |-> Size[r]]
        BY <3>1, <3>2, <4>1 DEF Metadata
      <4>3. r \in MissingRefs => m.type_ = "missing"
        BY <4>2
      <4>4. r \notin MissingRefs => m.type_ # "missing" /\ m.size_ = Size[r]
        BY <4>2
      <4> QED
        BY <3>3, <4>1, <4>3, <4>4
    <3>5. asked = <<>>
      BY <1>2, <3>1 DEF Streams
    <3>6. CASE r \in MissingRefs
      <4>1. Len(pipe) + Len(owed) <= 2
        BY <1>2, <2>3, <3>6 DEF Streams, AnswerSize, HeaderSize
      <4>2. Len(pipe) = 2 /\ n = 2 /\ Len(owed) = 0
        <5>1. PICK a \in Nat, b \in Nat : a = Len(pipe) /\ b = Len(owed)
          BY <2>3
        <5>2. a + b <= 2 /\ n <= a /\ n >= 2 /\ n \in Nat
          BY <2>3, <2>6, <4>1, <5>1
        <5>3. a = 2 /\ n = 2 /\ b = 0
          BY <5>2
        <5> QED
          BY <5>1, <5>3
      <4>3. pipe' = <<>> /\ owed = <<>>
        <5>1. pipe' = SubSeq(pipe, 3, 2)
          BY <2>2, <3>4, <4>2
        <5>2. SubSeq(pipe, 3, 2) = <<>>
          BY <2>3, <4>2, SubSeqProperties, EmptySeq
        <5> QED
          BY <2>3, <4>2, <5>1, <5>2, EmptySeq
      <4>4. m_' = Nobody /\ Moves(t, "missing")
        BY <1>0, <1>1, <3>4, <3>6, GotoMoves
      <4>5. PipesOK'
        BY <1>1, <3>4, <3>5, <4>3, <4>4, CatAssumption DEF PipesOK, Quiet
      <4>6. CallersOK'
        <5>1. \A u \in Callers \ {t} : m_ # u /\ m_' # u
          BY <1>1, <4>4, CatAssumption
        <5> QED
          BY <1>0, <1>1, <3>4, <3>6, <4>4, <5>1, CatAssumption DEF CallersOK, Moves
      <4> QED
        BY <1>1, <3>4, <4>5, <4>6 DEF Inv, AbortsOnlyFor
    <3>7. CASE r \notin MissingRefs
      <4>1. /\ InPlace(<<>> \o SubSeq(pipe, 1, n), SubSeq(pipe, n + 1, Len(pipe)), owed, r)
            /\ Len(SubSeq(pipe, n + 1, Len(pipe))) = Len(pipe) - n
        <5>1. PICK e : e = <<>>
          OBVIOUS
        <5>2. InPlace(e, pipe, owed, r)
          BY <2>1, <5>1
        <5>3. /\ InPlace(e \o SubSeq(pipe, 1, n), SubSeq(pipe, n + 1, Len(pipe)), owed, r)
              /\ Len(SubSeq(pipe, n + 1, Len(pipe))) = Len(pipe) - n
          BY <1>1, <5>2, Taken
        <5> QED
          BY <5>1, <5>3
      <4>2. <<>> \o SubSeq(pipe, 1, n) = piece /\ piece \in Seq(Bytes)
        BY <2>2, <2>3, Cut, <1>1, <2>1, EmptySeq, ConcatEmptySeq DEF InPlace, Follows
      <4>3. InPlace(piece, pipe', owed, r) /\ Len(pipe') = Len(pipe) - n
        BY <2>2, <3>4, <4>1, <4>2
      <4>4. /\ Len(pipe) + Len(owed) <= AnswerSize(r)
            /\ ~died => Len(pipe) + Len(owed) = AnswerSize(r)
        BY <1>2, <2>3, <3>5 DEF Streams
      <4>5. Streams(r, piece, "rest")'
        <5>1. Len(piece) + Len(pipe') + Len(owed) = Len(pipe) + Len(owed) /\ Len(piece) >= 2
          <6>1. PICK a \in Nat, b \in Nat : a = Len(pipe) /\ b = Len(owed)
            BY <2>3
          <6>2. Len(piece) = n /\ Len(pipe') = a - n /\ n \in Nat /\ n >= 2
            BY <2>2, <2>3, <2>6, <4>3, <6>1
          <6> HIDE <1>0, <2>2
          <6>3. n + (a - n) + b = a + b
            BY <6>1, <6>2
          <6> QED
            BY <6>1, <6>2, <6>3
        <5> QED
          BY <3>4, <3>5, <3>7, <4>3, <4>4, <5>1 DEF Streams
      <4>6. CallersOK' /\ caller'[t].pc = "rest" /\ caller'[t].response = piece
        BY <1>0, <1>1, <3>4, <3>7, <4>2, ToRest
      <4>7. caller'[t].ref = r
        BY <1>0, <1>1, <3>4, <3>7 DEF CallersOK, CallerState
      <4>9. PipesOK'
        <5>1. \A u \in Callers : m_' = u => u = t
          BY <1>1, <3>4, <3>7
        <5> QED
          BY <1>1, <3>4, <3>5, <3>7, <4>5, <4>6, <4>7, <5>1, CatAssumption DEF PipesOK
      <4> QED
        BY <1>1, <3>4, <4>6, <4>9 DEF Inv, AbortsOnlyFor
    <3> QED
      BY <3>6, <3>7
  <2> QED
    BY <2>5, <2>6
<1> QED
  BY <1>3

\* What the response of the holder lacks.
LEMMA Lacks ==
  ASSUME CallersOK, PipesOK, NEW t \in Callers, caller[t].pc = "rest",
         NEW r, r = caller[t].ref, NEW s, s = caller[t].response
  PROVE  /\ m_ = t /\ r \in Refs /\ r \notin MissingRefs /\ Streams(r, s, "rest")
         /\ Len(s) \in Nat /\ Remaining(caller[t]) = AnswerSize(r) - Len(s)
         /\ caller[t].first_line_size_ = HeaderSize /\ caller[t].size_ = Size[r]
         /\ AnswerSize(r) = Size[r] + 3 /\ Size[r] \in Nat
<1>1. m_ = t /\ r \in Refs /\ Streams(r, s, "rest")
  BY Held
<1>2. r \notin MissingRefs /\ Len(s) \in Nat
  BY <1>1 DEF Streams, InPlace, Follows
<1>3. caller[t].first_line_size_ = HeaderSize /\ caller[t].size_ = Size[r]
  BY DEF CallersOK
<1>4. AnswerSize(r) = Size[r] + 3 /\ Size[r] \in Nat /\ HeaderSize = 2
  BY <1>1, <1>2, SizesAre
<1> QED
  BY <1>1, <1>2, <1>3, <1>4 DEF Remaining

LEMMA ReadRestInv ==
  ASSUME Inv, strays' = 0, NEW t \in Callers, ReadRest(t)
  PROVE  Inv'
<1>0. PICK r, s, m, piece :
        /\ r = caller[t].ref /\ s = caller[t].response
        /\ m = Remaining(caller[t]) /\ piece = Available(m)
  OBVIOUS
<1>1. /\ CallersOK /\ PipesOK /\ caller[t].pc = "rest" /\ catPhase = "open" /\ Readable
      /\ m_ = t /\ r \in Refs /\ m > 0
  BY <1>0, Held DEF Inv, ReadRest, AtCat, CallersOK
<1>2. /\ caller' = [caller EXCEPT ![t].response = s \o piece]
      /\ pipe' = Rest(piece)
      /\ UNCHANGED <<m_, asked, owed, child, died, ssh, catPhase>>
  BY <1>0, <1>1 DEF ReadRest, CallersOK
<1>3. ASSUME s \o piece \in Seq(Bytes), r \notin MissingRefs
      PROVE  /\ CallersOK' /\ caller'[t].pc = "rest" /\ caller'[t].response = s \o piece
             /\ caller'[t].ref = r
  <2>1. caller' = [caller EXCEPT ![t].pc = "rest", ![t].first_line_size_ = HeaderSize,
                      ![t].size_ = Size[caller[t].ref], ![t].response = s \o piece]
    <3>1. /\ caller[t] \in CallerState /\ caller[t].pc = "rest"
          /\ caller[t].first_line_size_ = HeaderSize /\ caller[t].size_ = Size[caller[t].ref]
      BY <1>1 DEF CallersOK
    <3>2. [caller[t] EXCEPT !.response = s \o piece] =
            [caller[t] EXCEPT !.pc = "rest", !.first_line_size_ = HeaderSize,
                              !.size_ = Size[caller[t].ref], !.response = s \o piece]
      BY <3>1 DEF CallerState
    <3> QED
      BY <1>1, <1>2, <3>2 DEF CallersOK
  <2>2. caller'[t].ref = r
    BY <1>0, <1>1, <1>2 DEF CallersOK, CallerState
  <2> QED
    BY <1>0, <1>1, <1>2, <1>3, <2>1, <2>2, ToRest
<1>4. Streams(r, s, "rest")
  BY <1>0, <1>1, Lacks
<1>5. Inv'
  <2>1. InPlace(s, pipe, owed, r) /\ Follows(s, r, 0) /\ Len(s) >= 2 /\ r \notin MissingRefs
    BY <1>1, <1>4 DEF Streams, InPlace
  <2>2. m \in Nat
    <3>1. m = AnswerSize(r) - Len(s) /\ Len(s) \in Nat /\ AnswerSize(r) \in Nat
      BY <1>0, <1>1, Lacks, SizesAre
    <3> QED
      BY <1>1, <3>1
  <2>3. PICK n \in 0 .. Len(pipe) :
          /\ piece = SubSeq(pipe, 1, n) /\ Rest(piece) = SubSeq(pipe, n + 1, Len(pipe))
    BY <1>0, <1>1, <2>1, <2>2, ReadsPiece
  <2>4. /\ InPlace(s \o piece, pipe', owed, r)
        /\ Len(s \o piece) = Len(s) + n /\ Len(pipe') = Len(pipe) - n
    <3>1. /\ InPlace(s \o SubSeq(pipe, 1, n), SubSeq(pipe, n + 1, Len(pipe)), owed, r)
          /\ Len(s \o SubSeq(pipe, 1, n)) = Len(s) + n
          /\ Len(SubSeq(pipe, n + 1, Len(pipe))) = Len(pipe) - n
      BY <1>1, <2>1, Taken
    <3> QED
      BY <1>2, <2>3, <3>1
  <2>5. /\ Len(s) \in Nat /\ Len(pipe) \in Nat /\ Len(owed) \in Nat /\ n \in Nat
        /\ s \o piece \in Seq(Bytes)
    BY <2>1, <2>3, <2>4, InPlaceLengths DEF InPlace, Follows
  <2>6. /\ Len(s \o piece) + Len(pipe') + Len(owed) = Len(s) + Len(pipe) + Len(owed)
        /\ Len(s \o piece) >= 2
    <3>1. PICK a, b : a = Len(s \o piece) /\ b = Len(pipe')
      OBVIOUS
    <3>2. a = Len(s) + n /\ b = Len(pipe) - n
      BY <2>4, <3>1
    <3>3. a + b + Len(owed) = Len(s) + Len(pipe) + Len(owed) /\ a >= 2
      BY <2>1, <2>5, <3>2
    <3> QED
      BY <3>1, <3>3
  <2>7. asked = <<>> /\ asked' = <<>>
    BY <1>2, <1>4, <2>1, EmptySeq DEF Streams
  <2>8. PICK u : u = s \o piece
    OBVIOUS
  <2>9. Streams(r, u, "rest")'
    BY <1>2, <1>4, <2>1, <2>4, <2>6, <2>7, <2>8 DEF Streams
  <2>10. PipesOK'
    BY <1>1, <1>2, <1>3, <2>1, <2>5, <2>7, <2>8, <2>9, CatAssumption DEF PipesOK
  <2> QED
    BY <1>1, <1>2, <1>3, <2>1, <2>5, <2>10 DEF Inv, AbortsOnlyFor
<1> QED
  BY <1>5

\* The request that read all its answer has exactly that, and leaves nothing.
LEMMA FinishInv ==
  ASSUME Inv, strays' = 0, NEW t \in Callers, Finish(t)
  PROVE  Inv'
<1>0. PICK r, s : r = caller[t].ref /\ s = caller[t].response
  OBVIOUS
<1>1. /\ CallersOK /\ PipesOK /\ caller[t].pc = "rest" /\ catPhase = "open"
      /\ m_ = t /\ r \in Refs /\ Remaining(caller[t]) <= 0
  <2>1. strays = 0
    BY DEF Finish, CatAbort
  <2> QED
    BY <1>0, <2>1, Held DEF Inv, Finish, AtCat, CallersOK
<1>2. Streams(r, s, "rest")
  BY <1>0, <1>1, Held
<1>3. Follows(s, r, 0) /\ Len(s) >= 2 /\ r \notin MissingRefs /\ InPlace(s, pipe, owed, r)
  BY <1>1, <1>2 DEF Streams, InPlace
<1>4. /\ Len(s) \in Nat /\ Len(pipe) \in Nat /\ Len(owed) \in Nat
      /\ caller[t].first_line_size_ = HeaderSize /\ caller[t].size_ = Size[r] /\ Size[r] \in Nat
      /\ AnswerSize(r) = Size[r] + 3 /\ Remaining(caller[t]) = AnswerSize(r) - Len(s)
  BY <1>0, <1>1, <1>3, Lacks, InPlaceLengths
<1>5. Len(s) = Size[r] + 3 /\ Len(pipe) = 0 /\ Len(owed) = 0
  <2>1. Len(s) + Len(pipe) + Len(owed) <= Size[r] + 3 /\ Len(s) >= Size[r] + 3
    BY <1>1, <1>2, <1>4 DEF Streams
  <2>2. PICK a \in Nat, b \in Nat, c \in Nat, d \in Nat :
          a = Len(s) /\ b = Len(pipe) /\ c = Len(owed) /\ d = Size[r]
    BY <1>4
  <2>3. a + b + c <= d + 3 /\ a >= d + 3
    BY <2>1, <2>2
  <2>4. a = d + 3 /\ b = 0 /\ c = 0
    BY <2>3
  <2> QED
    BY <2>2, <2>4
<1>6. asked = <<>> /\ pipe = <<>> /\ owed = <<>>
  BY <1>2, <1>3, <1>5, EmptySeq DEF Streams, InPlace, Follows
<1>7. \A i \in 1 .. Size[r] + 3 : s[i] = <<r, i>>
  BY <1>3, <1>5 DEF Follows
<1>8. Newline(Last(s))
  <2>1. Last(s) = <<r, Size[r] + 3>>
    BY <1>4, <1>5, <1>7 DEF Last
  <2> QED
    BY <1>1, <1>4, <2>1 DEF Newline, HeaderSize
<1>9. /\ SubSeq(s, HeaderSize + 1, HeaderSize + Size[r]) = Content(r)
      /\ Content(r) \in Seq(Bytes)
  <2>1. PICK d \in Nat : d = Size[r] /\ Size[r] = d
    BY <1>4
  <2>2. \A i \in 3 .. 2 + d : s[i] \in Bytes
    <3>1. ASSUME NEW i \in 3 .. 2 + d PROVE s[i] \in Bytes
      <4>1. i \in Nat /\ s[i] = <<r, i>>
        BY <1>7, <2>1
      <4> QED
        BY <1>1, <4>1 DEF Bytes
    <3> QED
      BY <3>1
  <2>3. SubSeq(s, HeaderSize + 1, HeaderSize + Size[r]) = SubSeq(s, 3, 2 + d)
    <3>1. HeaderSize + 1 = 3 /\ HeaderSize + Size[r] = 2 + d
      BY <1>4, <2>1 DEF HeaderSize
    <3> QED
      BY <3>1
  <2>4. /\ SubSeq(s, 3, 2 + d) \in Seq(Bytes) /\ Len(SubSeq(s, 3, 2 + d)) = d
        /\ \A i \in 1 .. d : SubSeq(s, 3, 2 + d)[i] = s[2 + i]
    BY <2>1, <2>2, SubSeqProperties
  <2>5. \A i \in 1 .. d : SubSeq(s, 3, 2 + d)[i] = <<r, 2 + i>>
    BY <1>7, <2>1, <2>4
  <2>6. Content(r) = [i \in 1 .. d |-> <<r, 2 + i>>]
    BY <2>1 DEF Content, HeaderSize
  <2>7. Content(r) \in Seq(Bytes) /\ Len(Content(r)) = d
    <3>1. Content(r) \in [1 .. d -> Bytes]
      BY <1>1, <2>6 DEF Bytes
    <3>2. Content(r) \in Seq(Bytes)
      BY <2>1, <3>1, SeqDef
    <3> QED
      BY <2>1, <3>1, <3>2, LenProperties
  <2>8. \A i \in 1 .. d : SubSeq(s, 3, 2 + d)[i] = Content(r)[i]
    BY <2>5, <2>6
  <2>9. SubSeq(s, 3, 2 + d) = Content(r)
    BY <2>4, <2>7, <2>8, SeqEqual
  <2> QED
    BY <2>7, <2>9, <2>3
<1>10. PICK c : c = Content(r) /\ c \in Seq(Bytes)
  BY <1>9
<1>11. /\ caller' = [caller EXCEPT ![t].pc = "returned", ![t].result = c]
       /\ m_' = Nobody
       /\ UNCHANGED <<asked, owed, pipe, child, died, ssh, catPhase>>
  BY <1>0, <1>4, <1>8, <1>9, <1>10 DEF Finish
<1>12. CallersOK'
  <2> DEFINE new == [caller[t] EXCEPT !.pc = "returned", !.result = c]
  <2>1. caller[t] \in CallerState
    BY <1>1 DEF CallersOK
  <2>2. /\ new \in CallerState /\ new.pc = "returned" /\ new.result = c /\ new.ref = r
    BY <1>0, <1>10, <2>1 DEF CallerState
  <2>3. caller' = [caller EXCEPT ![t] = new]
    BY <1>1, <1>11 DEF CallersOK
  <2> HIDE DEF new
  <2>4. /\ caller' \in [Callers -> CallerState] /\ caller'[t] = new
        /\ \A u \in Callers \ {t} : caller'[u] = caller[u]
    BY <1>1, <2>2, <2>3 DEF CallersOK
  <2>5. \A u \in Callers \ {t} : m_ # u /\ m_' # u
    BY <1>1, <1>11, CatAssumption
  <2>6. m_' = Nobody /\ Nobody \notin Callers /\ ssh' = ssh
    BY <1>11, CatAssumption
  <2> QED
    BY <1>1, <1>3, <1>10, <2>2, <2>4, <2>5, <2>6 DEF CallersOK
<1>13. PipesOK'
  BY <1>1, <1>6, <1>11, CatAssumption DEF PipesOK, Quiet
<1> QED
  BY <1>1, <1>11, <1>12, <1>13 DEF Inv, AbortsOnlyFor

LEMMA DestroyInv == Inv /\ strays' = 0 /\ Destroy => Inv'
<1> SUFFICES ASSUME Inv, strays' = 0, Destroy PROVE Inv'
  OBVIOUS
<1>1. /\ PipesOK /\ died' = died /\ ssh' = ssh
      /\ child' \in IF child = "runs" THEN {"exit 0", "exit 255", "SIGTERM"} ELSE {child}
      /\ catPhase' = IF child' \in {"exit 0", "exit 255", "SIGTERM"} THEN "closed" ELSE "aborted"
  BY DEF Inv, Destroy
<1>2. CASE child = "runs"
  <2>1. child' \in {"exit 0", "exit 255", "SIGTERM"}
    BY <1>1, <1>2
  <2>2. catPhase' = "closed"
    BY <1>1, <2>1
  <2> QED
    BY <2>2 DEF Inv, AbortsOnlyFor
<1>3. CASE child # "runs"
  <2>1. died'
    BY <1>1, <1>3 DEF PipesOK
  <2>2. catPhase' \in {"closed", "aborted"}
    BY <1>1
  <2> QED
    BY <2>1, <2>2 DEF Inv, AbortsOnlyFor
<1> QED
  BY <1>2, <1>3

LEMMA NextInv == Inv /\ [CatNext]_catVars => Inv'
<1> SUFFICES ASSUME Inv, [CatNext]_catVars PROVE Inv'
  OBVIOUS
<1>0. CASE CatNext /\ strays' # 0
  BY <1>0, StrayInv
<1>1. CASE CatNext /\ strays' = 0
  <2>1. CASE StartChild
    BY <1>1, <2>1, StartChildInv
  <2>2. CASE ChildReads
    BY <1>1, <2>2, ChildReadsInv
  <2>3. CASE ChildWrites
    BY <1>1, <2>3, ChildWritesInv
  <2>4. CASE ChildComplains
    BY <1>1, <2>4 DEF ChildComplains, Stray, Inv
  <2>5. CASE ChildDies
    BY <1>1, <2>5, ChildDiesInv
  <2>6. CASE Destroy
    BY <1>1, <2>6, DestroyInv
  <2>7. CASE \E t \in Callers : Requesting(t)
    BY <1>1, <2>7, WriteInv, ReadHeaderInv, ReadRestInv, FinishInv, RequestReturnsInv DEF Requesting
  <2>8. CASE \E t \in Callers : \E r \in Refs : CallRequest(t, r)
    BY <1>1, <2>8, CallRequestInv
  <2> QED
    BY <1>1, <2>1, <2>2, <2>3, <2>4, <2>5, <2>6, <2>7, <2>8 DEF CatNext
<1>2. CASE UNCHANGED catVars
  BY <1>2 DEF catVars, Inv, NothingAsked, CallersOK, PipesOK, Quiet, Streams, AbortsOnlyFor
<1> QED
  BY <1>0, <1>1, <1>2

LEMMA SpecInv == CatSpec => []Inv
BY InitInv, NextInv, PTL DEF CatSpec

-----------------------------------------------------------------------------

\* GitCatFileProcess::Request (git_cat_file.cc) returns the whole object it
\* was asked for, and throws only for one that is missing, however many
\* threads ask and whatever pieces the answers come in, as long as the child
\* has written nothing to its stderr, which is the same pipe.
THEOREM AnswersAreWhole == CatSpec => []AnswersMatch
<1>1. Inv => AnswersMatch
  BY DEF Inv, AnswersMatch, AtCat, CallersOK
<1> QED
  BY <1>1, SpecInv, PTL

\* When m_ is free nothing is left in the pipes of a living child that has
\* written nothing to stderr: every Request takes from BidirectionalPopen
\* what it caused to be written.
THEOREM PipesStayInStep == CatSpec => []InSync
<1>1. Inv => InSync
  BY DEF Inv, InSync, PipesOK, Quiet
<1> QED
  BY <1>1, SpecInv, PTL

\* The assertions of GitCatFileMetadata and of Request cannot fail for a
\* child that lives, writes a header line in one piece, and keeps silent on
\* stderr.
THEOREM AssertionsHold == CatSpec => []AbortsOnlyFor
<1>1. Inv => AbortsOnlyFor
  BY DEF Inv
<1> QED
  BY <1>1, SpecInv, PTL
=============================================================================
