------------------------------ MODULE GitCatFile ------------------------------
(***************************************************************************)
(* The git cat-file client of gitlstree: one child process, "git cat-file  *)
(* --batch", answers the requests of all threads over a pair of pipes.     *)
(*                                                                         *)
(* The pipes carry no request numbers.  What keeps the answers apart is    *)
(* that m_ is held from the request to the last byte of its answer and     *)
(* that the reader takes exactly the bytes the header announces, in        *)
(* whatever pieces they come.                                              *)
(*                                                                         *)
(* A byte of an answer is a pair of its object and its place: the two      *)
(* bytes of the header line (the second is its newline), the content, and  *)
(* a closing newline.  A missing object has only the header line.          *)
(*                                                                         *)
(* The child's stderr is the same pipe for all of its life: a line it      *)
(* writes there is read as if it were a part of an answer, at once or by a *)
(* later request.  After such a line nothing is promised.                  *)
(***************************************************************************)
EXTENDS Integers, SequencesExt

CONSTANTS
  Refs,         \* names of objects that are asked for
  Size,         \* their sizes
  MissingRefs,  \* those that are not in the repository
  Callers,      \* threads
  Nobody,
  NoRef,        \* the "object" of a line that is no answer
  MaxHeader,    \* kMaxHeaderSize
  PipeSize,     \* what the pipe from the child holds
  MaxStrays,    \* bound on the lines the child writes to stderr
  MaxLate,      \*   on the requests made after the first of them
  MaxSaid,      \*   and on the number atoi finds where no header is
  ChildMayDie   \* it does not start, is killed, or its connection breaks

ASSUME CatAssumption ==
  /\ MissingRefs \subseteq Refs
  /\ Size \in [Refs -> Nat]
  /\ NoRef \notin Refs /\ Nobody \notin Callers
  /\ MaxHeader \in Nat /\ MaxHeader >= 2
  /\ PipeSize \in Nat /\ PipeSize >= 2
  /\ MaxStrays \in Nat /\ MaxLate \in Nat /\ MaxSaid \in Nat
  /\ ChildMayDie \in BOOLEAN

VARIABLES
  m_,           \* the caller holding m_, or Nobody
  caller,       \* per caller: where it is, its ref, metadata, response, result
  asked,        \* the pipe to the child: requests it has not read
  owed,         \* what it has still to write of the answer under way
  pipe,         \* the pipe from the child: bytes nobody has read
  child,        \* "none", "runs", or the status it ended with
  died,         \*   before it was told to
  strays,       \* lines on stderr so far
  late,         \*   and requests made since the first
  ssh,          \* the child runs behind ssh, which forwards any pieces
  catPhase      \* of the client: "new", "open", "closed" or "aborted"

catVars == <<m_, caller, asked, owed, pipe, child, died, strays, late, ssh, catPhase>>

Statuses == {"exit 0", "exit 255", "exit other", "SIGTERM", "other signal"}

AtRest ==
  [pc |-> "idle", ref |-> NoRef, first_line_size_ |-> 0, size_ |-> 0,
   response |-> <<>>, result |-> <<>>]

HeaderSize == 2
Newline(byte) ==
  \/ byte[2] = HeaderSize
  \/ byte[1] \in Refs /\ byte[2] = HeaderSize + Size[byte[1]] + 1

\* What git writes for a request, and the object's bytes in it.
AnswerTo(r) ==
  [i \in 1 .. (IF r \in MissingRefs THEN HeaderSize ELSE HeaderSize + Size[r] + 1) |-> <<r, i>>]
Content(r) == [i \in 1 .. Size[r] |-> <<r, HeaderSize + i>>]

\* A line on stderr, which is the same pipe.
ErrorLine == <<<<NoRef, 1>>, <<NoRef, 2>>>>

NothingAsked ==
  /\ m_ = Nobody
  /\ caller = [t \in Callers |-> AtRest]
  /\ asked = <<>> /\ owed = <<>> /\ pipe = <<>>
  /\ child = "none" /\ died = FALSE /\ strays = 0 /\ late = 0
  /\ ssh \in BOOLEAN

CatInit == NothingAsked /\ catPhase = "new"

AtCat(t, pc) == catPhase = "open" /\ caller[t].pc = pc

-----------------------------------------------------------------------------
(* The child.                                                              *)

\* A line goes to stderr, whatever else is in the pipe.
Stray ==
  /\ strays < MaxStrays /\ Len(pipe) + Len(ErrorLine) <= PipeSize
  /\ strays' = strays + 1
  /\ pipe' = pipe \o ErrorLine

\* The constructor: fork, and execvp.  A failed chdir aborts with its message
\* on the daemon's own stderr, a failed execvp with one in the pipe.
StartChild ==
  /\ catPhase = "new"
  /\ catPhase' = "open"
  /\ \/ child' = "runs" /\ UNCHANGED <<died, pipe, strays>>
     \/ /\ ChildMayDie
        /\ child' = "other signal" /\ died' = TRUE
        /\ Stray \/ UNCHANGED <<pipe, strays>>
  /\ UNCHANGED <<m_, caller, asked, owed, late, ssh>>

\* git about a damaged object, or the banner of ssh: at any time, also in the
\* middle of an answer.
ChildComplains ==
  /\ child = "runs" /\ catPhase = "open"
  /\ Stray
  /\ UNCHANGED <<m_, caller, asked, owed, child, died, late, ssh, catPhase>>

ChildReads ==
  /\ child = "runs" /\ owed = <<>> /\ asked # <<>>
  /\ owed' = AnswerTo(Head(asked))
  /\ asked' = Tail(asked)
  /\ UNCHANGED <<m_, caller, pipe, child, died, strays, late, ssh, catPhase>>

\* Any piece, but a header line that git writes to the pipe itself is one.
ChildWrites ==
  /\ child = "runs" /\ owed # <<>>
  /\ \E n \in 1 .. Len(owed) :
       /\ Len(pipe) + n <= PipeSize
       /\ ssh \/ Head(owed)[2] # 1 \/ n >= HeaderSize
       /\ pipe' = pipe \o SubSeq(owed, 1, n)
       /\ owed' = SubSeq(owed, n + 1, Len(owed))
  /\ UNCHANGED <<m_, caller, asked, child, died, strays, late, ssh, catPhase>>

ChildDies ==
  /\ ChildMayDie /\ child = "runs" /\ catPhase = "open"
  /\ child' \in Statuses
  /\ died' = TRUE
  /\ asked' = <<>> /\ owed' = <<>>
  /\ UNCHANGED <<m_, caller, pipe, strays, late, ssh, catPhase>>

-----------------------------------------------------------------------------
(* BidirectionalPopen and Request.                                         *)

\* Read: what is there, up to max_size; nothing once the child is gone and
\* the pipe is empty.  It blocks while the pipe of a running child is empty.
Readable == pipe # <<>> \/ child # "runs"
Available(max_size) ==
  SubSeq(pipe, 1, IF Len(pipe) < max_size THEN Len(pipe) ELSE max_size)
Rest(piece) == SubSeq(pipe, Len(piece) + 1, Len(pipe))

CatAbort ==
  /\ catPhase' = "aborted"
  /\ m_' = Nobody
  /\ caller' = [t \in Callers |-> AtRest]
  /\ UNCHANGED <<asked, owed, pipe, child, died, strays, late, ssh>>

\* Several elements of one blob, or of several, are fetched at once.
CallRequest(t, r) ==
  /\ AtCat(t, "idle")
  /\ caller' = [caller EXCEPT ![t] = [AtRest EXCEPT !.pc = "lock", !.ref = r]]
  /\ IF strays = 0 THEN UNCHANGED late ELSE late < MaxLate /\ late' = late + 1
  /\ UNCHANGED <<m_, asked, owed, pipe, child, died, strays, ssh, catPhase>>

\* Mutant: the request is written before m_ is held.
WriteEarly(t) ==
  /\ AtCat(t, "lock")
  /\ asked' = IF child = "runs" THEN Append(asked, caller[t].ref) ELSE asked
  /\ caller' = [caller EXCEPT ![t].pc = "header"]
  /\ UNCHANGED <<m_, owed, pipe, child, died, strays, late, ssh, catPhase>>

\* lock_guard and Write, whose result nobody looks at.
Write(t) ==
  /\ AtCat(t, "lock")
  /\ m_ = Nobody
  /\ m_' = t
  /\ asked' = IF child = "runs" THEN Append(asked, caller[t].ref) ELSE asked
  /\ caller' = [caller EXCEPT ![t].pc = "header"]
  /\ UNCHANGED <<owed, pipe, child, died, strays, late, ssh, catPhase>>

FirstLine(piece) == CHOOSE i \in 1 .. Len(piece) :
  Newline(piece[i]) /\ \A j \in 1 .. i - 1 : ~Newline(piece[j])

\* The first bytes are the header line of an answer, and nothing else.
IsHeader(piece) ==
  /\ Len(piece) >= HeaderSize
  /\ \E r \in Refs : piece[1] = <<r, 1>> /\ piece[2] = <<r, HeaderSize>>

\* GitCatFileMetadata: type_ and size_, which are anything for another line.
Metadata(piece) ==
  IF IsHeader(piece)
  THEN LET r == piece[1][1]
       IN IF r \in MissingRefs THEN {[type_ |-> "missing", size_ |-> 0]}
                               ELSE {[type_ |-> "blob", size_ |-> Size[r]]}
  ELSE [type_ : {"missing", "blob"}, size_ : 0 .. MaxSaid]

\* The first Read: without a newline an assertion fails, and one may fail for
\* a line that is no header and has no blank; type "missing" throws, and
\* unlocks on the way out.
ReadHeader(t) ==
  /\ AtCat(t, "header")
  /\ Readable
  /\ LET piece == Available(MaxHeader)
         whole == \E i \in 1 .. Len(piece) : Newline(piece[i])
     IN \/ ~(whole /\ IsHeader(piece)) /\ CatAbort
        \/ /\ whole
           /\ pipe' = Rest(piece)
           /\ \E metadata \in Metadata(piece) :
                IF metadata.type_ = "missing"
                THEN /\ m_' = Nobody
                     /\ caller' = [caller EXCEPT ![t].pc = "missing"]
                ELSE /\ caller' = [caller EXCEPT ![t].pc = "rest",
                           ![t].first_line_size_ = FirstLine(piece),
                           ![t].size_ = metadata.size_, ![t].response = piece]
                     /\ UNCHANGED m_
           /\ UNCHANGED <<asked, owed, child, died, strays, late, ssh, catPhase>>

\* Mutant: one byte more than git writes.
RemainingLong(c) == c.size_ + c.first_line_size_ + 2 - Len(c.response)

Remaining(c) == c.size_ + c.first_line_size_ + 1 - Len(c.response)

\* One more Read of the loop.  At the end of the file it adds nothing and
\* the loop goes on for ever, with m_ held: a step that changes nothing.
ReadRest(t) ==
  /\ AtCat(t, "rest")
  /\ Remaining(caller[t]) > 0
  /\ Readable
  /\ LET piece == Available(Remaining(caller[t]))
     IN /\ caller' = [caller EXCEPT ![t].response = @ \o piece]
        /\ pipe' = Rest(piece)
  /\ UNCHANGED <<m_, asked, owed, child, died, strays, late, ssh, catPhase>>

\* The answer is complete: the assertion on its last byte, and substr.
Finish(t) ==
  /\ AtCat(t, "rest")
  /\ LET c == caller[t]
     IN /\ Remaining(c) <= 0
        /\ IF ~Newline(Last(c.response))
           THEN CatAbort
           ELSE /\ caller' = [caller EXCEPT ![t].pc = "returned", ![t].result =
                     SubSeq(c.response, c.first_line_size_ + 1, c.first_line_size_ + c.size_)]
                /\ m_' = Nobody
                /\ UNCHANGED <<asked, owed, pipe, child, died, strays, late, ssh, catPhase>>

\* Back in the fetch callback of the element.
RequestReturns(t) ==
  /\ AtCat(t, "returned") \/ AtCat(t, "missing")
  /\ caller' = [caller EXCEPT ![t] = AtRest]
  /\ UNCHANGED <<m_, asked, owed, pipe, child, died, strays, late, ssh, catPhase>>

\* Mutant: only a child that was still running to be signalled is expected.
DestroyStrict ==
  /\ catPhase = "open"
  /\ caller = [t \in Callers |-> AtRest]
  /\ child' \in IF child = "runs" THEN {"exit 0", "exit 255", "SIGTERM"} ELSE {child}
  /\ catPhase' = IF child' = "SIGTERM" THEN "closed" ELSE "aborted"
  /\ asked' = <<>> /\ owed' = <<>> /\ pipe' = <<>>
  /\ UNCHANGED <<m_, caller, died, strays, late, ssh>>

\* The destructor, after the last handler: the child sees the end of its
\* input and then SIGTERM; its status must be one of the usual three.
Destroy ==
  /\ catPhase = "open"
  /\ caller = [t \in Callers |-> AtRest]
  /\ child' \in IF child = "runs" THEN {"exit 0", "exit 255", "SIGTERM"} ELSE {child}
  /\ catPhase' = IF child' \in {"exit 0", "exit 255", "SIGTERM"} THEN "closed" ELSE "aborted"
  /\ asked' = <<>> /\ owed' = <<>> /\ pipe' = <<>>
  /\ UNCHANGED <<m_, caller, died, strays, late, ssh>>

Requesting(t) ==
  Write(t) \/ ReadHeader(t) \/ ReadRest(t) \/ Finish(t) \/ RequestReturns(t)

CatNext ==
  \/ StartChild \/ ChildReads \/ ChildWrites \/ ChildComplains \/ ChildDies \/ Destroy
  \/ \E t \in Callers : Requesting(t) \/ \E r \in Refs : CallRequest(t, r)

CatSpec == CatInit /\ [][CatNext]_catVars

\* git answers what it is asked; a thread runs, and gets m_ when it becomes
\* free again and again.
CatFairness ==
  /\ WF_catVars(ChildReads) /\ WF_catVars(ChildWrites)
  /\ \A t \in Callers : SF_catVars(Requesting(t))

-----------------------------------------------------------------------------

\* While nothing came on stderr: a request gets the whole object it named,
\* and only the request of a missing object fails; threads, pieces, and a
\* child that dies in the middle never mix or cut the answers that are
\* returned.
AnswersMatch ==
  strays = 0 =>
    \A t \in Callers :
      /\ AtCat(t, "returned") => caller[t].ref \notin MissingRefs
                                 /\ caller[t].result = Content(caller[t].ref)
      /\ AtCat(t, "missing") => caller[t].ref \in MissingRefs

\* While nothing came on stderr: between requests the pipes are empty, so the
\* next answer starts at the next byte; each request leaves them as it found
\* them, also one that throws.
InSync ==
  catPhase = "open" /\ m_ = Nobody /\ ~died /\ strays = 0 =>
    asked = <<>> /\ owed = <<>> /\ pipe = <<>>

\* The assertions of the client fail only for a child that ended before it
\* was told to, for a header line that ssh delivered in pieces, or for a line
\* on stderr.
AbortsOnlyFor ==
  catPhase = "aborted" => died \/ ssh \/ strays > 0

\* While the child lives and keeps silent on stderr, a request that waits for
\* m_ and for all the pieces of its answer returns.
RequestsReturn ==
  \A t \in Callers : caller[t].pc # "idle" ~> caller[t].pc = "idle" \/ died \/ strays > 0
=============================================================================
