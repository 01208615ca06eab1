-------------------------- MODULE GithubLoaderProofs --------------------------
(***************************************************************************)
(* For every repository, every limit and every way the threads of          *)
(* std::async interleave: the fetches of the loader are jobs of the        *)
(* concurrency limit and so keep to it, what GitHub could list at once is  *)
(* served whole, no call is left when the tree is served, and it is one    *)
(* tree.                                                                   *)
(***************************************************************************)
EXTENDS GithubLoader, DirectoryContainerProofs

-----------------------------------------------------------------------------
(* ScopedConcurrencyLimit on its own, for every limit and every finite set *)
(* of jobs: Spec.                                                          *)

\* The sizes the invariants speak of are numbers, before and after a step.
LEMMA Sizes ==
  ASSUME NEW p
  PROVE  /\ IsFiniteSet(At(p)) /\ Cardinality(At(p)) \in Nat
         /\ IsFiniteSet(At(p)') /\ Cardinality(At(p)') \in Nat
<1>1. At(p) \in SUBSET Jobs /\ At(p)' \in SUBSET Jobs
  BY DEF At
<1>2. IsFiniteSet(At(p)) /\ IsFiniteSet(At(p)')
  BY <1>1, LimitAssumption, FS_Subset
<1> QED
  BY <1>2, FS_CardinalityType

\* Job j moves from one place to another; nobody else moves.
Moves(j, from, to) ==
  /\ pc[j] = from
  /\ pc' = [pc EXCEPT ![j] = to]

LEMMA Leaves ==
  ASSUME TypeOK, NEW j \in Jobs, NEW from, NEW to, from # to, Moves(j, from, to)
  PROVE  /\ At(from)' = At(from) \ {j} /\ j \in At(from)
         /\ Cardinality(At(from)') = Cardinality(At(from)) - 1
<1>1. At(from)' = At(from) \ {j} /\ j \in At(from)
  BY DEF TypeOK, At, Moves
<1> QED
  BY <1>1, Sizes, FS_RemoveElement

LEMMA Arrives ==
  ASSUME TypeOK, NEW j \in Jobs, NEW from, NEW to, from # to, Moves(j, from, to)
  PROVE  /\ At(to)' = At(to) \cup {j} /\ j \notin At(to)
         /\ Cardinality(At(to)') = Cardinality(At(to)) + 1
<1>1. At(to)' = At(to) \cup {j} /\ j \notin At(to)
  BY DEF TypeOK, At, Moves
<1> QED
  BY <1>1, Sizes, FS_AddElement

LEMMA Stays ==
  ASSUME TypeOK, NEW j \in Jobs, NEW from, NEW to, Moves(j, from, to),
         NEW p, p # from, p # to
  PROVE  At(p)' = At(p)
BY DEF TypeOK, At, Moves

Places == {"out", "wait", "woken", "run", "notify", "done"}

LEMMA MovesTyped ==
  ASSUME TypeOK, NEW j \in Jobs, NEW from, NEW to \in Places, Moves(j, from, to)
  PROVE  pc' \in [Jobs -> {"out", "wait", "woken", "run", "notify", "done"}]
BY DEF TypeOK, Moves, Places

\* A job that goes past the limit's test: Construct's and Recheck's two ways.
LetIn(j, from) ==
  /\ pc[j] = from
  /\ BelowLimit
  /\ messages' = messages \cup {j}
  /\ pc' = [pc EXCEPT ![j] = "run"]
TurnedAway(j, from) ==
  /\ pc[j] = from
  /\ ~BelowLimit
  /\ messages' = messages
  /\ pc' = [pc EXCEPT ![j] = "wait"]

LimitInv == TypeOK /\ Bounded /\ NoLostWakeup

LEMMA LetInInv ==
  ASSUME LimitInv, NEW j \in Jobs, NEW from \in {"out", "woken"}, LetIn(j, from)
  PROVE  LimitInv'
<1>1. TypeOK /\ from # "run" /\ from # "wait" /\ from # "notify"
      /\ Moves(j, from, "run") /\ "run" \in Places /\ kLimit \in Nat
  BY LimitAssumption DEF LimitInv, LetIn, Moves, Places
<1>2. At("run")' = At("run") \cup {j} /\ Cardinality(At("run")') = Cardinality(At("run")) + 1
  BY <1>1, Arrives
<1>3. TypeOK' /\ Cardinality(messages') = Cardinality(messages) + 1
  BY <1>1, <1>2, MovesTyped DEF TypeOK, LetIn
<1>4. At("wait")' = At("wait") /\ At("notify")' = At("notify")
  BY <1>1, Stays
<1>5. Cardinality(At("woken")') >= Cardinality(At("woken")) - 1
  <2>1. Cardinality(At("woken")) \in Nat
    BY Sizes
  <2>2. CASE from = "woken"
    <3>1. Cardinality(At("woken")') = Cardinality(At("woken")) - 1
      BY <1>1, <2>2, Leaves
    <3> QED
      BY <2>1, <3>1
  <2>3. CASE from # "woken"
    <3>1. At("woken")' = At("woken")
      BY <1>1, <2>3, Stays
    <3> QED
      BY <2>1, <3>1
  <2> QED
    BY <2>2, <2>3
<1>6. /\ Cardinality(messages) \in Nat /\ Cardinality(At("notify")) \in Nat
      /\ Cardinality(At("woken")) \in Nat /\ Cardinality(At("woken")') \in Nat
  BY <1>1, Sizes DEF TypeOK
<1>7. Bounded'
  BY <1>1, <1>3, <1>6 DEF Bounded, LetIn, BelowLimit
<1>8. NoLostWakeup'
  BY <1>1, <1>3, <1>4, <1>5, <1>6 DEF LimitInv, NoLostWakeup
<1> QED
  BY <1>3, <1>7, <1>8 DEF LimitInv

LEMMA TurnedAwayInv ==
  ASSUME LimitInv, NEW j \in Jobs, NEW from \in {"out", "woken"}, TurnedAway(j, from)
  PROVE  LimitInv'
<1>1. TypeOK /\ from # "wait" /\ from # "run" /\ Moves(j, from, "wait")
      /\ "wait" \in Places /\ kLimit \in Nat
  BY LimitAssumption DEF LimitInv, TurnedAway, Moves, Places
<1>2. At("run")' = At("run")
  BY <1>1, Stays
<1>3. TypeOK' /\ messages' = messages
  BY <1>1, <1>2, MovesTyped DEF TypeOK, TurnedAway
<1>4. /\ Cardinality(messages) \in Nat /\ Cardinality(At("notify")') \in Nat
      /\ Cardinality(At("woken")') \in Nat
  BY <1>1, Sizes DEF TypeOK
<1>5. Cardinality(messages) > kLimit
  BY <1>1, <1>4 DEF TurnedAway, BelowLimit
<1> QED
  BY <1>1, <1>3, <1>4, <1>5 DEF LimitInv, Bounded, NoLostWakeup

LEMMA NextLimit == LimitInv /\ [Next]_vars => LimitInv'
<1> SUFFICES ASSUME LimitInv, [Next]_vars PROVE LimitInv'
  OBVIOUS
<1>1. TypeOK /\ kLimit \in Nat /\ Cardinality(messages) \in Nat
      /\ Cardinality(At("woken")) \in Nat /\ Cardinality(At("notify")) \in Nat
  BY Sizes, LimitAssumption DEF LimitInv, TypeOK
<1>2. ASSUME NEW j \in Jobs, Construct(j) PROVE LimitInv'
  BY <1>2, LetInInv, TurnedAwayInv DEF Construct, LetIn, TurnedAway
<1>3. ASSUME NEW j \in Jobs, Recheck(j) PROVE LimitInv'
  BY <1>3, LetInInv, TurnedAwayInv DEF Recheck, LetIn, TurnedAway
<1>4. ASSUME NEW j \in Jobs, SpuriousWakeup(j) PROVE LimitInv'
  <2>1. Moves(j, "wait", "woken") /\ messages' = messages /\ "woken" \in Places
    BY <1>4 DEF SpuriousWakeup, Moves, Places
  <2>2. At("run")' = At("run") /\ At("notify")' = At("notify")
    BY <1>1, <2>1, Stays
  <2>3. TypeOK'
    BY <1>1, <2>1, <2>2, MovesTyped DEF TypeOK
  <2>4. Cardinality(At("woken")') = Cardinality(At("woken")) + 1 /\ j \in At("wait")
    BY <1>1, <2>1, Arrives, Leaves
  <2> QED
    BY <1>1, <2>1, <2>2, <2>3, <2>4 DEF LimitInv, Bounded, NoLostWakeup
<1>5. ASSUME NEW j \in Jobs, Destroy(j) PROVE LimitInv'
  <2>1. Moves(j, "run", "notify") /\ messages' = messages \ {j} /\ "notify" \in Places
    BY <1>5 DEF Destroy, Moves, Places
  <2>2. At("run")' = At("run") \ {j} /\ Cardinality(At("run")') = Cardinality(At("run")) - 1
    BY <1>1, <2>1, Leaves
  <2>3. Cardinality(At("notify")') = Cardinality(At("notify")) + 1
    BY <1>1, <2>1, Arrives
  <2>4. At("woken")' = At("woken") /\ At("wait")' = At("wait")
    BY <1>1, <2>1, Stays
  <2>5. TypeOK' /\ Cardinality(messages') = Cardinality(messages) - 1
    BY <1>1, <2>1, <2>2, MovesTyped DEF TypeOK
  <2> QED
    BY <1>1, <2>3, <2>4, <2>5 DEF LimitInv, Bounded, NoLostWakeup
<1>6. ASSUME NEW j \in Jobs, Notify(j) PROVE LimitInv'
  <2>1. ASSUME At("wait") = {}, pc' = [pc EXCEPT ![j] = "done"] PROVE LimitInv'
    <3>1. Moves(j, "notify", "done") /\ messages' = messages /\ "done" \in Places
      BY <1>6, <2>1 DEF Notify, Moves, Places
    <3>2. At("run")' = At("run") /\ At("wait")' = At("wait")
      BY <1>1, <3>1, Stays
    <3>3. TypeOK'
      BY <1>1, <3>1, <3>2, MovesTyped DEF TypeOK
    <3> QED
      BY <2>1, <3>1, <3>2, <3>3 DEF LimitInv, Bounded, NoLostWakeup
  <2>2. ASSUME NEW w \in At("wait"), pc' = [pc EXCEPT ![j] = "done", ![w] = "woken"]
        PROVE  LimitInv'
    <3>1. TypeOK' /\ w \in Jobs
      BY <1>1, <1>6, <2>2 DEF Notify, TypeOK, At
    <3>2. /\ At("woken")' = At("woken") \cup {w} /\ w \notin At("woken")
          /\ At("notify")' = At("notify") \ {j} /\ j \in At("notify")
      BY <1>1, <1>6, <2>2 DEF Notify, TypeOK, At
    <3>3. /\ Cardinality(At("woken")') = Cardinality(At("woken")) + 1
          /\ Cardinality(At("notify")') = Cardinality(At("notify")) - 1
      BY <3>2, Sizes, FS_AddElement, FS_RemoveElement
    <3> QED
      BY <1>1, <1>6, <2>2, <3>1, <3>3 DEF Notify, LimitInv, Bounded, NoLostWakeup
  <2> QED
    BY <1>6, <2>1, <2>2 DEF Notify
<1>7. CASE UNCHANGED vars
  BY <1>7 DEF vars, LimitInv, TypeOK, At, Bounded, NoLostWakeup
<1> QED
  BY <1>2, <1>3, <1>4, <1>5, <1>6, <1>7 DEF Next, Finished

LEMMA InitLimit == Init => LimitInv
<1> SUFFICES ASSUME Init PROVE LimitInv
  OBVIOUS
<1>1. messages = {} /\ At("run") = {} /\ At("wait") = {} /\ TypeOK
  BY DEF Init, TypeOK, At
<1> QED
  BY <1>1, FS_EmptySet, LimitAssumption DEF LimitInv, Bounded, NoLostWakeup

\* messages_ holds a message for every job in scope and for no other.
THEOREM LimitTypeCorrect == Spec => []TypeOK
<1>1. LimitInv => TypeOK
  BY DEF LimitInv
<1> QED
  BY InitLimit, NextLimit, <1>1, PTL DEF Spec

\* ScopedConcurrencyLimit lets at most kLimit + 1 jobs run at once, for any
\* limit and any number of jobs, spurious wake-ups and overtaking included.
THEOREM LimitHolds == Spec => []Bounded
<1>1. LimitInv => Bounded
  BY DEF LimitInv
<1> QED
  BY InitLimit, NextLimit, <1>1, PTL DEF Spec

\* Whoever waits has a wake-up coming for every free place, although
\* notify_one is called after the mutex was given up.
THEOREM NoWakeupIsLost == Spec => []NoLostWakeup
<1>1. LimitInv => NoLostWakeup
  BY DEF LimitInv
<1> QED
  BY InitLimit, NextLimit, <1>1, PTL DEF Spec

-----------------------------------------------------------------------------
(* The limit in the loader.                                                *)

\* Every step of a fetch is one of the limit's, any other leaves it alone.
LEMMA LoadStepsOfLimit == [LoadNext]_allVars => [Next]_vars
<1> SUFFICES ASSUME [LoadNext]_allVars PROVE [Next]_vars
  OBVIOUS
<1>1. ASSUME NEW j \in Jobs, Fetching(j) PROVE Next
  BY <1>1 DEF Fetching, HttpFetch, Next
<1>2. ASSUME NEW j \in Jobs, Spurious(j) PROVE Next
  BY <1>2 DEF Spurious, Next
<1>3. ASSUME NEW j \in Jobs, ParseTrees(j) PROVE UNCHANGED vars
  BY <1>3 DEF ParseTrees
<1>4. ASSUME NEW j \in Jobs, Return(j) PROVE UNCHANGED vars
  BY <1>4 DEF Return
<1>5. ASSUME NEW j \in Jobs, NEW e \in Entries, FileHandler(j, e) PROVE UNCHANGED vars
  BY <1>5 DEF FileHandler
<1>6. CASE Mount
  BY <1>6 DEF Mount
<1>7. CASE Serve \/ UNCHANGED allVars
  BY <1>7 DEF Serve, allVars
<1> QED
  BY <1>1, <1>2, <1>3, <1>4, <1>5, <1>6, <1>7 DEF LoadNext, Thread

\* The loader uses ScopedConcurrencyLimit as a client must: it implements
\* the limit on its own, whichever fetches there are.
THEOREM LoadImplementsLimit == LoadSpec => Spec
<1>1. LoadInit => Init
  BY DEF LoadInit
<1> QED
  BY <1>1, LoadStepsOfLimit, PTL DEF LoadSpec, Spec

\* At most kLimit + 1 curls run during the start, however many trees a
\* truncated answer makes the loader fetch one by one.
THEOREM LoadKeepsLimit == LoadSpec => []Bounded
BY LoadImplementsLimit, LimitHolds, PTL

\* A fetch that waits has a wake-up coming for every free place.
THEOREM LoadLosesNoWakeup == LoadSpec => []NoLostWakeup
BY LoadImplementsLimit, NoWakeupIsLost, PTL

-----------------------------------------------------------------------------
(* The calls.                                                               *)

Steps == {"none", "fetch", "deferred", "add", "join", "done"}
Over == {"done", "deferred"}

\* The locals, and the call tree: who is not past its fetch has started
\* nobody, who returned waited for everybody it started, and Return only
\* looks at calls that will not start again.
Calls ==
  /\ step \in [Jobs -> Steps]
  /\ children \in [Jobs -> SUBSET Jobs]
  /\ \A j \in Jobs :
       /\ step[j] \in {"none", "fetch", "deferred"} => children[j] = {}
       /\ step[j] = "done" => \A k \in children[j] : step[k] \in Over

\* A tree is fetched once: the call for it is not started while its parent
\* did not come to its entry.
Fresh ==
  /\ step[Rec] # "none"
  /\ step[Rec] = "fetch" => step[Single(<<>>)] = "none"
  /\ \A j \in Jobs, e \in Trees :
       /\ ~j.recurse /\ Front(e) = j.tree
       /\ step[j] \in {"none", "fetch", "deferred"} \/ e \in todo[j]
       => step[Single(e)] = "none"

\* The entries of a call that fetches one tree are in that tree.
Todo ==
  /\ todo \in [Jobs -> SUBSET Entries]
  /\ \A j \in Jobs : step[j] # "add" => todo[j] = {}
  /\ \A j \in Jobs : ~j.recurse => \A e \in todo[j] : Front(e) = j.tree

\* A set of calls that nobody leaves by starting somebody.
Closed(S) == Rec \in S /\ \A j \in S : children[j] \subseteq S

\* Whoever was started was started by somebody, and so on up to Rec.
Rooted ==
  \A S \in SUBSET Jobs : Closed(S) => \A j \in Jobs : step[j] # "none" => j \in S

Joined == phase = "mounted" => step[Rec] = "done"

CallInv == Calls /\ Fresh /\ Todo /\ Rooted /\ Joined

LEMMA JobNames ==
  /\ Rec \in Jobs /\ Rec.recurse
  /\ <<>> \notin Trees /\ Trees \subseteq Entries
  /\ \A t \in Trees \cup {<<>>} :
       Single(t) \in Jobs /\ ~Single(t).recurse /\ Single(t).tree = t /\ Single(t) # Rec
  /\ \A j \in Jobs : j # Rec => ~j.recurse /\ j.tree \in Trees \cup {<<>>} /\ j = Single(j.tree)
<1>1. Rec.recurse /\ \A t : ~Single(t).recurse /\ Single(t).tree = t
  BY DEF Rec, Single
<1>2. Rec \in Jobs /\ \A t \in Trees \cup {<<>>} : Single(t) \in Jobs
  BY LoaderAssumption
<1>3. ASSUME NEW j \in Jobs, j # Rec PROVE \E t \in Trees \cup {<<>>} : j = Single(t)
  BY <1>3, LoaderAssumption
<1>4. <<>> \notin Trees /\ Trees \subseteq Entries
  BY LoaderAssumption DEF Entries
<1> QED
  BY <1>1, <1>2, <1>3, <1>4

LEMMA InitCalls == LoadInit => CallInv
<1> SUFFICES ASSUME LoadInit PROVE CallInv
  OBVIOUS
<1>1. Calls /\ Todo /\ Joined
  BY JobNames DEF LoadInit, Calls, Todo, Joined, Steps
<1>2. Fresh
  BY JobNames DEF LoadInit, Fresh
<1>3. Rooted
  BY DEF LoadInit, Rooted, Closed
<1> QED
  BY <1>1, <1>2, <1>3 DEF CallInv

\* A call starts another one: what ParseTrees and FileHandler have in common.
\* It stays closed sets, since the starter is in every one of them.
LEMMA StartRooted ==
  ASSUME CallInv, NEW j \in Jobs, NEW k \in Jobs, step[j] # "none",
         children' = [children EXCEPT ![j] = children[j] \cup {k}],
         \A i \in Jobs : i # k /\ step[i] = "none" => step'[i] = "none"
  PROVE  Rooted'
<1> SUFFICES ASSUME NEW S \in SUBSET Jobs, Closed(S)', NEW i \in Jobs, step'[i] # "none"
             PROVE  i \in S
  BY DEF Rooted
<1>1. \A h \in Jobs : children[h] \subseteq children'[h]
  BY DEF CallInv, Calls
<1>2. Closed(S)
  BY <1>1 DEF Closed
<1>3. j \in S
  BY <1>2 DEF CallInv, Rooted
<1>4. k \in S
  BY <1>3 DEF CallInv, Calls, Closed
<1> QED
  BY <1>2, <1>4 DEF CallInv, Rooted

\* Steps that start nobody.
LEMMA KeptRooted ==
  ASSUME CallInv, UNCHANGED children,
         \A i \in Jobs : step[i] = "none" => step'[i] = "none"
  PROVE  Rooted'
BY DEF CallInv, Rooted, Closed

\* Once the first call has returned, the calls that are over are a closed
\* set, so they are all that were started.
LEMMA AllOver ==
  ASSUME CallInv, step[Rec] = "done", NEW j \in Jobs
  PROVE  step[j] \in Over \cup {"none"}
<1> DEFINE S == {k \in Jobs : step[k] \in Over}
<1>1. Closed(S)
  BY JobNames DEF CallInv, Calls, Closed, Over
<1>2. step[j] # "none" => j \in S
  BY <1>1 DEF CallInv, Rooted
<1> QED
  BY <1>2

LEMMA MountedOver ==
  ASSUME CallInv, NEW j \in Jobs, step[j] \in {"fetch", "add", "join"}
  PROVE  phase # "mounted"
BY AllOver DEF CallInv, Joined, Over

LEMMA ReturnCalls ==
  ASSUME CallInv, NEW j \in Jobs, Return(j)
  PROVE  CallInv'
<1>1. /\ step[j] \in {"add", "join"} /\ todo[j] = {}
      /\ step' = [step EXCEPT ![j] = "done"]
      /\ UNCHANGED <<todo, children, phase>>
  BY DEF Return, CallInv, Todo
<1>2. \A k \in children[j] : step[k] \in Over
  BY DEF Return, Over
<1>3. Calls'
  BY <1>1, <1>2 DEF CallInv, Calls, Steps, Over
<1>4. Fresh'
  BY <1>1, JobNames DEF CallInv, Calls, Fresh
<1>5. Todo'
  BY <1>1 DEF CallInv, Calls, Todo
<1>6. Rooted'
  BY <1>1, KeptRooted DEF CallInv, Calls
<1>7. Joined'
  BY <1>1 DEF CallInv, Calls, Joined
<1> QED
  BY <1>3, <1>4, <1>5, <1>6, <1>7 DEF CallInv

LEMMA ParseTreesCalls ==
  ASSUME CallInv, NEW j \in Jobs, ParseTrees(j)
  PROVE  CallInv'
<1>1. step[j] = "fetch" /\ step \in [Jobs -> Steps] /\ children[j] = {} /\ phase # "mounted"
  BY MountedOver DEF ParseTrees, Running, CallInv, Calls
<1>2. ASSUME j = Rec,
             step' = [step EXCEPT ![j] = "join", ![Single(<<>>)] = "fetch"],
             children' = [children EXCEPT ![j] = {Single(<<>>)}],
             UNCHANGED <<todo, phase>>
      PROVE  CallInv'
  <2>1. /\ step[Single(<<>>)] = "none" /\ Single(<<>>) \in Jobs \ {j}
        /\ \A e \in Trees : Single(e) # j /\ Single(e) # Single(<<>>)
    BY <1>1, <1>2, JobNames DEF CallInv, Fresh
  <2>2. Calls'
    BY <1>1, <1>2, <2>1 DEF CallInv, Calls, Steps, Over
  <2>3. Fresh'
    BY <1>1, <1>2, <2>1, JobNames DEF CallInv, Fresh
  <2>4. Todo'
    BY <1>1, <1>2, <2>1 DEF CallInv, Todo
  <2>5. Rooted'
    BY <1>1, <1>2, <2>1, StartRooted
  <2> QED
    BY <1>1, <1>2, <2>2, <2>3, <2>4, <2>5 DEF CallInv, Joined
<1>3. ASSUME step' = [step EXCEPT ![j] = "add"],
             todo' = [todo EXCEPT ![j] = Answer(j)],
             UNCHANGED <<children, phase>>
      PROVE  CallInv'
  <2>1. Answer(j) \subseteq Entries /\ (~j.recurse => \A e \in Answer(j) : Front(e) = j.tree)
    BY DEF Answer
  <2>2. Calls'
    BY <1>1, <1>3 DEF CallInv, Calls, Steps, Over
  <2>3. Fresh'
    BY <1>1, <1>3, <2>1, JobNames DEF CallInv, Fresh, Todo
  <2>4. Todo'
    BY <1>1, <1>3, <2>1 DEF CallInv, Todo
  <2>5. Rooted'
    BY <1>1, <1>3, KeptRooted
  <2> QED
    BY <1>1, <1>3, <2>2, <2>3, <2>4, <2>5 DEF CallInv, Joined
<1>4. ASSUME phase' = "aborted", UNCHANGED <<step, todo, children>>
      PROVE  CallInv'
  BY <1>4 DEF CallInv, Calls, Fresh, Todo, Rooted, Closed, Joined
<1> QED
  BY <1>2, <1>3, <1>4 DEF ParseTrees

LEMMA FileHandlerCalls ==
  ASSUME CallInv, NEW j \in Jobs, NEW e \in Entries, FileHandler(j, e)
  PROVE  CallInv'
<1>1. /\ step[j] = "add" /\ e \in todo[j] /\ phase' = phase
      /\ todo' = [todo EXCEPT ![j] = @ \ {e}]
  BY DEF FileHandler, Running
<1>2. phase # "mounted"
  BY <1>1, MountedOver
<1>3. CASE UNCHANGED <<step, children>>
  <2>1. Calls' /\ Fresh' /\ Todo' /\ Joined'
    BY <1>1, <1>3 DEF CallInv, Calls, Fresh, Todo, Joined
  <2>2. Rooted'
    BY <1>3, KeptRooted
  <2> QED
    BY <2>1, <2>2 DEF CallInv
<1>4. CASE e \in Trees /\ ~j.recurse /\ Start(j, e)
  <2> DEFINE k == Single(e)
  <2>1. PICK s \in {"fetch", "deferred"} : step' = [step EXCEPT ![k] = s]
    BY <1>4 DEF Start
  <2>2. children' = [children EXCEPT ![j] = children[j] \cup {k}]
    BY <1>4 DEF Start
  <2>3. /\ step[k] = "none" /\ k \in Jobs /\ k # j /\ k # Rec /\ k # Single(<<>>)
        /\ Front(e) = j.tree
    BY <1>1, <1>4, JobNames DEF CallInv, Fresh, Todo
  <2>4. Calls'
    BY <2>1, <2>2, <2>3, <1>1 DEF CallInv, Calls, Steps, Over
  <2>5. ASSUME NEW i \in Jobs, NEW f \in Trees, ~i.recurse, Front(f) = i.tree,
               step'[i] \in {"none", "fetch", "deferred"} \/ f \in todo'[i]
        PROVE  step'[Single(f)] = "none"
    <3>1. step[i] \in {"none", "fetch", "deferred"} \/ f \in todo[i]
      BY <2>1, <2>3, <2>5, <1>1 DEF CallInv, Calls, Todo
    <3>2. step[Single(f)] = "none"
      BY <2>5, <3>1 DEF CallInv, Fresh
    <3>3. f # e
      <4> SUFFICES ASSUME f = e PROVE FALSE
        OBVIOUS
      <4>1. i = j
        BY <2>3, <2>5, <1>4, JobNames
      <4>2. e \notin todo'[j] /\ step'[j] = "add"
        BY <1>1, <2>1, <2>3 DEF CallInv, Calls, Todo
      <4> QED
        BY <2>5, <4>1, <4>2
    <3>4. Single(f) # k
      BY <3>3, <2>5, <1>4, JobNames
    <3> QED
      BY <2>1, <3>2, <3>4, JobNames DEF CallInv, Calls
  <2>6. Fresh'
    BY <2>1, <2>3, <2>5, JobNames DEF CallInv, Calls, Fresh
  <2>7. Todo'
    BY <2>1, <2>3, <1>1 DEF CallInv, Calls, Todo
  <2>8. Rooted'
    BY <1>1, <2>1, <2>2, <2>3, StartRooted DEF CallInv, Calls
  <2> QED
    BY <1>1, <1>2, <2>4, <2>6, <2>7, <2>8 DEF CallInv, Joined
<1> QED
  BY <1>3, <1>4 DEF FileHandler

LEMMA NextCalls == CallInv /\ [LoadNext]_allVars => CallInv'
<1> SUFFICES ASSUME CallInv, [LoadNext]_allVars PROVE CallInv'
  OBVIOUS
<1>1. ASSUME UNCHANGED loaderVars PROVE CallInv'
  BY <1>1 DEF loaderVars, CallInv, Calls, Fresh, Todo, Rooted, Closed, Joined
<1>2. ASSUME NEW j \in Jobs, Thread(j) \/ Spurious(j) PROVE CallInv'
  BY <1>1, <1>2, ParseTreesCalls, ReturnCalls, FileHandlerCalls
  DEF Thread, Fetching, Spurious
<1>3. CASE Mount
  BY <1>3 DEF Mount, CallInv, Calls, Fresh, Todo, Rooted, Closed, Joined
<1>4. CASE Serve \/ UNCHANGED allVars
  BY <1>1, <1>4 DEF Serve, allVars, loaderVars
<1> QED
  BY <1>2, <1>3, <1>4 DEF LoadNext

\* Nothing is added to the container once it is mounted, and no fetch is
\* left: every call waits for the calls it started, so the constructor
\* returns last, whatever trees there are and however deep they nest.
THEOREM ServedTreeIsFrozen == LoadSpec => ServedIsFrozen
<1>1. ASSUME CallInv, [LoadNext]_allVars, phase = "mounted"
      PROVE  UNCHANGED <<containerVars, vars>>
  <2>1. \A j \in Jobs : step[j] \in Over \cup {"none"}
    BY <1>1, AllOver DEF CallInv, Joined
  <2>2. \A j \in Jobs : ~Thread(j) /\ ~Spurious(j)
    BY <2>1 DEF Over, Thread, Fetching, HttpFetch, Spurious, ParseTrees, Return, FileHandler, Running
  <2> QED
    BY <1>1, <2>2 DEF LoadNext, Mount, Serve, allVars
<1> QED
  BY <1>1, InitCalls, NextCalls, PTL DEF LoadSpec, ServedIsFrozen

-----------------------------------------------------------------------------
(* The container.                                                           *)

LEMMA OneName ==
  ASSUME NEW S, NEW name \in S
  PROVE  <<name>> \in Seq(S) \ {<<>>} /\ Len(<<name>>) = 1
OBVIOUS

\* MaybeCreateParentDir creates no directory that is there.
LEMMA MissingIsNew ==
  ASSUME NEW path \in Seq(STRING) \ {<<>>}, NEW q \in Missing(DirName(path))
  PROVE  q \notin DOMAIN files
<1>1. DirName(path) \in Seq(STRING)
  BY SubSeqProperties DEF DirName, Front
<1>2. PICK n \in 0 .. Len(DirName(path)) : q = SubSeq(DirName(path), 1, n)
  BY DEF Missing, Prefixes
<1>3. q \in Seq(STRING)
  BY <1>1, <1>2, SubSeqProperties
<1>4. Len(q) >= Len(q)
  BY <1>3
<1> QED
  BY <1>4 DEF Missing

\* DirectoryContainer::add enters the object, and only what had its path is
\* replaced.
LEMMA AddEnters ==
  ASSUME NEW path \in Seq(STRING) \ {<<>>}, NEW o, Add(path, o)
  PROVE  /\ path \in DOMAIN files' /\ Get(path)' = o
         /\ \A p \in DOMAIN files \ {path} : p \in DOMAIN files' /\ Get(p)' = Get(p)
<1> DEFINE new == Missing(DirName(path))
           known == [q \in DOMAIN files \cup new |-> IF q \in new THEN AutoCreated(q) ELSE files[q]]
<1>1. files' = [q \in DOMAIN known \cup {path} |-> IF q = path THEN o ELSE known[q]]
  BY DEF Add
<1>2. path \in DOMAIN files' /\ files'[path] = o
  BY <1>1
<1>3. ASSUME NEW p \in DOMAIN files, p # path
      PROVE  p \in DOMAIN files' /\ files'[p] = files[p]
  <2>1. p \notin new
    BY MissingIsNew
  <2> QED
    BY <1>1, <1>3, <2>1
<1> QED
  BY <1>2, <1>3 DEF Get

\* The recursive answer is the only one, unless it is truncated.
Alone ==
  ~truncated =>
    /\ step[Rec] # "join"
    /\ \A j \in Jobs \ {Rec} : step[j] = "none"

\* The entries that Rec's call has handled are in the container.
Entered ==
  ~truncated =>
    \A e \in Entries :
      step[Rec] \in {"add", "done"} /\ e \notin todo[Rec] =>
        e \in DOMAIN files /\ Get(e) = Object(e \in Trees, <<"entry", e>>)

CompleteInv == CallInv /\ Alone /\ Entered

\* Steps that enter nothing.
LEMMA KeptEntered ==
  ASSUME Entered, UNCHANGED <<files, truncated>>,
         ~truncated => /\ UNCHANGED todo
                       /\ step'[Rec] \in {"add", "done"} => step[Rec] \in {"add", "done"}
  PROVE  Entered'
BY DEF Entered, Get

LEMMA InitComplete == LoadInit => CompleteInv
<1> SUFFICES ASSUME LoadInit PROVE CompleteInv
  OBVIOUS
<1> QED
  BY InitCalls, JobNames DEF LoadInit, CompleteInv, Alone, Entered

LEMMA NextComplete == CompleteInv /\ [LoadNext]_allVars => CompleteInv'
<1> SUFFICES ASSUME CompleteInv, [LoadNext]_allVars PROVE Alone' /\ Entered'
  BY NextCalls DEF CompleteInv
<1> USE DEF CompleteInv
<1>1. ASSUME UNCHANGED loaderVars, UNCHANGED containerVars PROVE Alone' /\ Entered'
  BY <1>1, KeptEntered DEF loaderVars, containerVars, Alone
<1>2. ASSUME NEW j \in Jobs, ParseTrees(j) PROVE Alone' /\ Entered'
  <2>1. ~truncated => j = Rec /\ step[Rec] = "fetch"
    BY <1>2 DEF ParseTrees, Running, Alone
  <2>2. CASE truncated
    BY <1>2, <2>2 DEF ParseTrees, Alone, Entered
  <2>3. CASE ~truncated /\ phase' = "aborted" /\ UNCHANGED <<step, todo>>
    BY <1>2, <2>3, KeptEntered DEF ParseTrees, Alone, containerVars
  <2>4. CASE /\ ~truncated
             /\ step' = [step EXCEPT ![j] = "add"]
             /\ todo' = [todo EXCEPT ![j] = Answer(j)]
    BY <1>2, <2>1, <2>4, JobNames
    DEF ParseTrees, Alone, Entered, Answer, CallInv, Calls, Todo
  <2> QED
    BY <1>2, <2>2, <2>3, <2>4 DEF ParseTrees
<1>3. ASSUME NEW j \in Jobs, Return(j) PROVE Alone' /\ Entered'
  <2>1. ~truncated => j = Rec /\ step[Rec] = "add"
    BY <1>3 DEF Return, Alone
  <2> QED
    BY <1>3, <2>1, KeptEntered DEF Return, Alone, CallInv, Calls, containerVars
<1>4. ASSUME NEW j \in Jobs, NEW e \in Entries, FileHandler(j, e) PROVE Alone' /\ Entered'
  <2>1. ~truncated => j = Rec /\ step[Rec] = "add"
    BY <1>4 DEF FileHandler, Running, Alone
  <2>2. CASE truncated
    BY <1>4, <2>2 DEF FileHandler, Alone, Entered
  <2>3. CASE ~truncated
    <3>1. /\ j = Rec /\ UNCHANGED <<step, truncated>>
          /\ todo' = [todo EXCEPT ![Rec] = @ \ {e}]
          /\ Add(e, Object(e \in Trees, <<"entry", e>>))
      BY <1>4, <2>1, <2>3, JobNames DEF FileHandler, SlashPath
    <3>2. Get(e)' = Object(e \in Trees, <<"entry", e>>) /\ e \in DOMAIN files'
      BY <3>1, AddEnters, LoaderAssumption
    <3>3. ASSUME NEW f \in Entries \ {e}, f \notin todo'[Rec]
          PROVE  f \in DOMAIN files' /\ Get(f)' = Object(f \in Trees, <<"entry", f>>)
      <4>1. f \notin todo[Rec]
        BY <3>1, <3>3, JobNames DEF CallInv, Todo
      <4>2. f \in DOMAIN files /\ Get(f) = Object(f \in Trees, <<"entry", f>>)
        BY <2>1, <2>3, <4>1 DEF Entered
      <4> QED
        BY <3>1, <4>2, AddEnters, LoaderAssumption
    <3>4. Entered'
      <4> SUFFICES ASSUME NEW f \in Entries, f \notin todo'[Rec]
                   PROVE  f \in DOMAIN files' /\ Get(f)' = Object(f \in Trees, <<"entry", f>>)
        BY DEF Entered
      <4> QED
        BY <3>2, <3>3
    <3> QED
      BY <3>1, <3>4 DEF Alone
  <2> QED
    BY <2>2, <2>3
<1>5. CASE Mount
  <2>1. /\ UNCHANGED <<step, todo, truncated>>
        /\ Add(<<Status>>, Object(FALSE, <<"status", <<>>>>))
    BY <1>5 DEF Mount
  <2>2. <<Status>> \in Seq(STRING) \ {<<>>} /\ Last(<<Status>>) = Status
    <3>1. Status \in STRING
      BY LoaderAssumption
    <3> QED
      BY <3>1, OneName DEF Last
  <2>3. \A e \in Entries : e # <<Status>>
    BY <2>2, LoaderAssumption
  <2>4. \A e \in Entries \cap DOMAIN files : e \in DOMAIN files' /\ Get(e)' = Get(e)
    BY <2>1, <2>2, <2>3, AddEnters
  <2> QED
    BY <2>1, <2>4 DEF Alone, Entered
<1>6. CASE Serve \/ UNCHANGED allVars
  BY <1>1, <1>6 DEF Serve, allVars, loaderVars, containerVars
<1> QED
  BY <1>1, <1>2, <1>3, <1>4, <1>5, <1>6 DEF LoadNext, Thread, Fetching, Spurious

\* Whatever the repository is and in whichever order its entries come, all of
\* them are served at their paths when GitHub could list them at once: an
\* auto-created directory is replaced by the listed one, no entry by another.
THEOREM ListedIsServed == LoadSpec => []Complete
<1>1. CompleteInv => Complete
  BY JobNames DEF CompleteInv, CallInv, Joined, Todo, Entered, Complete
<1> QED
  BY InitComplete, NextComplete, <1>1, PTL DEF LoadSpec
-----------------------------------------------------------------------------
(* One tree.                                                               *)

EntryObject(e) == Object(e \in Trees, <<"entry", e>>)

\* Every object below the root is that of an entry: at the entry's own path
\* and after the call has passed it, or, when the trees are fetched one by one,
\* directly at the root by the entry's last name.
PlacedAt(q, e) ==
  /\ files[q] = EntryObject(e)
  /\ truncated => Front(q) = <<>> /\ Last(q) = Last(e)
  /\ ~truncated => q = e /\ step[Rec] # "fetch" /\ e \notin todo[Rec]

Placed == phase # "mounted" => \A q \in Inner : \E e \in Entries : PlacedAt(q, e)

OneAnswer == truncated => step[Rec] # "add"

ServedInv == CompleteInv /\ Tree /\ OneAnswer /\ Placed

\* What is added is an object of its own.
StatusObject == Object(FALSE, <<"status", <<>>>>)

LEMMA EntryObjects ==
  /\ \A e : /\ EntryObject(e) # Null /\ EntryObject(e) # root_ /\ EntryObject(e) # StatusObject
           /\ EntryObject(e).dir = (e \in Trees)
  /\ \A e, q : EntryObject(e) # AutoCreated(q)
  /\ \A e, f : EntryObject(e) = EntryObject(f) => e = f
  /\ StatusObject # Null /\ StatusObject # root_ /\ \A q : StatusObject # AutoCreated(q)
<1>1. \A e : /\ EntryObject(e).made[1] = "entry" /\ EntryObject(e).made[2] = e
            /\ EntryObject(e).dir = (e \in Trees)
  BY DEF EntryObject, Object
<1>2. /\ Null.made[1] = "null" /\ root_.made[1] = "root" /\ StatusObject.made[1] = "status"
      /\ \A q : AutoCreated(q).made[1] = "auto"
  BY DEF Object, Null, root_, AutoCreated, StatusObject
<1>3. \A e : EntryObject(e) # Null /\ EntryObject(e) # root_ /\ EntryObject(e) # StatusObject
  BY <1>1, <1>2
<1>4. \A e, q : EntryObject(e) # AutoCreated(q)
  BY <1>1, <1>2
<1>5. \A e, f : EntryObject(e) = EntryObject(f) => e = f
  BY <1>1
<1>6. StatusObject # Null /\ StatusObject # root_ /\ \A q : StatusObject # AutoCreated(q)
  BY <1>2
<1> QED
  BY <1>1, <1>3, <1>4, <1>5, <1>6, Zenon

LEMMA AtRoot ==
  ASSUME NEW name \in STRING
  PROVE  <<name>> \in Paths \ {<<>>} /\ Front(<<name>>) = <<>> /\ Last(<<name>>) = name
<1>1. <<name>> \in Paths \ {<<>>} /\ Len(<<name>>) = 1 /\ <<name>>[1] = name
  BY OneName DEF Paths
<1>2. Front(<<name>>) = SubSeq(<<name>>, 1, 0)
  BY <1>1 DEF Front
<1> QED
  BY <1>1, <1>2, SubSeqEmpty DEF Last

\* The handler of an entry finds the directory it goes into.
LEMMA EntryAdded ==
  ASSUME ServedInv, NEW j \in Jobs, NEW e \in Entries, FileHandler(j, e)
  PROVE  Tree' /\ Placed'
<1> DEFINE path == SlashPath(j, e)
           o == EntryObject(e)
<1>1. /\ step[j] = "add" /\ e \in todo[j] /\ Front(e) \notin todo[j] /\ Add(path, o)
      /\ todo' = [todo EXCEPT ![j] = @ \ {e}] /\ UNCHANGED <<truncated, phase>>
  BY DEF FileHandler, Running, EntryObject
<1>2. /\ phase # "mounted" /\ CallInv /\ Tree /\ Alone /\ Entered
      /\ \A q \in Inner : \E f \in Entries : PlacedAt(q, f)
  BY <1>1, MountedOver DEF ServedInv, CompleteInv, Placed
<1>3. e \in Paths \ {<<>>} /\ Last(e) \in STRING
  BY LoaderAssumption, FrontLast DEF Paths
<1>4. ASSUME NEW q \in Inner
      PROVE  q \in Paths \ {<<>>} /\ q \in DOMAIN files /\ Front(q) \in DOMAIN files
  BY <1>2, InnerPaths
<1>5. /\ o # Null /\ (\A q \in Paths : o # AutoCreated(q)) /\ o # root_
      /\ \A f : EntryObject(f) = o => f = e
  BY EntryObjects
<1>6. CASE truncated
  <2>1. j # Rec /\ ~j.recurse
    BY <1>1, <1>6, JobNames DEF ServedInv, OneAnswer
  <2>2. path = <<Last(e)>>
    BY <2>1 DEF SlashPath
  <2> HIDE DEF path
  <2>3. path \in Paths \ {<<>>} /\ Front(path) = <<>> /\ Last(path) = Last(e)
    BY <1>3, <2>2, AtRoot
  <2>4. <<>> \in DOMAIN files /\ files[<<>>] = root_ /\ root_.dir
    BY <1>2 DEF Tree, root_, Object
  <2>5. \A q \in Inner : Front(q) = <<>> /\ Front(q) # path
    BY <1>2, <1>6, <2>3 DEF PlacedAt
  <2>6. ASSUME NEW q \in DOMAIN files \ {path} PROVE files[q] # o
    <3>1. CASE q = <<>>
      BY <1>5, <2>4, <3>1
    <3>2. CASE q # <<>>
      <4>1. q \in Inner
        BY <3>2 DEF Inner
      <4>2. PICK f \in Entries : PlacedAt(q, f)
        BY <1>2, <4>1
      <4>3. files[q] = o => f = e
        BY <1>5, <4>2 DEF PlacedAt
      <4>4. f = e => q = path
        BY <1>4, <1>6, <2>3, <4>1, <4>2, SamePath DEF PlacedAt
      <4> QED
        BY <4>3, <4>4
    <3> QED
      BY <3>1, <3>2
  <2>7. /\ Tree'
        /\ DOMAIN files' = DOMAIN files \cup {path} /\ files'[path] = o
        /\ \A q \in DOMAIN files \ {path} : files'[q] = files[q]
    BY <1>1, <1>2, <1>5, <2>3, <2>4, <2>5, <2>6, AddBelow
  <2>8. ASSUME NEW q \in Inner' PROVE \E f \in Entries : PlacedAt(q, f)'
    <3>1. CASE q = path
      BY <1>1, <1>6, <2>3, <2>7, <3>1 DEF PlacedAt
    <3>2. CASE q # path
      <4>1. q \in Inner /\ files'[q] = files[q]
        BY <2>7, <3>2 DEF Inner
      <4> QED
        BY <1>1, <1>2, <1>6, <4>1 DEF PlacedAt
    <3> QED
      BY <3>1, <3>2
  <2> QED
    BY <2>7, <2>8 DEF Placed
<1>7. CASE ~truncated
  <2>1. j = Rec /\ j.recurse
    BY <1>1, <1>2, <1>7, JobNames DEF Alone
  <2>2. path = e /\ step' = step
    BY <2>1 DEF SlashPath, FileHandler
  <2> HIDE DEF path
  <2>3. e \notin DOMAIN files
    BY <1>1, <1>2, <1>3, <1>7, <2>1 DEF PlacedAt, Inner
  <2>4. Front(e) \in DOMAIN files /\ files[Front(e)].dir
    <3>1. Front(e) \in Trees \cup {<<>>}
      BY LoaderAssumption
    <3>2. CASE Front(e) = <<>>
      BY <1>2, <3>2 DEF Tree, root_, Object
    <3>3. CASE Front(e) \in Trees
      <4>1. Get(Front(e)) = EntryObject(Front(e))
            /\ Front(e) \in DOMAIN files
        BY <1>1, <1>2, <1>7, <2>1, <3>3 DEF Entered, Entries, EntryObject
      <4>2. files[Front(e)].dir = (Front(e) \in Trees)
        BY <4>1, EntryObjects DEF Get
      <4> QED
        BY <3>3, <4>1, <4>2
    <3> QED
      BY <3>1, <3>2, <3>3
  <2>5. \A q \in Inner : Front(q) # e
    BY <1>4, <2>3
  <2>6. ASSUME NEW q \in DOMAIN files PROVE files[q] # o
    <3>1. CASE q = <<>>
      BY <1>2, <1>5, <3>1 DEF Tree
    <3>2. CASE q # <<>>
      <4>1. q \in Inner
        BY <3>2 DEF Inner
      <4>2. PICK f \in Entries : PlacedAt(q, f)
        BY <1>2, <4>1
      <4> QED
        BY <1>5, <1>7, <2>3, <4>2 DEF PlacedAt
    <3> QED
      BY <3>1, <3>2
  <2>7. /\ Tree'
        /\ DOMAIN files' = DOMAIN files \cup {e} /\ files'[e] = o
        /\ \A q \in DOMAIN files \ {e} : files'[q] = files[q]
    BY <1>1, <1>2, <1>3, <1>5, <2>2, <2>4, <2>5, <2>6, AddBelow
  <2>8. e \notin todo'[Rec] /\ todo'[Rec] \subseteq todo[Rec] /\ step'[Rec] = "add"
    BY <1>1, <1>2, <2>1, <2>2, JobNames DEF CallInv, Todo
  <2>9. ASSUME NEW q \in Inner' PROVE \E f \in Entries : PlacedAt(q, f)'
    <3>1. CASE q = e
      BY <1>1, <1>7, <2>7, <2>8, <3>1 DEF PlacedAt
    <3>2. CASE q # e
      <4>1. q \in Inner /\ files'[q] = files[q]
        BY <2>7, <3>2 DEF Inner
      <4> QED
        BY <1>1, <1>2, <1>7, <2>8, <4>1 DEF PlacedAt
    <3> QED
      BY <3>1, <3>2
  <2> QED
    BY <2>7, <2>9 DEF Placed
<1> QED
  BY <1>6, <1>7

\* The status file is the only one of its name.
LEMMA StatusAdded ==
  ASSUME ServedInv, Mount
  PROVE  Tree' /\ Placed'
<1> DEFINE path == <<Status>>
           o == StatusObject
<1>1. phase = "load" /\ phase' = "mounted" /\ Add(path, o) /\ Tree
  BY DEF Mount, ServedInv, StatusObject
<1>2. path \in Paths \ {<<>>} /\ Front(path) = <<>> /\ Last(path) = Status
  <2>1. Status \in STRING
    BY LoaderAssumption
  <2> QED
    BY <2>1, AtRoot
<1> HIDE DEF path
<1>3. <<>> \in DOMAIN files /\ files[<<>>] = root_ /\ root_.dir
  BY <1>1 DEF Tree, root_, Object
<1>4. /\ o # Null /\ (\A q \in Paths : o # AutoCreated(q)) /\ o # root_
      /\ \A f : EntryObject(f) # o
  BY EntryObjects
<1>5. ASSUME NEW q \in Inner PROVE q # path /\ files[q] # o
  <2>1. PICK e \in Entries : PlacedAt(q, e)
    BY <1>1 DEF ServedInv, Placed
  <2>2. Last(q) = Last(e)
    BY <2>1 DEF PlacedAt
  <2> QED
    BY <1>2, <1>4, <2>1, <2>2, LoaderAssumption DEF PlacedAt
<1>6. \A q \in Inner : Front(q) # path
  BY <1>1, <1>2, <1>5, InnerPaths DEF Inner
<1>7. \A q \in DOMAIN files : files[q] # o
  BY <1>3, <1>4, <1>5 DEF Inner
<1>8. Tree'
  BY <1>1, <1>2, <1>3, <1>4, <1>6, <1>7, AddBelow
<1> QED
  BY <1>1, <1>8 DEF Placed

LEMMA NextServed == ServedInv /\ [LoadNext]_allVars => ServedInv'
<1> SUFFICES ASSUME ServedInv, [LoadNext]_allVars PROVE ServedInv'
  OBVIOUS
<1>1. CompleteInv'
  BY NextComplete DEF ServedInv
<1>2. ASSUME UNCHANGED containerVars, UNCHANGED truncated,
             phase = "mounted" => phase' = "mounted",
             step'[Rec] # "none",
             step'[Rec] = "fetch" => step[Rec] = "fetch",
             ~truncated => step[Rec] = "fetch" \/ todo'[Rec] = todo[Rec],
             truncated => step'[Rec] # "add"
      PROVE  ServedInv'
  <2>1. files' = files /\ links' = links
    BY <1>2 DEF containerVars
  <2>2. Tree'
    BY <2>1 DEF ServedInv, Tree, Inner, PrefixClosed, Linked, Distinct
  <2>3. ASSUME phase # "mounted", NEW q \in Inner PROVE \E e \in Entries : PlacedAt(q, e)'
    <3>1. PICK e \in Entries : PlacedAt(q, e)
      BY <2>3 DEF ServedInv, Placed
    <3>2. PlacedAt(q, e)'
      BY <1>2, <2>1, <3>1 DEF PlacedAt
    <3> QED
      BY <3>2
  <2>4. Placed'
    BY <1>2, <2>1, <2>3 DEF Placed, Inner
  <2> QED
    BY <1>1, <1>2, <2>2, <2>4 DEF ServedInv, OneAnswer
<1>3. ASSUME UNCHANGED loaderVars, UNCHANGED containerVars PROVE ServedInv'
  BY <1>2, <1>3 DEF loaderVars, ServedInv, OneAnswer, CompleteInv, CallInv, Fresh
<1>4. ASSUME NEW j \in Jobs, ParseTrees(j) PROVE ServedInv'
  BY <1>2, <1>4, JobNames, MountedOver
  DEF ParseTrees, Running, ServedInv, OneAnswer, CompleteInv, CallInv, Calls, Todo, Alone, Fresh
<1>5. ASSUME NEW j \in Jobs, Return(j) PROVE ServedInv'
  BY <1>2, <1>5, JobNames
  DEF Return, ServedInv, OneAnswer, CompleteInv, CallInv, Calls, Fresh
<1>6. ASSUME NEW j \in Jobs, NEW e \in Entries, FileHandler(j, e) PROVE ServedInv'
  <2>1. OneAnswer'
    BY <1>6, JobNames
    DEF FileHandler, Start, ServedInv, OneAnswer, CompleteInv, CallInv, Calls
  <2> QED
    BY <1>1, <1>6, <2>1, EntryAdded DEF ServedInv
<1>7. CASE Mount
  <2>1. OneAnswer'
    BY <1>7 DEF Mount, ServedInv, OneAnswer
  <2> QED
    BY <1>1, <1>7, <2>1, StatusAdded DEF ServedInv
<1>8. CASE Serve \/ UNCHANGED allVars
  BY <1>3, <1>8 DEF Serve, allVars, loaderVars, containerVars
<1> QED
  BY <1>3, <1>4, <1>5, <1>6, <1>7, <1>8 DEF LoadNext, Thread, Fetching, Spurious

\* Truncated or not, and in whatever order the calls add: what is served is one
\* tree, in which every path leads to the object looked up, and a directory lists
\* what is below it.  An entry that replaces another one of its name has taken
\* no children from it.
THEOREM LoadedIsATree == LoadSpec => []TreeAgrees
<1>1. LoadInit => ServedInv
  <2> SUFFICES ASSUME LoadInit PROVE ServedInv
    OBVIOUS
  <2>1. Tree /\ Inner = {}
    BY NewTree DEF LoadInit, ContainerInit, Inner
  <2>2. OneAnswer
    BY JobNames DEF LoadInit, OneAnswer
  <2> QED
    BY <2>1, <2>2, InitComplete DEF ServedInv, Placed
<1>2. ServedInv => TreeAgrees
  BY TreeIsServed DEF ServedInv
<1> QED
  BY <1>1, <1>2, NextServed, PTL DEF LoadSpec
=============================================================================
