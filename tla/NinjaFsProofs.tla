----------------------------- MODULE NinjaFsProofs -----------------------------
(***************************************************************************)
(* For every build graph, any number of targets and of threads of libfuse, *)
(* and any number of builds: a read returns a whole file, a failure is in  *)
(* the log, and the daemon dies for the reasons DiesOnlyFor has only.  If  *)
(* no target has the name of a directory of another one, the targets,      *)
(* listed in any order, are served as one tree.                            *)
(***************************************************************************)
EXTENDS NinjaFs, DirectoryContainerProofs

Pcs == {"idle", "test", "lock", "global", "build", "log", "file", "copy", "return"}

\* Where a handler has the target's mutex, and the one of all builds.
HasTarget == {"global", "build", "log", "file"}
HasGlobal == {"build", "log", "file"}

WorkerState ==
  [pc : Pcs, op : {"none", "getattr", "open", "read"}, target : Targets \cup {<<>>},
   build : Nat, writes : SUBSET Targets, ok : BOOLEAN,
   result : {"none", "estimate", "ok", "EIO", "null", "empty", "whole"}]

Typed ==
  /\ worker \in [Workers -> WorkerState]
  /\ buf_ \in [Targets -> {"null", "empty", "whole"}]
  /\ mutex_ \in [Targets -> Workers \cup {Free}]
  /\ global_ninja_mutex \in Workers \cup {Free}
  /\ log_ \in Nat /\ builds \in Nat /\ log_ <= builds
  /\ built \in SUBSET Targets
  /\ handles \in [Targets -> Nat]

\* What a handler may count on where it is: its mutexes, its target's buffer,
\* which only grows from null by the hands of the one that holds the mutex,
\* and its build, which is the last that was started.
Sane(w) ==
  LET pc == worker[w].pc
      op == worker[w].op
      t == worker[w].target
  IN /\ pc # "idle" => t \in Targets
     /\ pc \in {"test", "copy"} => op = "read"
     /\ pc = "lock" => op \in {"getattr", "open"}
     /\ pc \in HasTarget => op = "open" /\ mutex_[t] = w
     /\ pc \in HasGlobal => global_ninja_mutex = w /\ worker[w].build = builds
     /\ pc \in {"global", "build", "log"} => buf_[t] = "null"
     /\ pc = "build" => t \in built \cup worker[w].writes
     /\ pc = "file" \/ (pc = "log" /\ worker[w].ok) => t \in built
     /\ pc # "idle" /\ op = "read" => buf_[t] = "whole"
     /\ pc = "return" /\ op = "read" => worker[w].result = "whole"
     /\ pc = "return" /\ op = "open" /\ worker[w].result = "ok" => buf_[t] = "whole"
     /\ pc = "return" /\ op = "open" /\ worker[w].result = "EIO" => log_ >= worker[w].build

\* An empty buffer is that of a handler about to fill it, and what is open
\* has a buffer with all of the file.
Buffers ==
  \A t \in Targets :
    /\ buf_[t] = "empty" => /\ mutex_[t] \in Workers
                            /\ worker[mutex_[t]].pc = "file" /\ worker[mutex_[t]].target = t
    /\ handles[t] > 0 => buf_[t] = "whole"

\* Nothing was built and nobody called before the mount.
Ends ==
  /\ DiesOnlyFor
  /\ ninjaPhase = "load" => builds = 0 /\ \A w \in Workers : worker[w].pc = "idle"

Inv == Typed /\ Buffers /\ (\A w \in Workers : Sane(w)) /\ Ends

\* A step of worker w leaves the others where they are.
Steps(w, p) ==
  /\ worker' \in [Workers -> WorkerState]
  /\ worker'[w].pc = p /\ worker'[w].op = worker[w].op
  /\ worker'[w].target = worker[w].target
  /\ \A u \in Workers \ {w} : worker'[u] = worker[u]

LEMMA RestingTyped == Resting \in WorkerState /\ Resting.pc = "idle"
BY DEF Resting, WorkerState, Pcs

LEMMA InitInv == NinjaInit => Inv
<1> SUFFICES ASSUME NinjaInit PROVE Inv
  OBVIOUS
<1>1. Typed /\ Buffers /\ Ends
  BY RestingTyped DEF NinjaInit, NothingOpen, Typed, Buffers, Ends, DiesOnlyFor
<1>2. \A w \in Workers : Sane(w)
  BY RestingTyped DEF NinjaInit, NothingOpen, Sane, HasTarget, HasGlobal, Resting
<1> QED
  BY <1>1, <1>2 DEF Inv

LEMMA AnswerSteps ==
  ASSUME Inv, NEW w \in Workers,
         NEW result \in {"estimate", "ok", "EIO", "null", "empty", "whole"},
         Answer(w, result)
  PROVE  /\ Steps(w, "return") /\ worker'[w].result = result
         /\ worker'[w].build = worker[w].build
<1>1. worker \in [Workers -> WorkerState]
  BY DEF Inv, Typed
<1>2. [worker[w] EXCEPT !.pc = "return", !.result = result] \in WorkerState
  BY <1>1 DEF WorkerState, Pcs
<1>3. worker' = [worker EXCEPT ![w] = [worker[w] EXCEPT !.pc = "return", !.result = result]]
  BY <1>1 DEF Answer, WorkerState
<1> QED
  BY <1>1, <1>2, <1>3 DEF Steps, WorkerState

LEMMA GotoSteps ==
  ASSUME Inv, NEW w \in Workers, NEW p \in Pcs, worker' = [worker EXCEPT ![w].pc = p]
  PROVE  /\ Steps(w, p) /\ worker'[w].build = worker[w].build
         /\ worker'[w].result = worker[w].result
<1>1. worker \in [Workers -> WorkerState]
  BY DEF Inv, Typed
<1>2. [worker[w] EXCEPT !.pc = p] \in WorkerState
  BY <1>1 DEF WorkerState, Pcs
<1> QED
  BY <1>1, <1>2 DEF Steps, WorkerState

LEMMA PhaseKept ==
  ASSUME ninjaPhase = "serving", UNCHANGED ninjaPhase
  PROVE  Ends'
BY DEF Ends, DiesOnlyFor

LEMMA LockTargetInv ==
  ASSUME Inv, NEW w \in Workers, LockTarget(w)
  PROVE  Inv'
<1> DEFINE t == worker[w].target
<1>1. /\ worker[w].pc = "lock" /\ t \in Targets /\ mutex_[t] = Free /\ buf_[t] # "empty"
      /\ worker[w].op \in {"getattr", "open"} /\ Ends'
  BY PhaseKept, NinjaAssumption DEF LockTarget, AtNinja, Target, Inv, Sane, Buffers
<1>2. UNCHANGED <<buf_, global_ninja_mutex, log_, built, builds, handles>>
  BY DEF LockTarget
<1>3. ASSUME NEW result \in {"estimate", "ok", "null", "whole"}, Answer(w, result),
             UNCHANGED mutex_, worker[w].op = "getattr" \/ buf_[t] = "whole"
      PROVE  Inv'
  <2>1. Steps(w, "return") /\ worker'[w].result = result
    BY <1>3, AnswerSteps
  <2>2. Typed' /\ Buffers'
    BY <1>1, <1>2, <1>3, <2>1 DEF Inv, Typed, Buffers, Steps
  <2>3. \A u \in Workers : Sane(u)'
    BY <1>1, <1>2, <1>3, <2>1 DEF Inv, Sane, Steps, HasTarget, HasGlobal
  <2> QED
    BY <1>1, <2>2, <2>3 DEF Inv
<1>4. ASSUME worker[w].op = "open", buf_[t] = "null", mutex_' = [mutex_ EXCEPT ![t] = w],
             worker' = [worker EXCEPT ![w].pc = "global"]
      PROVE  Inv'
  <2>1. Steps(w, "global")
    BY <1>4, GotoSteps DEF Pcs
  <2>2. Typed' /\ Buffers'
    BY <1>1, <1>2, <1>4, <2>1 DEF Inv, Typed, Buffers, Steps
  <2>3. \A u \in Workers : Sane(u)'
    BY <1>1, <1>2, <1>4, <2>1, NinjaAssumption
    DEF Inv, Typed, Sane, Steps, HasTarget, HasGlobal
  <2> QED
    BY <1>1, <2>2, <2>3 DEF Inv
<1>5. buf_[t] \in {"null", "whole"}
  BY <1>1 DEF Inv, Typed
<1> QED
  BY <1>1, <1>3, <1>4, <1>5 DEF LockTarget, Target

LEMMA RunNinjaInv ==
  ASSUME Inv, NEW w \in Workers, RunNinja(w)
  PROVE  Inv'
<1> DEFINE t == worker[w].target
           new == [worker[w] EXCEPT !.pc = "build", !.build = builds + 1, !.writes = Writes(t)]
<1>1. /\ worker[w].pc = "global" /\ t \in Targets /\ global_ninja_mutex = Free
      /\ global_ninja_mutex' = w /\ builds' = builds + 1 /\ Ends'
      /\ UNCHANGED <<buf_, mutex_, log_, built, handles>>
  BY PhaseKept DEF RunNinja, AtNinja, Inv, Sane
<1>2. worker \in [Workers -> WorkerState] /\ builds \in Nat /\ built \subseteq Targets
  BY DEF Inv, Typed
<1>3. Writes(t) \in SUBSET Targets /\ t \in built \cup Writes(t)
  BY <1>1, NinjaAssumption DEF Writes
<1>4. new \in WorkerState
  <2>1. worker[w] \in WorkerState /\ builds + 1 \in Nat
    BY <1>2
  <2>2. \A n \in Nat, some \in SUBSET Targets :
          [worker[w] EXCEPT !.pc = "build", !.build = n, !.writes = some] \in WorkerState
    BY <2>1 DEF WorkerState, Pcs
  <2> QED
    BY <1>3, <2>1, <2>2
<1>5. worker' = [worker EXCEPT ![w].pc = "build", ![w].build = builds + 1,
                               ![w].writes = Writes(t)]
  BY DEF RunNinja, Target
<1>6. /\ Steps(w, "build") /\ worker'[w].build = builds' /\ worker'[w].writes = Writes(t)
  BY <1>1, <1>2, <1>4, <1>5 DEF Steps, WorkerState
<1>7. Typed' /\ Buffers'
  BY <1>1, <1>2, <1>6 DEF Inv, Typed, Buffers, Steps
<1>8. \A u \in Workers : Sane(u)'
  BY <1>1, <1>3, <1>6, NinjaAssumption DEF Inv, Sane, Steps, HasTarget, HasGlobal
<1> QED
  BY <1>1, <1>7, <1>8 DEF Inv

LEMMA NinjaEndsInv ==
  ASSUME Inv, NEW w \in Workers, NinjaEnds(w)
  PROVE  Inv'
<1> DEFINE t == worker[w].target
<1>1. /\ worker[w].pc = "build" /\ t \in Targets /\ ninjaPhase = "serving"
      /\ t \in built \cup worker[w].writes
      /\ UNCHANGED <<buf_, mutex_, global_ninja_mutex, log_, builds, handles>>
  BY DEF NinjaEnds, AtNinja, Inv, Sane
<1>2. worker \in [Workers -> WorkerState] /\ built \subseteq Targets
  BY DEF Inv, Typed
<1>3. CASE ninjaPhase' = "aborted" /\ UNCHANGED <<worker, built>>
  <2>1. Ends'
    BY <1>1, <1>3 DEF Ends, DiesOnlyFor
  <2> QED
    BY <1>1, <1>3, <2>1 DEF Inv, Typed, Buffers, Sane
<1>4. ASSUME UNCHANGED ninjaPhase, NEW ok \in BOOLEAN,
             worker' = [worker EXCEPT ![w].pc = "log", ![w].ok = ok],
             ok => t \in built',
             built \subseteq built' /\ built' \subseteq built \cup worker[w].writes
      PROVE  Inv'
  <2>1. [worker[w] EXCEPT !.pc = "log", !.ok = ok] \in WorkerState
    BY <1>2 DEF WorkerState, Pcs
  <2>2. /\ Steps(w, "log") /\ worker'[w].ok = ok /\ worker'[w].build = worker[w].build
    BY <1>2, <1>4, <2>1 DEF Steps, WorkerState
  <2>3. built' \subseteq Targets
    BY <1>2, <1>4 DEF WorkerState
  <2>4. Typed' /\ Buffers'
    BY <1>1, <2>2, <2>3 DEF Inv, Typed, Buffers, Steps
  <2>5. \A u \in Workers : Sane(u)'
    BY <1>1, <1>4, <2>2 DEF Inv, Sane, Steps, HasTarget, HasGlobal
  <2> QED
    BY <1>1, <1>4, <2>4, <2>5, PhaseKept DEF Inv
<1> QED
  BY <1>1, <1>3, <1>4 DEF NinjaEnds, Target

LEMMA UpdateLogInv ==
  ASSUME Inv, NEW w \in Workers, UpdateLog(w)
  PROVE  Inv'
<1> DEFINE t == worker[w].target
<1>1. /\ worker[w].pc = "log" /\ t \in Targets /\ Ends'
      /\ worker[w].op = "open" /\ mutex_[t] = w /\ global_ninja_mutex = w
      /\ buf_[t] = "null" /\ worker[w].build = builds /\ log_' = builds
      /\ UNCHANGED <<built, builds, handles>>
  BY PhaseKept DEF UpdateLog, AtNinja, Inv, Sane, HasTarget, HasGlobal
<1>2. log_ \in Nat /\ builds \in Nat /\ log_ <= builds
  BY DEF Inv, Typed
<1>3. ASSUME worker[w].ok, buf_' = [buf_ EXCEPT ![t] = "empty"],
             worker' = [worker EXCEPT ![w].pc = "file"],
             UNCHANGED <<mutex_, global_ninja_mutex>>
      PROVE  Inv'
  <2>1. Steps(w, "file") /\ worker'[w].build = worker[w].build
    BY <1>3, GotoSteps DEF Pcs
  <2>2. Typed' /\ Buffers'
    BY <1>1, <1>2, <1>3, <2>1 DEF Inv, Typed, Buffers, Steps
  <2>3. \A u \in Workers : Sane(u)'
    BY <1>1, <1>2, <1>3, <2>1 DEF Inv, Typed, Sane, Steps, HasTarget, HasGlobal, WorkerState
  <2> QED
    BY <1>1, <2>2, <2>3 DEF Inv
<1>4. ASSUME Answer(w, "EIO"), Unlock(w), UNCHANGED buf_
      PROVE  Inv'
  <2>1. /\ Steps(w, "return") /\ worker'[w].result = "EIO"
        /\ worker'[w].build = worker[w].build
    BY <1>4, AnswerSteps
  <2>2. global_ninja_mutex' = Free /\ mutex_' = [mutex_ EXCEPT ![t] = Free]
    BY <1>4 DEF Unlock, Target
  <2>3. Typed' /\ Buffers'
    BY <1>1, <1>2, <1>4, <2>1, <2>2 DEF Inv, Typed, Buffers, Steps
  <2>4. \A u \in Workers : Sane(u)'
    BY <1>1, <1>2, <1>4, <2>1, <2>2
    DEF Inv, Typed, Sane, Steps, HasTarget, HasGlobal, WorkerState
  <2> QED
    BY <1>1, <2>3, <2>4 DEF Inv
<1> QED
  BY <1>3, <1>4 DEF UpdateLog, Target

\* While a handler reads a file no build writes one.
LEMMA ReadTargetInv ==
  ASSUME Inv, NEW w \in Workers, ReadTarget(w)
  PROVE  Inv'
<1> DEFINE t == worker[w].target
<1>1. /\ worker[w].pc = "file" /\ t \in Targets /\ t \in built
      /\ worker[w].op = "open" /\ mutex_[t] = w /\ global_ninja_mutex = w
      /\ ninjaPhase = "serving"
  BY DEF ReadTarget, AtNinja, Inv, Sane, HasTarget, HasGlobal
<1>2. FileOf(t) \in {"whole", "none"} /\ (FileOf(t) = "none" => t \in Phony)
  <2>1. \A u \in Workers : worker[u].pc # "build"
    BY <1>1 DEF Inv, Sane, HasGlobal
  <2> QED
    BY <1>1, <2>1 DEF FileOf
<1>3. CASE FileOf(t) = "none" \/ t \in Large
  <2>1. UNCHANGED ninjaState /\ ninjaPhase' = "aborted"
    BY <1>3 DEF ReadTarget, Target
  <2>2. Ends'
    BY <1>1, <1>2, <1>3, <2>1 DEF Ends, DiesOnlyFor, ninjaState, Target
  <2> QED
    BY <2>1, <2>2 DEF Inv, Typed, Buffers, Sane, ninjaState
<1>4. CASE FileOf(t) = "whole" /\ t \notin Large
  <2>1. /\ buf_' = [buf_ EXCEPT ![t] = "whole"] /\ Answer(w, "ok")
        /\ global_ninja_mutex' = Free /\ mutex_' = [mutex_ EXCEPT ![t] = Free]
        /\ UNCHANGED <<ninjaPhase, log_, built, builds, handles>>
    BY <1>4 DEF ReadTarget, Unlock, Target
  <2>2. Steps(w, "return") /\ worker'[w].result = "ok"
    BY <2>1, AnswerSteps
  <2>3. Typed' /\ Buffers'
    BY <1>1, <2>1, <2>2 DEF Inv, Typed, Buffers, Steps
  <2>4. Sane(w)'
    BY <1>1, <2>1, <2>2 DEF Inv, Typed, Sane, Steps, HasTarget, HasGlobal
  <2>5. ASSUME NEW u \in Workers \ {w} PROVE Sane(u)'
    <3>1. /\ Sane(u) /\ worker'[u] = worker[u]
          /\ worker[u].pc \notin HasGlobal
          /\ worker[u].pc = "global" => worker[u].target # t
      BY <1>1, <2>2 DEF Inv, Sane, Steps, HasTarget, HasGlobal
    <3>2. \A x \in Targets : buf_'[x] = IF x = t THEN "whole" ELSE buf_[x]
      BY <1>1, <2>1 DEF Inv, Typed
    <3>3. \A x \in Targets \ {t} : mutex_'[x] = mutex_[x]
      BY <1>1, <2>1 DEF Inv, Typed
    <3> QED
      BY <2>1, <3>1, <3>2, <3>3 DEF Sane, HasTarget, HasGlobal
  <2> QED
    BY <1>1, <2>1, <2>3, <2>4, <2>5, PhaseKept DEF Inv
<1> QED
  BY <1>2, <1>3, <1>4

LEMMA TestBufInv ==
  ASSUME Inv, NEW w \in Workers, TestBuf(w)
  PROVE  Inv'
<1> DEFINE t == worker[w].target
<1>1. /\ worker[w].pc = "test" /\ t \in Targets /\ buf_[t] = "whole" /\ worker[w].op = "read"
      /\ UNCHANGED <<buf_, mutex_, global_ninja_mutex, log_, built, builds, handles>>
      /\ Ends'
  BY PhaseKept DEF TestBuf, AtNinja, Inv, Sane
<1>2. Steps(w, "copy")
  BY <1>1, GotoSteps DEF TestBuf, Target, Pcs
<1>3. Typed' /\ Buffers'
  BY <1>1, <1>2 DEF Inv, Typed, Buffers, Steps
<1>4. \A u \in Workers : Sane(u)'
  BY <1>1, <1>2 DEF Inv, Sane, Steps, HasTarget, HasGlobal
<1> QED
  BY <1>1, <1>3, <1>4 DEF Inv

LEMMA CopyBufInv ==
  ASSUME Inv, NEW w \in Workers, CopyBuf(w)
  PROVE  Inv'
<1> DEFINE t == worker[w].target
<1>1. /\ worker[w].pc = "copy" /\ t \in Targets /\ buf_[t] = "whole" /\ worker[w].op = "read"
      /\ UNCHANGED <<buf_, mutex_, global_ninja_mutex, log_, built, builds, handles>>
      /\ Ends'
  BY PhaseKept DEF CopyBuf, AtNinja, Inv, Sane
<1>2. Steps(w, "return") /\ worker'[w].result = "whole"
  BY <1>1, AnswerSteps DEF CopyBuf, Target
<1>3. Typed' /\ Buffers'
  BY <1>1, <1>2 DEF Inv, Typed, Buffers, Steps
<1>4. \A u \in Workers : Sane(u)'
  BY <1>1, <1>2 DEF Inv, Sane, Steps, HasTarget, HasGlobal
<1> QED
  BY <1>1, <1>3, <1>4 DEF Inv

\* The kernel has a handle when open has returned: buf_ is whole then.
LEMMA ReturnNinjaInv ==
  ASSUME Inv, NEW w \in Workers, ReturnNinja(w)
  PROVE  Inv'
<1> DEFINE t == worker[w].target
<1>1. /\ worker[w].pc = "return" /\ t \in Targets
      /\ worker' = [worker EXCEPT ![w] = Resting]
      /\ UNCHANGED <<buf_, mutex_, global_ninja_mutex, log_, built, builds>>
      /\ Ends'
  BY PhaseKept DEF ReturnNinja, AtNinja, Inv, Sane
<1>2. \/ UNCHANGED handles
      \/ /\ worker[w].op = "open" /\ worker[w].result = "ok"
         /\ handles' = [handles EXCEPT ![t] = @ + 1]
  BY DEF ReturnNinja, Target
<1>3. worker \in [Workers -> WorkerState] /\ handles \in [Targets -> Nat]
  BY DEF Inv, Typed
<1>4. /\ worker' \in [Workers -> WorkerState] /\ worker'[w].pc = "idle"
      /\ \A u \in Workers \ {w} : worker'[u] = worker[u]
  BY <1>1, <1>3, RestingTyped
<1>5. Typed'
  BY <1>1, <1>2, <1>3, <1>4 DEF Inv, Typed
<1>6. Buffers'
  <2>1. \A x \in Targets : handles'[x] > 0 => buf_[x] = "whole"
    BY <1>1, <1>2, <1>3 DEF Inv, Buffers, Sane
  <2>2. \A x \in Targets :
          buf_[x] = "empty" => /\ mutex_[x] \in Workers
                               /\ worker'[mutex_[x]].pc = "file" /\ worker'[mutex_[x]].target = x
    BY <1>1, <1>4 DEF Inv, Buffers
  <2> QED
    BY <1>1, <2>1, <2>2 DEF Buffers
<1>7. \A u \in Workers : Sane(u)'
  BY <1>1, <1>4 DEF Inv, Sane, HasTarget, HasGlobal
<1> QED
  BY <1>1, <1>5, <1>6, <1>7 DEF Inv

LEMMA CallNinjaInv ==
  ASSUME Inv, NEW w \in Workers, NEW op \in {"getattr", "open", "read"}, NEW t \in Targets,
         CallNinja(w, op, t)
  PROVE  Inv'
<1> DEFINE p == IF op = "read" THEN "test" ELSE "lock"
           new == [Resting EXCEPT !.op = op, !.target = t, !.pc = p]
<1>1. /\ worker[w].pc = "idle" /\ (op = "read" => buf_[t] = "whole")
      /\ worker' = [worker EXCEPT ![w] = new]
      /\ UNCHANGED <<buf_, mutex_, global_ninja_mutex, log_, built, builds, handles>>
      /\ Ends'
  BY PhaseKept DEF CallNinja, AtNinja, Inv, Buffers
<1>2. worker \in [Workers -> WorkerState]
  BY DEF Inv, Typed
<1>3. new \in WorkerState /\ new.pc = p /\ new.op = op /\ new.target = t
  BY DEF Resting, WorkerState, Pcs
<1>4. /\ worker' \in [Workers -> WorkerState] /\ worker'[w] = new
      /\ \A u \in Workers \ {w} : worker'[u] = worker[u]
  BY <1>1, <1>2, <1>3
<1>5. Typed' /\ Buffers'
  BY <1>1, <1>4 DEF Inv, Typed, Buffers
<1>6. \A u \in Workers : Sane(u)'
  BY <1>1, <1>3, <1>4 DEF Inv, Sane, HasTarget, HasGlobal
<1> QED
  BY <1>1, <1>5, <1>6 DEF Inv

LEMMA CloseHandleInv ==
  ASSUME Inv, NEW t \in Targets, CloseHandle(t)
  PROVE  Inv'
<1>1. /\ handles[t] > 0 /\ handles' = [handles EXCEPT ![t] = @ - 1]
      /\ UNCHANGED <<buf_, mutex_, global_ninja_mutex, log_, built, builds, worker>>
      /\ Ends'
  BY PhaseKept DEF CloseHandle
<1>2. handles \in [Targets -> Nat]
  BY DEF Inv, Typed
<1>3. Typed' /\ Buffers'
  BY <1>1, <1>2 DEF Inv, Typed, Buffers
<1>4. \A u \in Workers : Sane(u)'
  BY <1>1 DEF Inv, Sane
<1> QED
  BY <1>1, <1>3, <1>4 DEF Inv

LEMMA NextInv == Inv /\ [NinjaNext]_ninjaVars => Inv'
<1> SUFFICES ASSUME Inv, [NinjaNext]_ninjaVars PROVE Inv'
  OBVIOUS
<1>1. ASSUME UNCHANGED ninjaState, ninjaPhase = "load" \/ UNCHANGED ninjaPhase PROVE Inv'
  <2>1. Ends'
    BY <1>1 DEF Inv, Ends, DiesOnlyFor, Target, ninjaState
  <2> QED
    BY <1>1, <2>1 DEF Inv, Typed, Buffers, Sane, ninjaState
<1>2. CASE \/ AddLog \/ MountNinja \/ ListingDies \/ AbsoluteTarget
           \/ \E t \in Targets : AddTarget(t)
  BY <1>1, <1>2 DEF AddLog, MountNinja, ListingDies, AbsoluteTarget, AddTarget
<1>3. ASSUME NEW w \in Workers, Handler(w) PROVE Inv'
  BY <1>3, LockTargetInv, RunNinjaInv, NinjaEndsInv, UpdateLogInv, ReadTargetInv, TestBufInv,
     CopyBufInv, ReturnNinjaInv DEF Handler
<1>4. CASE UNCHANGED ninjaVars
  BY <1>1, <1>4 DEF ninjaVars
<1> QED
  BY <1>2, <1>3, <1>4, CallNinjaInv, CloseHandleInv DEF NinjaNext

\* A read of an open file returns the whole file: between the test of buf_
\* and its copy, and between the opens of targets that depend on each other,
\* nothing puts another value in it.
THEOREM ReadsAreWhole == NinjaSpec => []ReadsWhole
<1>1. Inv => ReadsWhole
  BY DEF Inv, Sane, ReadsWhole, AtNinja
<1> QED
  BY InitInv, NextInv, <1>1, PTL DEF NinjaSpec

\* The output of a failed build, or of a later one, is in the log as long as
\* the client that got -EIO may look for it.
THEOREM FailuresAreLogged == NinjaSpec => []FailureLogged
<1>1. Inv => FailureLogged
  BY DEF Inv, Sane, FailureLogged, AtNinja
<1> QED
  BY InitInv, NextInv, <1>1, PTL DEF NinjaSpec

\* ReadFromFileOrDie finds the file ninja said it built, unless the target
\* is no file or too large for one read: the other ends of the daemon are
\* those of PopenAndReadOrDie2 and of the listing.
THEOREM KnownEnds == NinjaSpec => []DiesOnlyFor
<1>1. Inv => DiesOnlyFor
  BY DEF Inv, Ends
<1> QED
  BY InitInv, NextInv, <1>1, PTL DEF NinjaSpec
-----------------------------------------------------------------------------
(* The tree the targets are served in.                                     *)

Leaves == Targets \cup {LogPath}

\* No target has the name of a directory of another one, nor of the log's.
NoCollision == \A t, u \in Leaves : t # u => ~IsPrefix(t, u)

LeafAt(p) == Object(FALSE, IF p = LogPath THEN <<"log", p>> ELSE <<"target", p>>)

\* A leaf that is still to be added is not there, not even as a directory made
\* for a target below it: there is none.
LeavesOnly ==
  \A q \in DOMAIN files :
    IF q \in Leaves THEN q \notin toAdd /\ files[q] = LeafAt(q) ELSE files[q].dir

Loaded == Tree /\ toAdd \subseteq Targets /\ LeavesOnly

LEMMA NothingAboveALeaf ==
  ASSUME NoCollision, NEW p \in Leaves
  PROVE  p \in Paths \ {<<>>} /\ \A q \in Prefixes(Front(p)) : q \notin Leaves
<1>1. p \in Paths \ {<<>>}
  BY NinjaAssumption DEF Leaves, Paths
<1>2. ASSUME NEW q \in Prefixes(Front(p)), q \in Leaves PROVE FALSE
  <2>1. q \in Prefixes(p) /\ q # p
    BY <1>1, AbovePath
  <2>2. PICK n \in 0 .. Len(p) : q = SubSeq(p, 1, n)
    BY <2>1 DEF Prefixes
  <2>3. Len(q) = n /\ n <= Len(p) /\ n \in 0 .. n /\ Len(p) \in Nat
    BY <1>1, <2>2, Above, LenProperties DEF Paths
  <2>4. SubSeq(q, 1, Len(q)) = SubSeq(p, 1, Len(q))
    BY <1>1, <2>2, <2>3, Above
  <2>5. IsPrefix(q, p)
    BY <2>3, <2>4 DEF IsPrefix
  <2> QED
    BY <1>2, <2>1, <2>5 DEF NoCollision
<1> QED
  BY <1>1, <1>2

LEMMA LeafFits ==
  ASSUME NoCollision, Loaded, NEW p \in Leaves, p \notin DOMAIN files
  PROVE  Fits(p, LeafAt(p))
<1>1. p \in Paths \ {<<>>} /\ \A q \in DOMAIN files \cap Prefixes(Front(p)) : files[q].dir
  BY NothingAboveALeaf DEF Loaded, LeavesOnly
<1>2. \A q \in Inner : Front(q) # p
  BY InnerPaths DEF Loaded
<1>3. ~LeafAt(p).dir /\ LeafAt(p) # Null
  BY DEF LeafAt, Object, Null
<1>4. \A q : AutoCreated(q).dir
  BY DEF AutoCreated, Object
<1>5. ASSUME NEW q \in DOMAIN files PROVE files[q] # LeafAt(p)
  <2>1. CASE q \in Leaves
    <3>1. files[q] = LeafAt(q) /\ LeafAt(q).made[2] = q /\ LeafAt(p).made[2] = p
      BY <2>1 DEF Loaded, LeavesOnly, LeafAt, Object
    <3> QED
      BY <3>1
  <2>2. CASE q \notin Leaves
    BY <1>3, <2>2 DEF Loaded, LeavesOnly
  <2> QED
    BY <2>1, <2>2
<1> QED
  BY <1>1, <1>2, <1>3, <1>4, <1>5 DEF Fits

\* Adding a leaf, whatever of the directories above it is there.
LEMMA LeafAdded ==
  ASSUME NoCollision, Loaded, NEW p \in Leaves, p \notin DOMAIN files, Add(p, LeafAt(p)),
         toAdd' = toAdd \ {p}
  PROVE  Loaded'
<1>1. Fits(p, LeafAt(p))
  BY LeafFits
<1>2. Tree'
  BY <1>1, AddKeepsTree DEF Loaded
<1>3. /\ DOMAIN files' = DOMAIN files \cup Prefixes(p) /\ files'[p] = LeafAt(p)
      /\ \A q \in DOMAIN files \ {p} : files'[q] = files[q]
      /\ \A q \in NewAbove(p) : q # p /\ files'[q] = AutoCreated(q)
  BY <1>1, AddEffect DEF Loaded
<1>4. DOMAIN files' = DOMAIN files \cup NewAbove(p) \cup {p}
  BY <1>3, NothingAboveALeaf, AbovePath DEF NewAbove
<1>5. \A q \in NewAbove(p) : q \notin Leaves /\ files'[q].dir
  <2>1. \A q : AutoCreated(q).dir
    BY DEF AutoCreated, Object
  <2> QED
    BY <1>3, <2>1, NothingAboveALeaf DEF NewAbove
<1>6. ASSUME NEW q \in DOMAIN files'
      PROVE  IF q \in Leaves THEN q \notin toAdd' /\ files'[q] = LeafAt(q) ELSE files'[q].dir
  <2>1. CASE q \in DOMAIN files \ {p}
    <3>1. files'[q] = files[q]
      BY <1>3, <2>1
    <3>2. IF q \in Leaves THEN q \notin toAdd /\ files[q] = LeafAt(q) ELSE files[q].dir
      BY <2>1, Zenon DEF Loaded, LeavesOnly
    <3> QED
      BY <3>1, <3>2
  <2>2. CASE q \in NewAbove(p)
    BY <1>5, <2>2
  <2>3. CASE q = p
    BY <1>3, <2>3
  <2> QED
    BY <1>4, <2>1, <2>2, <2>3
<1>7. LeavesOnly'
  BY <1>6 DEF LeavesOnly, Leaves
<1> QED
  BY <1>2, <1>7 DEF Loaded

LEMMA LoadedInv == NoCollision /\ Loaded /\ [NinjaNext]_ninjaVars => Loaded'
<1> SUFFICES ASSUME NoCollision, Loaded, [NinjaNext]_ninjaVars PROVE Loaded'
  OBVIOUS
<1>1. CASE AddLog
  <2>1. LeafAt(LogPath) = Object(FALSE, <<"log", LogPath>>) /\ LogPath \notin toAdd
    BY NinjaAssumption DEF LeafAt, Loaded
  <2> QED
    BY <1>1, <2>1, LeafAdded DEF AddLog, Leaves
<1>2. ASSUME NEW t \in Targets, AddTarget(t) PROVE Loaded'
  <2>1. LeafAt(t) = Object(FALSE, <<"target", t>>) /\ t \notin DOMAIN files
    BY <1>2, NinjaAssumption DEF LeafAt, Loaded, LeavesOnly, Leaves, AddTarget
  <2> QED
    BY <1>2, <2>1, LeafAdded DEF AddTarget, Leaves
<1>3. CASE UNCHANGED <<toAdd, containerVars>>
  <2>1. files' = files /\ links' = links /\ toAdd' = toAdd
    BY <1>3 DEF containerVars
  <2> QED
    BY <2>1 DEF Loaded, LeavesOnly, Tree, Inner, PrefixClosed, Linked, Distinct
<1>4. ASSUME NEW w \in Workers, Handler(w) PROVE UNCHANGED <<toAdd, containerVars>>
  BY <1>4 DEF Handler, LockTarget, RunNinja, NinjaEnds, UpdateLog, ReadTarget, TestBuf,
              CopyBuf, ReturnNinja
<1>5. ASSUME NEW w \in Workers, NEW op, NEW t, CallNinja(w, op, t)
      PROVE  UNCHANGED <<toAdd, containerVars>>
  BY <1>5 DEF CallNinja
<1>6. CASE \/ MountNinja \/ ListingDies \/ AbsoluteTarget
           \/ \E t \in Targets : CloseHandle(t)
  BY <1>3, <1>6 DEF MountNinja, ListingDies, AbsoluteTarget, CloseHandle
<1> QED
  BY <1>1, <1>2, <1>3, <1>4, <1>5, <1>6 DEF NinjaNext, ninjaVars

\* However the targets share directories and in whatever order ninja lists
\* them, getattr, opendir and readdir serve one tree with all of what was
\* added: MaybeCreateParentDir makes no directory twice and loses nobody's
\* children.  The hypothesis is needed: ninja may list a phony "foo" beside
\* "foo/foo", where MaybeCreateParentDir casts the file of the one to the
\* directory of the other, or add destroys the directory.
THEOREM TargetsAreATree == NoCollision /\ NinjaSpec => []TreeAgrees
<1>1. NinjaInit => Loaded
  <2> SUFFICES ASSUME NinjaInit PROVE Loaded
    OBVIOUS
  <2>1. Tree /\ toAdd = Targets
    BY NewTree DEF NinjaInit, NothingOpen
  <2>2. DOMAIN files = {<<>>} /\ files[<<>>].dir
    BY DEF NinjaInit, NothingOpen, ContainerInit, root_, Object
  <2>3. <<>> \notin Leaves
    BY NinjaAssumption DEF Leaves
  <2> QED
    BY <2>1, <2>2, <2>3 DEF Loaded, LeavesOnly
<1>2. Loaded => TreeAgrees
  BY TreeIsServed DEF Loaded
<1>3. ASSUME NoCollision PROVE NinjaInit /\ [][NinjaNext]_ninjaVars => []TreeAgrees
  <2>1. Loaded /\ [NinjaNext]_ninjaVars => Loaded'
    BY <1>3, LoadedInv
  <2> QED
    BY <1>1, <1>2, <2>1, PTL
<1> QED
  BY <1>3 DEF NinjaSpec
=============================================================================
