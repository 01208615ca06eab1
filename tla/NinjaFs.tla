------------------------------- MODULE NinjaFs -------------------------------
(***************************************************************************)
(* ninjafs: a file per target of a ninja build.  Opening a file runs ninja *)
(* on its target, unless an earlier open did, and keeps the result in      *)
(* buf_; the output of the last build is the file /ninja.log.              *)
(*                                                                         *)
(* Every target has a mutex, held by getattr, open and the copying part of *)
(* read; open takes global_ninja_mutex inside it, around ninja, the log    *)
(* and the reading of the file.  Ninja writes the target and the targets   *)
(* it depends on; a file it is writing has part of its content.            *)
(***************************************************************************)
EXTENDS Integers, FiniteSets, DirectoryContainer

CONSTANTS
  Targets,      \* the listed targets, as paths
  Phony,        \* those that are no files
  Large,        \* those whose file one read does not return whole (2 GiB)
  AbsolutePaths,  \* ninja may list targets by an absolute path, too
  Deps,         \* what ninja builds on the way to a target
  LogPath,      \* of ninja.log
  Workers,      \* threads of libfuse
  Free,         \* no worker
  MaxBuilds,    \* bound on the runs of ninja
  MaxHandles    \* bound on the open handles of a target

ASSUME NinjaAssumption ==
  /\ Targets \cup {LogPath} \subseteq Seq(STRING) \ {<<>>}
  /\ Phony \subseteq Targets /\ Large \subseteq Targets /\ AbsolutePaths \in BOOLEAN
  /\ Deps \in [Targets -> SUBSET Targets]
  /\ LogPath \notin Targets
  /\ Free \notin Workers
  /\ MaxBuilds \in Nat /\ MaxHandles \in Nat

VARIABLES
  toAdd,        \* targets LoadDirectory has still to add
  ninjaPhase,   \* "load", "serving", "failed" or "aborted"
  buf_,         \* per target: "null", or what is in it
  mutex_,       \* per target: the worker holding it, or Free
  global_ninja_mutex,
  log_,         \* the build whose output the log has
  built,        \* targets whose file is complete, but for running builds
  builds,       \* runs of ninja so far
  worker,       \* per worker: where it is in which handler, and its build
  handles       \* open handles of a target

ninjaState == <<buf_, mutex_, global_ninja_mutex, log_, built, builds, worker, handles>>
ninjaVars == <<toAdd, ninjaPhase, containerVars, ninjaState>>

Resting ==
  [pc |-> "idle", op |-> "none", target |-> <<>>, build |-> 0, writes |-> {}, ok |-> FALSE,
   result |-> "none"]

NothingOpen ==
  /\ ContainerInit
  /\ toAdd = Targets
  /\ buf_ = [t \in Targets |-> "null"]
  /\ mutex_ = [t \in Targets |-> Free]
  /\ global_ninja_mutex = Free
  /\ log_ = 0
  /\ built = {}
  /\ builds = 0
  /\ worker = [w \in Workers |-> Resting]
  /\ handles = [t \in Targets |-> 0]

NinjaInit == NothingOpen /\ ninjaPhase = "load"

-----------------------------------------------------------------------------
(* LoadDirectory and main.                                                 *)

AddLog ==
  /\ ninjaPhase = "load" /\ LogPath \notin DOMAIN files
  /\ Add(LogPath, Object(FALSE, <<"log", LogPath>>))
  /\ UNCHANGED <<toAdd, ninjaPhase, ninjaState>>

\* A line of "ninja -t targets all" that has a target and a rule; the lines
\* come in any order.
AddTarget(t) ==
  /\ ninjaPhase = "load" /\ LogPath \in DOMAIN files
  /\ t \in toAdd
  /\ Add(t, Object(FALSE, <<"target", t>>))
  /\ toAdd' = toAdd \ {t}
  /\ UNCHANGED <<ninjaPhase, ninjaState>>

\* ninja could list the targets, or it could not and main returns.
MountNinja ==
  /\ ninjaPhase = "load" /\ LogPath \in DOMAIN files
  /\ \/ toAdd = {} /\ ninjaPhase' = "serving"
     \/ toAdd = Targets /\ ninjaPhase' = "failed"
  /\ UNCHANGED <<toAdd, containerVars, ninjaState>>

\* PopenAndReadOrDie2 ends the process if ninja cannot be started or ends by
\* a signal,
ListingDies ==
  /\ ninjaPhase = "load" /\ LogPath \in DOMAIN files
  /\ toAdd = Targets
  /\ ninjaPhase' = "aborted"
  /\ UNCHANGED <<toAdd, containerVars, ninjaState>>

\* and so does the assertion on a target that is an absolute path, wherever
\* in the list it is.
AbsoluteTarget ==
  /\ ninjaPhase = "load" /\ LogPath \in DOMAIN files
  /\ AbsolutePaths
  /\ ninjaPhase' = "aborted"
  /\ UNCHANGED <<toAdd, containerVars, ninjaState>>

-----------------------------------------------------------------------------
(* The handlers of a target.                                               *)

AtNinja(w, pc) == ninjaPhase = "serving" /\ worker[w].pc = pc
Target(w) == worker[w].target

Reading(t) == {w \in Workers : worker[w].op = "read" /\ worker[w].target = t}

\* fs_open finds the target; the kernel reads only what is open.
CallNinja(w, op, t) ==
  /\ AtNinja(w, "idle")
  /\ Get(t) # Null
  /\ op = "read" => handles[t] > 0
  /\ worker' = [worker EXCEPT ![w] =
       [Resting EXCEPT !.op = op, !.target = t, !.pc = IF op = "read" THEN "test" ELSE "lock"]]
  /\ UNCHANGED <<toAdd, ninjaPhase, containerVars, buf_, mutex_, global_ninja_mutex,
                 log_, built, builds, handles>>

Answer(w, result) == worker' = [worker EXCEPT ![w].pc = "return", ![w].result = result]

\* lock_guard on mutex_.  Getattr answers at once, with the size or with an
\* estimate; so does an open of a target whose buf_ is there.
LockTarget(w) ==
  /\ AtNinja(w, "lock")
  /\ mutex_[Target(w)] = Free
  /\ \/ /\ worker[w].op = "getattr"
        /\ Answer(w, IF buf_[Target(w)] = "null" THEN "estimate" ELSE buf_[Target(w)])
        /\ UNCHANGED mutex_
     \/ /\ worker[w].op = "open" /\ buf_[Target(w)] # "null"
        /\ Answer(w, "ok")
        /\ UNCHANGED mutex_
     \/ /\ worker[w].op = "open" /\ buf_[Target(w)] = "null"
        /\ mutex_' = [mutex_ EXCEPT ![Target(w)] = w]
        /\ worker' = [worker EXCEPT ![w].pc = "global"]
  /\ UNCHANGED <<toAdd, ninjaPhase, containerVars, buf_, global_ninja_mutex, log_, built,
                 builds, handles>>

\* What a run of ninja for t writes that starts now.
Writes(t) == ({t} \cup Deps[t]) \ built

\* Mutant: builds of different targets run side by side.
RunNinjaUnlocked(w) ==
  /\ AtNinja(w, "global")
  /\ builds < MaxBuilds
  /\ builds' = builds + 1
  /\ worker' = [worker EXCEPT ![w].pc = "build", ![w].build = builds + 1,
                              ![w].writes = Writes(Target(w))]
  /\ UNCHANGED <<toAdd, ninjaPhase, containerVars, buf_, mutex_, global_ninja_mutex, log_,
                 built, handles>>

\* global_ninja_mutex, and ninja starts.
RunNinja(w) ==
  /\ AtNinja(w, "global")
  /\ global_ninja_mutex = Free
  /\ builds < MaxBuilds
  /\ global_ninja_mutex' = w
  /\ builds' = builds + 1
  /\ worker' = [worker EXCEPT ![w].pc = "build", ![w].build = builds + 1,
                              ![w].writes = Writes(Target(w))]
  /\ UNCHANGED <<toAdd, ninjaPhase, containerVars, buf_, mutex_, log_, built, handles>>

\* Mutant: the mutex is given up when ninja has ended.
NinjaEndsUnlocks(w) ==
  /\ AtNinja(w, "build")
  /\ global_ninja_mutex' = Free
  /\ \E ok \in BOOLEAN :
       /\ worker' = [worker EXCEPT ![w].pc = "log", ![w].ok = ok]
       /\ built' = IF ok THEN built \cup worker[w].writes ELSE built
  /\ UNCHANGED <<toAdd, ninjaPhase, containerVars, buf_, mutex_, log_, builds, handles>>

\* Mutant: the exit code is not looked at.
NinjaEndsWell(w) ==
  /\ AtNinja(w, "build")
  /\ worker' = [worker EXCEPT ![w].pc = "log", ![w].ok = TRUE]
  /\ \E some \in SUBSET worker[w].writes : built' = built \cup some
  /\ UNCHANGED <<toAdd, ninjaPhase, containerVars, buf_, mutex_, global_ninja_mutex, log_,
                 builds, handles>>

\* The end of PopenAndReadOrDie2: ninja's output and exit code.  A failed
\* build may have finished some of the targets on the way.  A ninja that did
\* not start or ended by a signal ends the daemon.
NinjaEnds(w) ==
  /\ AtNinja(w, "build")
  /\ \/ /\ worker' = [worker EXCEPT ![w].pc = "log", ![w].ok = TRUE]
        /\ built' = built \cup worker[w].writes
        /\ UNCHANGED ninjaPhase
     \/ /\ \E some \in SUBSET (worker[w].writes \ {Target(w)}) :
             /\ worker' = [worker EXCEPT ![w].pc = "log", ![w].ok = FALSE]
             /\ built' = built \cup some
        /\ UNCHANGED ninjaPhase
     \/ /\ ninjaPhase' = "aborted"
        /\ UNCHANGED <<worker, built>>
  /\ UNCHANGED <<toAdd, containerVars, buf_, mutex_, global_ninja_mutex, log_, builds, handles>>

\* Both guards go out of scope.
Unlock(w) ==
  /\ global_ninja_mutex' = Free
  /\ mutex_' = [mutex_ EXCEPT ![Target(w)] = Free]

\* Mutant: a failed build keeps the mutexes.
UpdateLogLocked(w) ==
  /\ AtNinja(w, "log")
  /\ log_' = worker[w].build
  /\ \/ worker[w].ok
        /\ buf_' = [buf_ EXCEPT ![Target(w)] = "empty"]
        /\ worker' = [worker EXCEPT ![w].pc = "file"]
     \/ ~worker[w].ok
        /\ Answer(w, "EIO")
        /\ UNCHANGED buf_
  /\ UNCHANGED <<toAdd, ninjaPhase, containerVars, mutex_, global_ninja_mutex, built, builds,
                 handles>>

\* UpdateLog, and the branch on the exit code: an empty buf_, or -EIO.
UpdateLog(w) ==
  /\ AtNinja(w, "log")
  /\ log_' = worker[w].build
  /\ \/ /\ worker[w].ok
        /\ buf_' = [buf_ EXCEPT ![Target(w)] = "empty"]
        /\ worker' = [worker EXCEPT ![w].pc = "file"]
        /\ UNCHANGED <<mutex_, global_ninja_mutex>>
     \/ /\ ~worker[w].ok
        /\ Answer(w, "EIO")
        /\ Unlock(w)
        /\ UNCHANGED buf_
  /\ UNCHANGED <<toAdd, ninjaPhase, containerVars, built, builds, handles>>

\* What a reader of t's file gets now.
FileOf(t) ==
  IF \E w \in Workers : worker[w].pc = "build" /\ t \in worker[w].writes \ Phony
  THEN "part"
  ELSE IF t \in built \ Phony THEN "whole" ELSE "none"

\* ReadFromFileOrDie: a target without a file ends the daemon, and so does a
\* file that read returns less of than fstat told.
ReadTarget(w) ==
  /\ AtNinja(w, "file")
  /\ IF FileOf(Target(w)) = "none" \/ Target(w) \in Large
     THEN /\ ninjaPhase' = "aborted"
          /\ UNCHANGED ninjaState
     ELSE /\ buf_' = [buf_ EXCEPT ![Target(w)] = FileOf(Target(w))]
          /\ Answer(w, "ok")
          /\ Unlock(w)
          /\ UNCHANGED <<ninjaPhase, log_, built, builds, handles>>
  /\ UNCHANGED <<toAdd, containerVars>>

\* Read tests buf_ before it has the mutex,
TestBuf(w) ==
  /\ AtNinja(w, "test")
  /\ IF buf_[Target(w)] = "null"
     THEN Answer(w, "EIO")
     ELSE worker' = [worker EXCEPT ![w].pc = "copy"]
  /\ UNCHANGED <<toAdd, ninjaPhase, containerVars, buf_, mutex_, global_ninja_mutex, log_,
                 built, builds, handles>>

\* and copies from it with the mutex.
CopyBuf(w) ==
  /\ AtNinja(w, "copy")
  /\ mutex_[Target(w)] = Free
  /\ Answer(w, buf_[Target(w)])
  /\ UNCHANGED <<toAdd, ninjaPhase, containerVars, buf_, mutex_, global_ninja_mutex, log_,
                 built, builds, handles>>

\* The handler's answer reaches the kernel; fs_open passes Open's on.
ReturnNinja(w) ==
  /\ AtNinja(w, "return")
  /\ worker' = [worker EXCEPT ![w] = Resting]
  /\ handles' = IF worker[w].op = "open" /\ worker[w].result = "ok"
                   /\ handles[Target(w)] < MaxHandles
                THEN [handles EXCEPT ![Target(w)] = @ + 1]
                ELSE handles
  /\ UNCHANGED <<toAdd, ninjaPhase, containerVars, buf_, mutex_, global_ninja_mutex, log_,
                 built, builds>>

\* There is no release handler; the kernel closes a handle that nobody reads.
CloseHandle(t) ==
  /\ ninjaPhase = "serving"
  /\ handles[t] > 0 /\ Reading(t) = {}
  /\ handles' = [handles EXCEPT ![t] = @ - 1]
  /\ UNCHANGED <<toAdd, ninjaPhase, containerVars, buf_, mutex_, global_ninja_mutex, log_,
                 built, builds, worker>>

Handler(w) ==
  \/ LockTarget(w) \/ RunNinja(w) \/ NinjaEnds(w) \/ UpdateLog(w) \/ ReadTarget(w)
  \/ TestBuf(w) \/ CopyBuf(w) \/ ReturnNinja(w)

NinjaNext ==
  \/ AddLog \/ MountNinja \/ ListingDies \/ AbsoluteTarget
  \/ \E t \in Targets : AddTarget(t) \/ CloseHandle(t)
  \/ \E w \in Workers :
       Handler(w) \/ \E op \in {"getattr", "open", "read"}, t \in Targets : CallNinja(w, op, t)

NinjaSpec == NinjaInit /\ [][NinjaNext]_ninjaVars

\* A build ends, and a worker gets a mutex that becomes free again and again.
NinjaFairness == \A w \in Workers : SF_ninjaVars(Handler(w))

-----------------------------------------------------------------------------

\* A read of an open file returns the whole file of the target: not -EIO,
\* although buf_ is tested before the mutex is held, not the empty buffer an
\* open has just made, and not a file that another target's build writes.
ReadsWhole ==
  \A w \in Workers : AtNinja(w, "return") /\ worker[w].op = "read" => worker[w].result = "whole"

\* The log is never older than a failure it should explain: when an open
\* fails with -EIO, the log has the output of that build or of a later one.
FailureLogged ==
  \A w \in Workers : AtNinja(w, "return") /\ worker[w].op = "open" /\ worker[w].result = "EIO"
                       => log_ >= worker[w].build

\* A build that succeeded is no danger, whoever builds beside it: once the
\* daemon serves, it only dies of a ninja that was ended by a signal, and of
\* the open of a target whose file is not there or is too large for one
\* read.  Before that it dies while it lists the targets.
DiesOnlyFor ==
  ninjaPhase = "aborted" =>
    \/ \E w \in Workers : worker[w].pc = "build"
    \/ \E w \in Workers : worker[w].pc = "file" /\ Target(w) \in Phony \cup Large
    \/ builds = 0 /\ \A w \in Workers : worker[w].pc = "idle"

\* Every handler returns: the workers wait for a target's mutex while its
\* holder waits for the one mutex of all builds, and for ninja.
NinjaReturns ==
  \A w \in Workers :
    worker[w].pc # "idle" ~> worker[w].pc = "idle" \/ builds = MaxBuilds \/ ninjaPhase = "aborted"
=============================================================================
