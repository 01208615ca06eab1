---------------------------- MODULE CowFsProofs ----------------------------
(***************************************************************************)
(* Theorems about CowFs, for every set of files, contents, threads,        *)
(* handles and inodes: first those that hold with and without shared       *)
(* paths, I/O errors, short copies and kills, then those of clients that   *)
(* use one path at a time while sendfile(2) copies whole files, and last   *)
(* what is left behind when besides no call fails and nobody kills the     *)
(* daemon.                                                                 *)
(***************************************************************************)
EXTENDS CowFs, TLAPS

BreakPcs == {"break_lock", "break_stat", "break_copy", "break_rename", "gc_read", "open_fd"}
LinkPcs == {"link_lock", "link_read", "link_lstat", "link_same", "link_link", "link_rename"}

\* What the locals of a thread hold at each program counter.
LocalsOf(s) ==
  /\ s.pc = "idle" => s.op = "none"
  /\ s.pc # "idle" => s.path \in Files
  /\ s.pc \in BreakPcs => s.op \in {"open", "create"}
  /\ s.pc \in LinkPcs => s.op \in {"release", "startup"}
  /\ s.pc \in {"unlink_read", "unlink_file"} => s.op = "unlink"
  /\ s.pc \in {"gc_lstat", "gc_unlink"} => s.op \in {"open", "create", "unlink"}
  /\ s.pc = "unlock" => s.op \in {"open", "create", "release", "startup"}
  /\ s.op \in {"open", "create"} => s.handle \in Handles
  /\ s.pc = "break_copy" => s.from \in Inodes
  /\ s.pc \in {"link_same", "link_link", "link_rename"} => s.dest \in {s.path, s.key}

LocalsOK == \A t \in Threads : LocalsOf(th[t])

Typed == TypeOK /\ LocalsOK

LEMMA IdleTyped == Idle \in ThreadState /\ LocalsOf(Idle)
BY ConstantsAssumption DEF Idle, ThreadState, LocalsOf, Pcs, Ops, BreakPcs, LinkPcs

LEMMA InitTyped == Init => Typed
<1> SUFFICES ASSUME Init PROVE Typed
  OBVIOUS
<1>1. FirstInode \in [Files -> Inodes]
  BY EnoughInodes DEF FirstInode
<1>2. PICK present \in SUBSET Files :
        dir = [n \in Names |-> IF n \in present THEN FirstInode[n] ELSE None]
  BY DEF Init
<1>3. dir \in [Names -> Inodes \cup {None}]
  BY <1>1, <1>2
<1>4. ino \in [Inodes -> Contents]
  BY DEF Init
<1>5. th \in [Threads -> ThreadState] /\ LocalsOK
  BY IdleTyped DEF Init, AllIdle, LocalsOK
<1> QED
  BY <1>3, <1>4, <1>5, ConstantsAssumption DEF Init, Typed, TypeOK, Phases, NoJobs, NoHandles

-----------------------------------------------------------------------------
(* Every update of a thread, and of the host, keeps the types.              *)

LEMMA StepTyped ==
  ASSUME Typed, NEW t \in Threads, NEW r \in ThreadState, LocalsOf(r), Step(t, r),
         UNCHANGED <<host, phase, fh, kills>>,
         lockdir' \subseteq Files, todo' \in [Threads -> SUBSET Files]
  PROVE  Typed'
<1>1. th' \in [Threads -> ThreadState] /\ LocalsOK'
  BY DEF Typed, TypeOK, LocalsOK, Step
<1> QED
  BY <1>1 DEF Typed, TypeOK, host

LEMMA HostTyped ==
  ASSUME Typed,
         NEW d \in [Names -> Inodes \cup {None}], NEW c \in [Inodes -> Contents],
         NEW h \in [Handles -> Handle \cup {None}], NEW s \in [Threads -> ThreadState],
         \A t \in Threads : LocalsOf(s[t]), Host(d, c, h, s),
         lockdir' \subseteq Files, phase' \in Phases,
         todo' \in [Threads -> SUBSET Files], kills' \in 0 .. MaxKills
  PROVE  Typed'
<1>1. Empty \in Contents
  BY ConstantsAssumption
<1>2. ino' \in [Inodes -> Contents]
  BY <1>1 DEF Host
<1> QED
  BY <1>2 DEF Host, LocalsOK, Typed, TypeOK

\* The same for the steps that change the host and one thread.
LEMMA HostStepTyped ==
  ASSUME Typed, NEW t \in Threads, NEW r \in ThreadState, LocalsOf(r),
         NEW d \in [Names -> Inodes \cup {None}], NEW c \in [Inodes -> Contents],
         NEW h \in [Handles -> Handle \cup {None}],
         Host(d, c, h, [th EXCEPT ![t] = r]),
         lockdir' \subseteq Files, UNCHANGED <<phase, todo, kills>>
  PROVE  Typed'
<1>1. /\ [th EXCEPT ![t] = r] \in [Threads -> ThreadState]
      /\ \A u \in Threads : LocalsOf([th EXCEPT ![t] = r][u])
  BY DEF Typed, TypeOK, LocalsOK
<1> QED
  BY <1>1, HostTyped DEF Typed, TypeOK

LEMMA DieTyped ==
  ASSUME Typed, NEW how \in {"aborted", "killed"}, Die(how), lockdir' \subseteq Files,
         kills' \in 0 .. MaxKills
  PROVE  Typed'
<1>1. /\ AllIdle \in [Threads -> ThreadState]
      /\ \A t \in Threads : LocalsOf(AllIdle[t])
      /\ NoHandles \in [Handles -> Handle \cup {None}]
      /\ NoJobs \in [Threads -> SUBSET Files]
      /\ how \in Phases
  BY IdleTyped DEF AllIdle, NoHandles, NoJobs, Phases
<1> QED
  BY <1>1, HostTyped DEF Die, Typed, TypeOK

LEMMA ReturnTyped ==
  ASSUME Typed, NEW t \in Threads, NEW b \in {"true", "false"},
         th[t].op \in {"open", "create", "release", "startup"}, th[t].pc # "idle"
  PROVE  Return(t, b) \in ThreadState /\ LocalsOf(Return(t, b))
<1>1. th[t] \in ThreadState /\ LocalsOf(th[t]) /\ "unlock" \in Pcs
  BY DEF Typed, TypeOK, LocalsOK, Pcs
<1>2. /\ Return(t, b) \in ThreadState
      /\ Return(t, b).pc = "unlock"
      /\ Return(t, b).op = th[t].op
      /\ Return(t, b).path = th[t].path
      /\ Return(t, b).handle = th[t].handle
  BY <1>1 DEF Return, ThreadState
<1> QED
  BY <1>1, <1>2 DEF LocalsOf, BreakPcs, LinkPcs

-----------------------------------------------------------------------------
(* Every step of a thread keeps the types: the lock.                        *)

LEMMA LockTyped ==
  ASSUME Typed, NEW t \in Threads, LockTake(t) \/ LockSpin(t) \/ Unlock(t)
  PROVE  Typed'
<1>1. /\ th[t] \in ThreadState
      /\ LocalsOf(th[t])
      /\ th[t].pc # "idle" => Path(t) \in Files
  BY DEF Typed, TypeOK, LocalsOK, LocalsOf, Path
<1>2. lockdir \subseteq Files /\ todo \in [Threads -> SUBSET Files]
  BY DEF Typed, TypeOK
<1>3. CASE LockTake(t)
  <2> DEFINE r == [th[t] EXCEPT !.pc = AfterLock[th[t].pc]]
  <2>1. /\ AfterLock[th[t].pc] \in Pcs
        /\ th[t].pc = "break_lock" => AfterLock[th[t].pc] = "break_stat"
        /\ th[t].pc = "link_lock" => AfterLock[th[t].pc] = "link_read"
    BY <1>3 DEF LockTake, AfterLock, Pcs
  <2>2. /\ r \in ThreadState
        /\ r.pc = AfterLock[th[t].pc]
        /\ r.op = th[t].op /\ r.path = th[t].path /\ r.handle = th[t].handle
    BY <1>1, <2>1 DEF ThreadState
  <2>3. LocalsOf(r)
    BY <1>1, <1>3, <2>1, <2>2 DEF LocalsOf, LockTake, BreakPcs, LinkPcs
  <2> QED
    BY <1>1, <1>2, <1>3, <2>2, <2>3, StepTyped DEF LockTake
<1>4. CASE LockSpin(t)
  <2> DEFINE r == [th[t] EXCEPT !.errno = "EEXIST"]
  <2>1. r \in ThreadState /\ LocalsOf(r)
    BY <1>1 DEF LocalsOf, ThreadState
  <2> QED
    BY <1>1, <1>2, <1>4, <2>1, StepTyped DEF LockSpin
<1>5. CASE Unlock(t)
  <2>1. lockdir' \subseteq Files
    BY <1>2, <1>5 DEF Unlock
  <2>2. CASE Die("aborted")
    BY <1>5, <2>1, <2>2, DieTyped DEF Unlock, Typed, TypeOK
  <2>3. CASE Host(dir, ino, fh, [th EXCEPT ![t] = AfterUnlock(t)]) /\ UNCHANGED <<phase, todo>>
    <3>1. th[t].pc = "unlock" /\ "open_fd" \in Pcs
      BY <1>5 DEF Unlock, AtPc, Pcs
    <3> DEFINE r == [th[t] EXCEPT !.pc = "open_fd", !.from = None]
    <3>2. r \in ThreadState /\ r.pc = "open_fd" /\ r.op = th[t].op
          /\ r.path = th[t].path /\ r.handle = th[t].handle
      BY <1>1, <3>1 DEF ThreadState
    <3>3. th[t].op \in {"open", "create"} => LocalsOf(r)
      BY <1>1, <3>1, <3>2 DEF LocalsOf, BreakPcs, LinkPcs
    <3>4. AfterUnlock(t) \in ThreadState /\ LocalsOf(AfterUnlock(t))
      BY <3>2, <3>3, IdleTyped DEF AfterUnlock
    <3> QED
      BY <1>5, <2>1, <2>3, <3>4, HostStepTyped DEF Unlock, Typed, TypeOK
  <2> QED
    BY <1>5, <2>2, <2>3 DEF Unlock
<1> QED
  BY <1>3, <1>4, <1>5

-----------------------------------------------------------------------------
(* Opening for writing.                                                     *)

LEMMA EntriesTyped ==
  ASSUME Typed, NEW m \in Names, NEW n \in Names
  PROVE  /\ RenameEntry(m, n) \in [Names -> Inodes \cup {None}]
         /\ UnlinkEntry(n) \in [Names -> Inodes \cup {None}]
BY DEF Typed, TypeOK, RenameEntry, UnlinkEntry

LEMMA TmpTyped ==
  ASSUME Typed, NEW t \in Threads
  PROVE  /\ th[t].path \in Files => BreakTmp(t) \in Names /\ BreakTmp(t) \in TmpNames
         /\ th[t].dest \in Files \cup Contents => LinkTmp(t) \in Names /\ LinkTmp(t) \in TmpNames
BY DEF BreakTmp, LinkTmp, Path, TmpNames, Names

\* The locals of thread t when MaybeBreakHardlink starts, with inode i open.
BreakStart(o, f, h, i) == [Idle EXCEPT !.pc = "break_lock", !.op = o, !.path = f,
                                  !.handle = h, !.from = i,
                                  !.errno = IF Exists(f) THEN "0" ELSE "ENOENT"]

LEMMA BreakStartFields ==
  ASSUME NEW o, NEW f, NEW h, NEW i
  PROVE  /\ BreakStart(o, f, h, i).pc = "break_lock"
         /\ BreakStart(o, f, h, i).op = o
         /\ BreakStart(o, f, h, i).path = f
         /\ BreakStart(o, f, h, i).handle = h
         /\ BreakStart(o, f, h, i).from = i
         /\ BreakStart(o, f, h, i).errno = IF Exists(f) THEN "0" ELSE "ENOENT"
BY DEF BreakStart, Idle

LEMMA StartBreakStarts ==
  ASSUME NEW t, NEW o, NEW f, NEW h, StartBreak(t, o, f, h)
  PROVE  \E i \in {dir[f], None} :
           th' = [th EXCEPT ![t] = BreakStart(o, f, h, i)] /\ (i # dir[f] => IoErrors)
BY DEF StartBreak, BreakStart, Step

LEMMA StartBreakTyped ==
  ASSUME Typed, NEW t \in Threads, NEW f \in Files, NEW h \in Handles,
         Open(t, f, h) \/ Create(t, f, h)
  PROVE  Typed'
<1>1. PICK o \in {"open", "create"} : StartBreak(t, o, f, h)
  BY DEF Open, Create
<1>2. PICK i \in {dir[f], None} : th' = [th EXCEPT ![t] = BreakStart(o, f, h, i)]
  BY <1>1, StartBreakStarts
<1> PICK r : r = BreakStart(o, f, h, i)
  OBVIOUS
<1>3. i \in Inodes \cup {None} /\ "break_lock" \in Pcs /\ o \in Ops
  BY DEF Typed, TypeOK, Names, Pcs, Ops
<1>4. r \in ThreadState
  BY <1>3, IdleTyped DEF ThreadState, Idle, BreakStart
<1>5. LocalsOf(r)
  BY BreakStartFields DEF LocalsOf, BreakPcs, LinkPcs
<1>6. Step(t, r)
  BY <1>2 DEF Step
<1> QED
  BY <1>1, <1>4, <1>5, <1>6, StepTyped DEF StartBreak, Typed, TypeOK

LEMMA BreakTyped ==
  ASSUME Typed, NEW t \in Threads,
         \/ BreakStat(t) \/ BreakCopy(t) \/ BreakCopyFails(t)
         \/ BreakCopyShort(t) \/ BreakRename(t) \/ BreakRenameFails(t)
  PROVE  Typed'
<1>1. /\ th[t] \in ThreadState
      /\ LocalsOf(th[t])
      /\ lockdir \subseteq Files /\ todo \in [Threads -> SUBSET Files]
      /\ dir \in [Names -> Inodes \cup {None}] /\ ino \in [Inodes -> Contents]
      /\ fh \in [Handles -> Handle \cup {None}]
  BY DEF Typed, TypeOK, LocalsOK
<1>2. /\ th[t].pc \in {"break_stat", "break_copy", "break_rename"}
      /\ th[t].path \in Files
      /\ th[t].op \in {"open", "create"}
  BY <1>1 DEF BreakStat, BreakCopy, BreakCopyFails, BreakCopyShort, BreakRename,
              BreakRenameFails, AtPc, LocalsOf, BreakPcs
<1>3. \A b \in {"true", "false"} : Return(t, b) \in ThreadState /\ LocalsOf(Return(t, b))
  BY <1>2, ReturnTyped
<1>4. BreakTmp(t) \in Names /\ Path(t) \in Names
  BY <1>2, TmpTyped DEF Path, Names
<1>5. CASE BreakStat(t)
  <2> DEFINE r == [th[t] EXCEPT !.pc = "break_copy"]
  <2>1. "break_copy" \in Pcs
    BY DEF Pcs
  <2>2. /\ r \in ThreadState
        /\ r.pc = "break_copy" /\ r.op = th[t].op /\ r.path = th[t].path
        /\ r.handle = th[t].handle /\ r.from = th[t].from
    BY <1>1, <2>1 DEF ThreadState
  <2>3. th[t].from \in Inodes \cup {None}
    BY <1>1 DEF ThreadState
  <2>4. th[t].from # None => LocalsOf(r)
    BY <1>1, <1>2, <2>2, <2>3 DEF LocalsOf, BreakPcs, LinkPcs
  <2>5. PICK q \in ThreadState : LocalsOf(q) /\ Step(t, q)
    BY <1>3, <1>5, <2>2, <2>4 DEF BreakStat
  <2> QED
    BY <1>1, <1>5, <2>5, StepTyped DEF BreakStat
<1>6. CASE BreakCopy(t)
  <2> DEFINE r == [th[t] EXCEPT !.pc = "break_rename", !.from = None]
  <2>1. "break_rename" \in Pcs /\ th[t].pc = "break_copy"
    BY <1>6 DEF Pcs, BreakCopy, AtPc
  <2>2. /\ r \in ThreadState
        /\ r.pc = "break_rename" /\ r.op = th[t].op /\ r.path = th[t].path
        /\ r.handle = th[t].handle
    BY <1>1, <2>1 DEF ThreadState
  <2>3. LocalsOf(r)
    BY <1>1, <1>2, <2>2 DEF LocalsOf, BreakPcs, LinkPcs
  <2>4. th[t].from \in Inodes
    BY <1>1, <2>1 DEF LocalsOf
  <2>5. PICK i \in Inodes :
          Host([dir EXCEPT ![BreakTmp(t)] = i], [ino EXCEPT ![i] = ino[th[t].from]], fh,
               [th EXCEPT ![t] = r])
    BY <1>6 DEF BreakCopy
  <2>6. /\ [dir EXCEPT ![BreakTmp(t)] = i] \in [Names -> Inodes \cup {None}]
        /\ [ino EXCEPT ![i] = ino[th[t].from]] \in [Inodes -> Contents]
    BY <1>1, <2>4
  <2> QED
    BY <1>1, <1>6, <2>2, <2>3, <2>5, <2>6, HostStepTyped DEF BreakCopy
<1>7. CASE BreakCopyFails(t)
  <2>1. PICK d \in [Names -> Inodes \cup {None}] :
          Host(d, ino, fh, [th EXCEPT ![t] = Return(t, "false")])
    <3>1. UnlinkEntry(BreakTmp(t)) \in [Names -> Inodes \cup {None}]
      BY <1>4, EntriesTyped
    <3>2. \A i \in Inodes : [dir EXCEPT ![BreakTmp(t)] = i] \in [Names -> Inodes \cup {None}]
      BY <1>1
    <3> QED
      BY <1>7, <3>1, <3>2 DEF BreakCopyFails
  <2> QED
    BY <1>1, <1>3, <1>7, <2>1, HostStepTyped DEF BreakCopyFails
<1>8. CASE BreakRename(t)
  <2> DEFINE r == [th[t] EXCEPT !.pc = "gc_read"]
  <2>1. "gc_read" \in Pcs
    BY DEF Pcs
  <2>2. /\ r \in ThreadState
        /\ r.pc = "gc_read" /\ r.op = th[t].op /\ r.path = th[t].path
        /\ r.handle = th[t].handle
    BY <1>1, <2>1 DEF ThreadState
  <2>3. LocalsOf(r)
    BY <1>1, <1>2, <2>2 DEF LocalsOf, BreakPcs, LinkPcs
  <2> QED
    BY <1>1, <1>4, <1>8, <2>2, <2>3, EntriesTyped, HostStepTyped DEF BreakRename
<1>9. CASE BreakRenameFails(t)
  BY <1>1, <1>3, <1>4, <1>9, EntriesTyped, HostStepTyped DEF BreakRenameFails
<1>10. CASE BreakCopyShort(t)
  <2>1. PICK i \in Inodes, c \in {"true", "false"} :
          Host([dir EXCEPT ![BreakTmp(t)] = i], ino, fh, [th EXCEPT ![t] = Return(t, c)])
    BY <1>10 DEF BreakCopyShort
  <2>2. [dir EXCEPT ![BreakTmp(t)] = i] \in [Names -> Inodes \cup {None}]
    BY <1>1
  <2> QED
    BY <1>1, <1>3, <1>10, <2>1, <2>2, HostStepTyped DEF BreakCopyShort
<1> QED
  BY <1>5, <1>6, <1>7, <1>8, <1>9, <1>10

LEMMA OpenFdTyped ==
  ASSUME Typed, NEW t \in Threads, OpenFd(t)
  PROVE  Typed'
<1>1. /\ th[t] \in ThreadState
      /\ LocalsOf(th[t])
      /\ lockdir \subseteq Files
      /\ dir \in [Names -> Inodes \cup {None}] /\ ino \in [Inodes -> Contents]
      /\ fh \in [Handles -> Handle \cup {None}]
  BY DEF Typed, TypeOK, LocalsOK
<1>2. Path(t) \in Files /\ Path(t) \in Names /\ th[t].handle \in Handles
  BY <1>1 DEF OpenFd, AtPc, Path, LocalsOf, BreakPcs, Names
<1>3. \A i \in Inodes :
        [fh EXCEPT ![th[t].handle] = [path |-> Path(t), ino |-> i, access |-> "w"]]
          \in [Handles -> Handle \cup {None}]
  BY <1>1, <1>2 DEF Handle
<1>4. \A i \in Inodes : /\ [dir EXCEPT ![Path(t)] = i] \in [Names -> Inodes \cup {None}]
                        /\ [ino EXCEPT ![i] = Empty] \in [Inodes -> Contents]
  BY <1>1, ConstantsAssumption
<1>5. Exists(Path(t)) => dir[Path(t)] \in Inodes
  BY <1>1, <1>2 DEF Exists
<1>6. PICK d \in [Names -> Inodes \cup {None}], c \in [Inodes -> Contents],
           h \in [Handles -> Handle \cup {None}] :
        Host(d, c, h, [th EXCEPT ![t] = Idle])
  BY <1>1, <1>3, <1>4, <1>5 DEF OpenFd
<1> QED
  BY <1>1, <1>6, IdleTyped, HostStepTyped DEF OpenFd

-----------------------------------------------------------------------------
(* Garbage collection of one item, and unlink.                              *)

LEMMA GcTyped ==
  ASSUME Typed, NEW t \in Threads,
         GetRepoItemPath(t) \/ GcLstat(t) \/ GcUnlink(t) \/ UnlinkFile(t)
  PROVE  Typed'
<1>1. /\ th[t] \in ThreadState
      /\ LocalsOf(th[t])
      /\ lockdir \subseteq Files /\ todo \in [Threads -> SUBSET Files]
      /\ dir \in [Names -> Inodes \cup {None}] /\ ino \in [Inodes -> Contents]
      /\ fh \in [Handles -> Handle \cup {None}]
  BY DEF Typed, TypeOK, LocalsOK
<1>2. /\ th[t].pc \in {"gc_read", "unlink_read", "gc_lstat", "gc_unlink", "unlink_file"}
      /\ Path(t) \in Files /\ Path(t) \in Names
      /\ th[t].op \in {"open", "create", "unlink"}
      /\ th[t].key \in Contents /\ th[t].key \in Names
  BY <1>1 DEF GetRepoItemPath, GcLstat, GcUnlink, UnlinkFile, AtPc, LocalsOf, BreakPcs,
              Path, Names, ThreadState
<1>3. AfterGc(t) \in ThreadState /\ LocalsOf(AfterGc(t))
  BY <1>2, ReturnTyped, IdleTyped DEF AfterGc
<1>4. CASE GetRepoItemPath(t)
  <2>1. CASE Abort
    BY <1>1, <2>1, DieTyped DEF Abort, Typed, TypeOK
  <2>2. CASE Exists(Path(t))
    <3> DEFINE p == IF th[t].pc = "gc_read" THEN "gc_lstat" ELSE "unlink_file"
               r == [th[t] EXCEPT !.key = ino[dir[Path(t)]], !.pc = p]
    <3>1. ino[dir[Path(t)]] \in Contents
      BY <1>1, <1>2, <2>2 DEF Exists
    <3>2. p \in Pcs
      BY DEF Pcs
    <3>3. /\ r \in ThreadState
          /\ r.pc = p /\ r.op = th[t].op /\ r.path = th[t].path
          /\ r.handle = th[t].handle
      BY <1>1, <3>1, <3>2 DEF ThreadState
    <3>4. th[t].pc \in {"gc_read", "unlink_read"}
      BY <1>4 DEF GetRepoItemPath
    <3>5. LocalsOf(r)
      BY <1>1, <1>2, <3>3, <3>4 DEF LocalsOf, BreakPcs, LinkPcs
    <3>6. Abort \/ (Step(t, r) /\ UNCHANGED <<host, lockdir, phase, todo, fh, kills>>)
      BY <1>4, <2>2 DEF GetRepoItemPath
    <3> QED
      BY <1>1, <2>1, <3>3, <3>5, <3>6, StepTyped
  <2> QED
    BY <1>4, <2>1, <2>2 DEF GetRepoItemPath
<1>5. CASE GcLstat(t)
  <2> DEFINE r == [th[t] EXCEPT !.pc = "gc_unlink"]
  <2>1. "gc_unlink" \in Pcs /\ th[t].pc = "gc_lstat"
    BY <1>5 DEF Pcs, GcLstat, AtPc
  <2>2. /\ r \in ThreadState
        /\ r.pc = "gc_unlink" /\ r.op = th[t].op /\ r.path = th[t].path
        /\ r.handle = th[t].handle
    BY <1>1, <2>1 DEF ThreadState
  <2>3. LocalsOf(r)
    BY <1>1, <1>2, <2>1, <2>2 DEF LocalsOf, BreakPcs, LinkPcs
  <2>4. PICK q \in ThreadState : LocalsOf(q) /\ Step(t, q)
    BY <1>3, <1>5, <2>2, <2>3 DEF GcLstat
  <2> QED
    BY <1>1, <1>5, <2>4, StepTyped DEF GcLstat
<1>6. CASE GcUnlink(t)
  BY <1>1, <1>2, <1>3, <1>6, EntriesTyped, HostStepTyped DEF GcUnlink
<1>7. CASE UnlinkFile(t)
  <2> DEFINE r == [th[t] EXCEPT !.pc = "gc_lstat"]
  <2>1. "gc_lstat" \in Pcs /\ th[t].pc = "unlink_file"
    BY <1>7 DEF Pcs, UnlinkFile, AtPc
  <2>2. /\ r \in ThreadState
        /\ r.pc = "gc_lstat" /\ r.op = th[t].op /\ r.path = th[t].path
        /\ r.handle = th[t].handle
    BY <1>1, <2>1 DEF ThreadState
  <2>3. LocalsOf(r)
    BY <1>1, <1>2, <2>1, <2>2 DEF LocalsOf, BreakPcs, LinkPcs
  <2> QED
    BY <1>1, <1>2, <1>7, <2>2, <2>3, EntriesTyped, HostStepTyped DEF UnlinkFile
<1> QED
  BY <1>4, <1>5, <1>6, <1>7

-----------------------------------------------------------------------------
(* FindOutRepoAndMaybeHardlink.                                             *)

LEMMA LinkTyped ==
  ASSUME Typed, NEW t \in Threads,
         \/ LinkRead(t) \/ LinkLstat(t) \/ HardlinkSame(t) \/ HardlinkLink(t)
         \/ HardlinkRename(t) \/ HardlinkFails(t)
  PROVE  Typed'
<1>1. /\ th[t] \in ThreadState
      /\ LocalsOf(th[t])
      /\ lockdir \subseteq Files /\ todo \in [Threads -> SUBSET Files]
      /\ dir \in [Names -> Inodes \cup {None}] /\ ino \in [Inodes -> Contents]
      /\ fh \in [Handles -> Handle \cup {None}]
  BY DEF Typed, TypeOK, LocalsOK
<1>2. /\ th[t].pc \in LinkPcs
      /\ th[t].path \in Files /\ Path(t) \in Files /\ Path(t) \in Names
      /\ th[t].op \in {"release", "startup"}
      /\ th[t].key \in Contents /\ th[t].key \in Names
  BY <1>1 DEF LinkRead, LinkLstat, HardlinkSame, HardlinkLink, HardlinkRename, HardlinkFails,
              AtPc, LocalsOf, LinkPcs, Path, Names, ThreadState
<1>3. \A b \in {"true", "false"} : Return(t, b) \in ThreadState /\ LocalsOf(Return(t, b))
  BY <1>2, ReturnTyped DEF LinkPcs
<1>4. CASE LinkRead(t)
  <2>1. CASE Abort
    BY <1>1, <2>1, DieTyped DEF Abort, Typed, TypeOK
  <2>2. CASE Exists(Path(t))
    <3> DEFINE r == [th[t] EXCEPT !.key = ino[dir[Path(t)]], !.pc = "link_lstat"]
    <3>1. ino[dir[Path(t)]] \in Contents
      BY <1>1, <1>2, <2>2 DEF Exists
    <3>2. "link_lstat" \in Pcs
      BY DEF Pcs
    <3>3. /\ r \in ThreadState
          /\ r.pc = "link_lstat" /\ r.op = th[t].op /\ r.path = th[t].path
          /\ r.handle = th[t].handle
      BY <1>1, <3>1, <3>2 DEF ThreadState
    <3>4. LocalsOf(r)
      BY <1>1, <1>2, <3>3 DEF LocalsOf, BreakPcs, LinkPcs
    <3>5. Abort \/ (Step(t, r) /\ UNCHANGED <<host, lockdir, phase, todo, fh, kills>>)
      BY <1>4 DEF LinkRead
    <3> QED
      BY <1>1, <2>1, <3>3, <3>4, <3>5, StepTyped
  <2> QED
    BY <1>4, <2>1, <2>2 DEF LinkRead
<1>5. CASE LinkLstat(t)
  <2> DEFINE d == IF Exists(th[t].key) THEN Path(t) ELSE th[t].key
             r == [th[t] EXCEPT !.dest = d, !.pc = "link_same"]
  <2>1. "link_same" \in Pcs /\ d \in Files \cup Contents /\ d \in {th[t].path, th[t].key}
    BY <1>2 DEF Pcs, Path
  <2>2. /\ r \in ThreadState
        /\ r.pc = "link_same" /\ r.op = th[t].op /\ r.path = th[t].path
        /\ r.handle = th[t].handle /\ r.dest = d /\ r.key = th[t].key
    BY <1>1, <2>1 DEF ThreadState
  <2>3. LocalsOf(r)
    BY <1>1, <1>2, <2>1, <2>2 DEF LocalsOf, BreakPcs, LinkPcs
  <2>4. Step(t, r)
    BY <1>5 DEF LinkLstat
  <2> QED
    BY <1>1, <1>5, <2>2, <2>3, <2>4, StepTyped DEF LinkLstat
<1>6. ASSUME th[t].pc \in {"link_same", "link_link", "link_rename"}
      PROVE  /\ th[t].dest \in Files \cup Contents /\ th[t].dest \in Names
             /\ LinkSource(t) \in Names /\ LinkTmp(t) \in Names
             /\ dir[LinkSource(t)] \in Inodes \cup {None}
  <2>1. th[t].dest \in {th[t].path, th[t].key}
    BY <1>1, <1>6 DEF LocalsOf
  <2>2. th[t].dest \in Files \cup Contents /\ th[t].dest \in Names
    BY <1>2, <2>1 DEF Names
  <2>3. LinkSource(t) \in Names
    BY <1>2 DEF LinkSource
  <2> QED
    BY <1>1, <2>2, <2>3, TmpTyped
<1>7. CASE HardlinkSame(t)
  <2> DEFINE r == [th[t] EXCEPT !.pc = "link_link"]
  <2>1. "link_link" \in Pcs /\ th[t].pc = "link_same"
    BY <1>7 DEF Pcs, HardlinkSame, AtPc
  <2>2. /\ r \in ThreadState
        /\ r.pc = "link_link" /\ r.op = th[t].op /\ r.path = th[t].path
        /\ r.handle = th[t].handle /\ r.dest = th[t].dest /\ r.key = th[t].key
    BY <1>1, <2>1 DEF ThreadState
  <2>3. LocalsOf(r)
    BY <1>1, <1>2, <2>1, <2>2 DEF LocalsOf, BreakPcs, LinkPcs
  <2>4. PICK q \in ThreadState : LocalsOf(q) /\ Step(t, q)
    BY <1>3, <1>7, <2>2, <2>3 DEF HardlinkSame
  <2> QED
    BY <1>1, <1>7, <2>4, StepTyped DEF HardlinkSame
<1>8. CASE HardlinkLink(t)
  <2> DEFINE r == [th[t] EXCEPT !.pc = "link_rename"]
  <2>1. "link_rename" \in Pcs /\ th[t].pc = "link_link"
    BY <1>8 DEF Pcs, HardlinkLink, AtPc
  <2>2. /\ r \in ThreadState
        /\ r.pc = "link_rename" /\ r.op = th[t].op /\ r.path = th[t].path
        /\ r.handle = th[t].handle /\ r.dest = th[t].dest /\ r.key = th[t].key
    BY <1>1, <2>1 DEF ThreadState
  <2>3. LocalsOf(r)
    BY <1>1, <1>2, <2>1, <2>2 DEF LocalsOf, BreakPcs, LinkPcs
  <2>4. [dir EXCEPT ![LinkTmp(t)] = dir[LinkSource(t)]] \in [Names -> Inodes \cup {None}]
    BY <1>1, <1>6, <2>1
  <2>5. PICK q \in ThreadState :
          /\ LocalsOf(q)
          /\ Host([dir EXCEPT ![LinkTmp(t)] = dir[LinkSource(t)]], ino, fh,
                  [th EXCEPT ![t] = q])
    BY <1>3, <1>8, <2>2, <2>3 DEF HardlinkLink
  <2> QED
    BY <1>1, <1>8, <2>4, <2>5, HostStepTyped DEF HardlinkLink
<1>9. CASE HardlinkRename(t)
  <2>1. th[t].pc = "link_rename"
    BY <1>9 DEF HardlinkRename, AtPc
  <2> QED
    BY <1>1, <1>3, <1>6, <1>9, <2>1, EntriesTyped, HostStepTyped DEF HardlinkRename
<1>10. CASE HardlinkFails(t)
  <2>1. th[t].pc \in {"link_link", "link_rename"}
    BY <1>10 DEF HardlinkFails
  <2> QED
    BY <1>1, <1>3, <1>6, <1>10, <2>1, EntriesTyped, HostStepTyped DEF HardlinkFails
<1> QED
  BY <1>4, <1>5, <1>7, <1>8, <1>9, <1>10

-----------------------------------------------------------------------------
(* Client calls and main().                                                 *)

LEMMA StartTyped ==
  ASSUME Typed, NEW t \in Threads,
         \/ \E f \in Files : Unlink(t, f) \/ NextTask(t, f)
         \/ \E h \in Handles : Release(t, h)
  PROVE  Typed'
<1>1. /\ lockdir \subseteq Files /\ todo \in [Threads -> SUBSET Files]
      /\ dir \in [Names -> Inodes \cup {None}] /\ ino \in [Inodes -> Contents]
      /\ fh \in [Handles -> Handle \cup {None}]
  BY DEF Typed, TypeOK
<1>2. \A p \in {"unlink_read", "link_lock"}, o \in {"unlink", "release", "startup"}, g \in Files :
        LET r == [Idle EXCEPT !.pc = p, !.op = o, !.path = g]
        IN /\ r \in ThreadState
           /\ (p = "unlink_read" <=> o = "unlink") => LocalsOf(r)
  <2> SUFFICES ASSUME NEW p \in {"unlink_read", "link_lock"},
                      NEW o \in {"unlink", "release", "startup"}, NEW g \in Files
               PROVE  LET r == [Idle EXCEPT !.pc = p, !.op = o, !.path = g]
                      IN /\ r \in ThreadState
                         /\ (p = "unlink_read" <=> o = "unlink") => LocalsOf(r)
    OBVIOUS
  <2> DEFINE r == [Idle EXCEPT !.pc = p, !.op = o, !.path = g]
  <2>1. p \in Pcs /\ o \in Ops
    BY DEF Pcs, Ops
  <2>2. r \in ThreadState /\ r.pc = p /\ r.op = o /\ r.path = g
    BY <2>1, IdleTyped DEF ThreadState, Idle
  <2> QED
    BY <2>2 DEF LocalsOf, BreakPcs, LinkPcs
<1>3. ASSUME NEW f \in Files, Unlink(t, f) PROVE Typed'
  <2> DEFINE r == [Idle EXCEPT !.pc = "unlink_read", !.op = "unlink", !.path = f]
  <2>1. r \in ThreadState /\ LocalsOf(r)
    BY <1>2
  <2> QED
    BY <1>1, <1>3, <2>1, StepTyped DEF Unlink
<1>4. ASSUME NEW h \in Handles, Release(t, h) PROVE Typed'
  <2> DEFINE r == [Idle EXCEPT !.pc = "link_lock", !.op = "release", !.path = fh[h].path]
  <2>1. fh[h] \in Handle /\ fh[h].path \in Files
    BY <1>1, <1>4 DEF Release, Handle
  <2>2. r \in ThreadState /\ LocalsOf(r)
    BY <1>2, <2>1
  <2>3. [fh EXCEPT ![h] = None] \in [Handles -> Handle \cup {None}]
    BY <1>1
  <2>4. PICK q \in ThreadState :
          LocalsOf(q) /\ Host(dir, ino, [fh EXCEPT ![h] = None], [th EXCEPT ![t] = q])
    BY <1>4, <2>2, IdleTyped DEF Release
  <2> QED
    BY <1>1, <1>4, <2>3, <2>4, HostStepTyped DEF Release
<1>5. ASSUME NEW f \in Files, NextTask(t, f) PROVE Typed'
  <2> DEFINE r == [Idle EXCEPT !.pc = "link_lock", !.op = "startup", !.path = f]
  <2>1. r \in ThreadState /\ LocalsOf(r)
    BY <1>2
  <2>2. todo' \in [Threads -> SUBSET Files]
    BY <1>1, <1>5 DEF NextTask
  <2> QED
    BY <1>1, <1>5, <2>1, <2>2, StepTyped DEF NextTask
<1> QED
  BY <1>3, <1>4, <1>5

LEMMA ClientTyped ==
  ASSUME Typed,
         \/ \E f \in Files, h \in Handles : OpenRead(f, h) \/ CreateRead(f, h)
         \/ \E h \in Handles, c \in Contents : Write(h, c)
         \/ \E f \in Files : Truncate(f)
         \/ \E f, g \in Files : Rename(f, g) \/ Link(f, g)
  PROVE  Typed'
<1>1. /\ dir \in [Names -> Inodes \cup {None}] /\ ino \in [Inodes -> Contents]
      /\ fh \in [Handles -> Handle \cup {None}] /\ th \in [Threads -> ThreadState]
      /\ \A t \in Threads : LocalsOf(th[t])
      /\ lockdir \subseteq Files /\ todo \in [Threads -> SUBSET Files]
      /\ phase \in Phases /\ kills \in 0 .. MaxKills
  BY DEF Typed, TypeOK, LocalsOK
<1>2. Files \subseteq Names
  BY DEF Names
<1> DEFINE Hosted == \E d \in [Names -> Inodes \cup {None}], n \in [Inodes -> Contents],
                        k \in [Handles -> Handle \cup {None}] : Host(d, n, k, th)
<1>3. Hosted
  <2>1. ASSUME NEW f \in Files, NEW h \in Handles, OpenRead(f, h)
        PROVE  Hosted
    <3>1. dir[f] \in Inodes
      BY <1>1, <1>2, <2>1 DEF OpenRead, Exists
    <3>2. [fh EXCEPT ![h] = [path |-> f, ino |-> dir[f], access |-> "r"]]
            \in [Handles -> Handle \cup {None}]
      BY <1>1, <3>1 DEF Handle
    <3> QED
      BY <1>1, <2>1, <3>2 DEF OpenRead
  <2>2. ASSUME NEW h \in Handles, NEW c \in Contents, Write(h, c)
        PROVE  Hosted
    <3>1. [ino EXCEPT ![fh[h].ino] = c] \in [Inodes -> Contents]
      BY <1>1
    <3> QED
      BY <1>1, <2>2, <3>1 DEF Write
  <2>3. ASSUME NEW f \in Files, Truncate(f)
        PROVE  Hosted
    <3>1. [ino EXCEPT ![dir[f]] = Empty] \in [Inodes -> Contents]
      BY <1>1, ConstantsAssumption
    <3> QED
      BY <1>1, <2>3, <3>1 DEF Truncate
  <2>4. ASSUME NEW f \in Files, NEW g \in Files, Rename(f, g)
        PROVE  Hosted
    BY <1>1, <1>2, <2>4, EntriesTyped DEF Rename
  <2>5. ASSUME NEW f \in Files, NEW g \in Files, Link(f, g)
        PROVE  Hosted
    <3>1. [dir EXCEPT ![g] = dir[f]] \in [Names -> Inodes \cup {None}]
      BY <1>1, <1>2
    <3> QED
      BY <1>1, <2>5, <3>1 DEF Link
  <2>6. ASSUME NEW f \in Files, NEW h \in Handles, CreateRead(f, h)
        PROVE  Hosted
    <3>1. PICK i \in Inodes :
            Host([dir EXCEPT ![f] = i], [ino EXCEPT ![i] = Empty],
                 [fh EXCEPT ![h] = [path |-> f, ino |-> i, access |-> "r"]], th)
      BY <2>6 DEF CreateRead
    <3>2. /\ [dir EXCEPT ![f] = i] \in [Names -> Inodes \cup {None}]
          /\ [ino EXCEPT ![i] = Empty] \in [Inodes -> Contents]
          /\ [fh EXCEPT ![h] = [path |-> f, ino |-> i, access |-> "r"]]
               \in [Handles -> Handle \cup {None}]
      BY <1>1, <1>2, ConstantsAssumption DEF Handle
    <3> QED
      BY <3>1, <3>2
  <2> QED
    BY <2>1, <2>2, <2>3, <2>4, <2>5, <2>6
<1>4. UNCHANGED <<lockdir, phase, todo, kills>>
  BY DEF OpenRead, CreateRead, Write, Truncate, Rename, Link
<1> QED
  BY <1>1, <1>3, <1>4, HostTyped

LEMMA MainTyped ==
  ASSUME Typed, GcTree \/ HardlinkTree \/ FuseMain \/ Kill \/ Restart
  PROVE  Typed'
<1>1. /\ dir \in [Names -> Inodes \cup {None}] /\ ino \in [Inodes -> Contents]
      /\ fh \in [Handles -> Handle \cup {None}] /\ th \in [Threads -> ThreadState]
      /\ \A t \in Threads : LocalsOf(th[t])
      /\ lockdir \subseteq Files /\ todo \in [Threads -> SUBSET Files]
      /\ phase \in Phases /\ kills \in 0 .. MaxKills
  BY DEF Typed, TypeOK, LocalsOK
<1>2. CASE GcTree
  <2>1. [n \in Names |-> IF InRepo(n) /\ SoleLink(n) THEN None ELSE dir[n]]
          \in [Names -> Inodes \cup {None}]
    BY <1>1
  <2>2. phase' \in Phases /\ UNCHANGED <<lockdir, todo, kills>>
    BY <1>2 DEF GcTree, Phases
  <2>3. Host([n \in Names |-> IF InRepo(n) /\ SoleLink(n) THEN None ELSE dir[n]], ino, fh, th)
    BY <1>2 DEF GcTree
  <2> QED
    BY <1>1, <2>1, <2>2, <2>3, HostTyped
<1>3. CASE HardlinkTree
  <2>1. todo' \in [Threads -> SUBSET Files] /\ phase' \in Phases
    BY <1>3 DEF HardlinkTree, Phases
  <2> QED
    BY <1>1, <1>3, <2>1 DEF HardlinkTree, Typed, TypeOK, LocalsOK, host
<1>4. CASE FuseMain
  BY <1>1, <1>4 DEF FuseMain, Phases, Typed, TypeOK, LocalsOK, host
<1>5. CASE Kill
  <2>1. kills' \in 0 .. MaxKills
    BY <1>1, <1>5, ConstantsAssumption DEF Kill
  <2> QED
    BY <1>1, <1>5, <2>1, DieTyped DEF Kill
<1>6. CASE Restart
  BY <1>1, <1>6 DEF Restart, Phases, Typed, TypeOK, LocalsOK, host
<1> QED
  BY <1>2, <1>3, <1>4, <1>5, <1>6

\* The four ways a thread goes on after a call that failed.
LEMMA HostFailsCases ==
  ASSUME NEW t \in Threads, HostFails(t)
  PROVE  \/ AtPc(t, "unlink_read") /\ Step(t, [th[t] EXCEPT !.pc = "unlink_file", !.ret = "false"])
         \/ AtPc(t, "unlink_file") /\ Step(t, [th[t] EXCEPT !.pc = "gc_lstat"])
         \/ Step(t, Idle)
         \/ /\ Step(t, Return(t, "false"))
            /\ \/ th[t].pc \in {"break_stat", "gc_read", "link_read", "link_lstat"}
               \/ AtPc(t, "gc_unlink") /\ th[t].op # "unlink"
BY DEF HostFails, AtPc

LEMMA HostFailsTyped ==
  ASSUME Typed, NEW t \in Threads, HostFails(t)
  PROVE  Typed'
<1>1. /\ th[t] \in ThreadState
      /\ LocalsOf(th[t])
      /\ lockdir \subseteq Files /\ todo \in [Threads -> SUBSET Files]
  BY DEF Typed, TypeOK, LocalsOK
<1>2. UNCHANGED <<host, lockdir, phase, todo, fh, kills>>
  BY DEF HostFails
<1>3. "unlink_file" \in Pcs /\ "gc_lstat" \in Pcs
  BY DEF Pcs
<1>4. CASE AtPc(t, "unlink_read") /\ Step(t, [th[t] EXCEPT !.pc = "unlink_file", !.ret = "false"])
  <2> DEFINE r == [th[t] EXCEPT !.pc = "unlink_file", !.ret = "false"]
  <2>1. /\ r \in ThreadState
        /\ r.pc = "unlink_file" /\ r.op = th[t].op /\ r.path = th[t].path
        /\ r.handle = th[t].handle
    BY <1>1, <1>3 DEF ThreadState
  <2>2. LocalsOf(r)
    BY <1>1, <1>4, <2>1 DEF AtPc, LocalsOf, BreakPcs, LinkPcs
  <2> QED
    BY <1>1, <1>2, <1>4, <2>1, <2>2, StepTyped
<1>5. CASE AtPc(t, "unlink_file") /\ Step(t, [th[t] EXCEPT !.pc = "gc_lstat"])
  <2> DEFINE r == [th[t] EXCEPT !.pc = "gc_lstat"]
  <2>1. /\ r \in ThreadState
        /\ r.pc = "gc_lstat" /\ r.op = th[t].op /\ r.path = th[t].path
        /\ r.handle = th[t].handle
    BY <1>1, <1>3 DEF ThreadState
  <2>2. LocalsOf(r)
    BY <1>1, <1>5, <2>1 DEF AtPc, LocalsOf, BreakPcs, LinkPcs
  <2> QED
    BY <1>1, <1>2, <1>5, <2>1, <2>2, StepTyped
<1>6. CASE Step(t, Idle)
  BY <1>1, <1>2, <1>6, IdleTyped, StepTyped
<1>7. CASE /\ Step(t, Return(t, "false"))
           /\ \/ th[t].pc \in {"break_stat", "gc_read", "link_read", "link_lstat"}
              \/ AtPc(t, "gc_unlink") /\ th[t].op # "unlink"
  <2>1. th[t].op \in {"open", "create", "release", "startup"} /\ th[t].pc # "idle"
    BY <1>1, <1>7 DEF AtPc, LocalsOf, BreakPcs, LinkPcs
  <2> QED
    BY <1>1, <1>2, <1>7, <2>1, ReturnTyped, StepTyped
<1> QED
  BY <1>4, <1>5, <1>6, <1>7, HostFailsCases

LEMMA TempFailsTyped ==
  ASSUME Typed, NEW t \in Threads, TempFails(t)
  PROVE  Typed'
BY DieTyped DEF TempFails, Abort, Typed, TypeOK

LEMMA NextTyped == Typed /\ [Next]_vars => Typed'
<1> SUFFICES ASSUME Typed, [Next]_vars PROVE Typed'
  OBVIOUS
<1>1. CASE Startup
  BY <1>1, MainTyped, StartTyped DEF Startup
<1>2. CASE Client
  BY <1>2, StartBreakTyped, StartTyped, ClientTyped DEF Client
<1>3. ASSUME NEW t \in Threads, Proceed(t) PROVE Typed'
  BY <1>3, LockTyped, BreakTyped, OpenFdTyped, GcTyped, LinkTyped, TempFailsTyped,
     HostFailsTyped DEF Proceed
<1>4. CASE Kill \/ Restart
  BY <1>4, MainTyped
<1>5. CASE UNCHANGED vars
  BY <1>5 DEF vars, Typed, TypeOK, LocalsOK
<1> QED
  BY <1>1, <1>2, <1>3, <1>4, <1>5 DEF Next

\* Type correctness of cowfs, and of the locals of its handlers at every
\* program counter.
THEOREM TypeCorrect == Spec => []TypeOK
<1>1. Spec => []Typed
  BY InitTyped, NextTyped, PTL DEF Spec
<1>2. Typed => TypeOK
  BY DEF Typed
<1> QED
  BY <1>1, <1>2, PTL

-----------------------------------------------------------------------------
(* The mkdir lock.                                                          *)

\* Thread t ends its handler, or goes on with it, on the same path and for
\* the same handle; it does not get past the lock.
Advance(t, r) ==
  \/ r = Idle
  \/ /\ r.op = th[t].op
     /\ r.path = th[t].path
     /\ r.handle = th[t].handle
     /\ th[t].pc \in {"idle", "break_lock", "link_lock", "open_fd"} => r.pc = th[t].pc

LEMMA ProceedAdvances ==
  ASSUME Typed, NEW t \in Threads, Proceed(t), ~LockTake(t), ~Unlock(t)
  PROVE  \/ Abort
         \/ \E r : /\ Advance(t, r)
                  /\ th' = [th EXCEPT ![t] = r]
                  /\ UNCHANGED <<lockdir, phase, todo>>
<1>1. /\ th[t] \in ThreadState
      /\ LocalsOf(th[t])
  BY DEF Typed, TypeOK, LocalsOK
<1>2. ASSUME NEW b \in {"true", "false"}, th[t].pc \notin {"idle", "break_lock", "link_lock", "open_fd"}
      PROVE  Advance(t, Return(t, b))
  BY <1>1, <1>2 DEF Advance, Return, ThreadState
<1>3. ASSUME NEW p \in Pcs, th[t].pc \notin {"idle", "break_lock", "link_lock", "open_fd"}
      PROVE  /\ Advance(t, [th[t] EXCEPT !.pc = p])
             /\ Advance(t, [th[t] EXCEPT !.pc = p, !.from = None])
             /\ \A k : Advance(t, [th[t] EXCEPT !.key = k, !.pc = p])
             /\ \A d : Advance(t, [th[t] EXCEPT !.dest = d, !.pc = p])
             /\ Advance(t, [th[t] EXCEPT !.pc = p, !.ret = "false"])
  BY <1>1, <1>3 DEF Advance, ThreadState
<1>4. Advance(t, Idle)
  BY DEF Advance
<1>5. CASE LockSpin(t)
  <2>1. Advance(t, [th[t] EXCEPT !.errno = "EEXIST"])
    BY <1>1 DEF Advance, ThreadState
  <2> QED
    BY <1>5, <2>1 DEF LockSpin, Step
<1>6. CASE \/ BreakStat(t) \/ BreakCopy(t) \/ BreakCopyFails(t) \/ BreakCopyShort(t)
           \/ BreakRename(t) \/ BreakRenameFails(t)
  BY <1>2, <1>3, <1>6 DEF BreakStat, BreakCopy, BreakCopyFails, BreakCopyShort, BreakRename,
                          BreakRenameFails, Step, Host, AtPc, Pcs
<1>7. CASE OpenFd(t)
  BY <1>4, <1>7 DEF OpenFd, Host
<1>8. CASE GetRepoItemPath(t) \/ GcLstat(t) \/ GcUnlink(t) \/ UnlinkFile(t)
  <2>1. Advance(t, AfterGc(t)) \/ th[t].pc \notin {"gc_lstat", "gc_unlink"}
    BY <1>2, <1>4 DEF AfterGc
  <2>2. CASE GetRepoItemPath(t) /\ ~Abort
    <3> DEFINE p == IF th[t].pc = "gc_read" THEN "gc_lstat" ELSE "unlink_file"
               r == [th[t] EXCEPT !.key = ino[dir[Path(t)]], !.pc = p]
    <3>1. p \in Pcs /\ th[t].pc \notin {"idle", "break_lock", "link_lock", "open_fd"}
      BY <2>2 DEF Pcs, GetRepoItemPath
    <3>2. Advance(t, r)
      BY <1>3, <3>1
    <3>3. Step(t, r) /\ UNCHANGED <<lockdir, phase, todo>>
      BY <2>2 DEF GetRepoItemPath
    <3> QED
      BY <3>2, <3>3 DEF Step
  <2>3. CASE GcLstat(t) \/ GcUnlink(t) \/ UnlinkFile(t)
    BY <1>3, <2>1, <2>3 DEF GcLstat, GcUnlink, UnlinkFile, Step, Host, AtPc, Pcs
  <2> QED
    BY <1>8, <2>2, <2>3
<1>9. CASE LinkRead(t) \/ LinkLstat(t) \/ HardlinkSame(t) \/ HardlinkLink(t)
  <2>1. CASE LinkRead(t) /\ ~Abort
    <3> DEFINE r == [th[t] EXCEPT !.key = ino[dir[Path(t)]], !.pc = "link_lstat"]
    <3>1. Advance(t, r)
      BY <1>3, <2>1 DEF LinkRead, AtPc, Pcs
    <3>2. Step(t, r) /\ UNCHANGED <<lockdir, phase, todo>>
      BY <2>1 DEF LinkRead
    <3> QED
      BY <3>1, <3>2 DEF Step
  <2>2. CASE LinkLstat(t)
    <3> DEFINE d == IF Exists(th[t].key) THEN Path(t) ELSE th[t].key
               r == [th[t] EXCEPT !.dest = d, !.pc = "link_same"]
    <3>1. Advance(t, r)
      BY <1>3, <2>2 DEF LinkLstat, AtPc, Pcs
    <3>2. Step(t, r) /\ UNCHANGED <<lockdir, phase, todo>>
      BY <2>2 DEF LinkLstat
    <3> QED
      BY <3>1, <3>2 DEF Step
  <2>3. CASE HardlinkSame(t) \/ HardlinkLink(t)
    BY <1>2, <1>3, <2>3 DEF HardlinkSame, HardlinkLink, Step, Host, AtPc, Pcs
  <2> QED
    BY <1>9, <2>1, <2>2, <2>3
<1>10. CASE HardlinkRename(t) \/ HardlinkFails(t)
  BY <1>2, <1>10 DEF HardlinkRename, HardlinkFails, Host, AtPc
<1>11. CASE HostFails(t)
  <2>1. "unlink_file" \in Pcs /\ "gc_lstat" \in Pcs
    BY DEF Pcs
  <2>2. UNCHANGED <<lockdir, phase, todo>>
    BY <1>11 DEF HostFails
  <2> QED
    BY <1>2, <1>3, <1>4, <1>11, <2>1, <2>2, HostFailsCases DEF Step, AtPc
<1> QED
  BY <1>5, <1>6, <1>7, <1>8, <1>9, <1>10, <1>11 DEF Proceed, TempFails

\* A step of one thread that stays on its side of the lock keeps the mutex.
LEMMA AdvanceKeepsLock ==
  ASSUME Typed, LockExclusive, NEW t \in Threads, NEW r, Advance(t, r),
         th' = [th EXCEPT ![t] = r], lockdir' = lockdir
  PROVE  LockExclusive'
<1>1. Scoped(r) => Scoped(th[t]) /\ r.path = th[t].path
  <2>1. ~Scoped(Idle)
    BY DEF Scoped, Idle
  <2>2. th[t].pc \in Pcs
    BY DEF Typed, TypeOK, ThreadState
  <2> QED
    BY <2>1, <2>2 DEF Advance, Scoped
<1>2. \A u \in Threads : th'[u] = IF u = t THEN r ELSE th[u]
  BY DEF Typed, TypeOK
<1>3. \A u \in Threads : Scoped(th'[u]) => Scoped(th[u]) /\ th'[u].path = th[u].path
  BY <1>1, <1>2
<1>4. SUFFICES ASSUME NEW u \in Threads, Scoped(th'[u])
               PROVE  /\ th'[u].path \in lockdir'
                      /\ \A v \in Threads : Scoped(th'[v]) /\ th'[v].path = th'[u].path => v = u
  BY DEF LockExclusive, InScope, Path
<1> QED
  BY <1>3, <1>4 DEF LockExclusive, InScope, Path

LEMMA AllIdleLock ==
  ASSUME th' = AllIdle
  PROVE  LockExclusive'
BY DEF AllIdle, Idle, LockExclusive, InScope, Scoped

\* A handler that starts is outside the lock.
LEMMA StartKeepsLock ==
  ASSUME Typed, LockExclusive, NEW t \in Threads, NEW r, ~Scoped(r),
         th' = [th EXCEPT ![t] = r], lockdir' = lockdir
  PROVE  LockExclusive'
<1>1. \A u \in Threads : th'[u] = IF u = t THEN r ELSE th[u]
  BY DEF Typed, TypeOK
<1> QED
  BY <1>1 DEF LockExclusive, InScope, Path

LEMMA LockStep ==
  ASSUME Typed, LockExclusive, NEW t \in Threads, LockTake(t) \/ Unlock(t)
  PROVE  LockExclusive'
<1>1. th[t] \in ThreadState /\ LocalsOf(th[t])
  BY DEF Typed, TypeOK, LocalsOK
<1>2. CASE LockTake(t)
  <2> DEFINE r == [th[t] EXCEPT !.pc = AfterLock[th[t].pc]]
  <2>1. r.path = th[t].path
    BY <1>1 DEF ThreadState
  <2>2. \A u \in Threads : th'[u] = IF u = t THEN r ELSE th[u]
    BY <1>2 DEF LockTake, Step, Typed, TypeOK
  <2>3. \A u \in Threads : Scoped(th[u]) => th[u].path # th[t].path
    BY <1>2 DEF LockTake, LockExclusive, InScope, Path
  <2>4. lockdir' = lockdir \cup {th[t].path}
    BY <1>2 DEF LockTake, Path
  <2>5. SUFFICES ASSUME NEW u \in Threads, Scoped(th'[u])
                 PROVE  /\ th'[u].path \in lockdir'
                        /\ \A v \in Threads :
                             Scoped(th'[v]) /\ th'[v].path = th'[u].path => v = u
    BY DEF LockExclusive, InScope, Path
  <2>6. CASE u = t
    BY <2>1, <2>2, <2>3, <2>4, <2>6
  <2>7. CASE u # t
    BY <2>1, <2>2, <2>3, <2>4, <2>5, <2>7 DEF LockExclusive, InScope, Path
  <2> QED
    BY <2>6, <2>7
<1>3. CASE Unlock(t)
  <2>1. CASE Die("aborted")
    BY <2>1, AllIdleLock DEF Die, Host
  <2>2. CASE Host(dir, ino, fh, [th EXCEPT ![t] = AfterUnlock(t)])
    <3>1. Scoped(th[t])
      BY <1>1, <1>3 DEF Unlock, AtPc, Scoped, LocalsOf, Pcs
    <3>2. ~Scoped(AfterUnlock(t))
      <4>1. [th[t] EXCEPT !.pc = "open_fd", !.from = None].pc = "open_fd"
        BY <1>1 DEF ThreadState
      <4> QED
        BY <4>1 DEF AfterUnlock, Scoped, Idle
    <3>3. \A u \in Threads : th'[u] = IF u = t THEN AfterUnlock(t) ELSE th[u]
      BY <2>2 DEF Host, Typed, TypeOK
    <3>4. lockdir' = lockdir \ {th[t].path} \/ lockdir' = lockdir
      BY <1>3 DEF Unlock, Path
    <3> QED
      BY <3>1, <3>2, <3>3, <3>4 DEF LockExclusive, InScope, Path
  <2> QED
    BY <1>3, <2>1, <2>2 DEF Unlock
<1> QED
  BY <1>2, <1>3

LEMMA ClientKeepsLock ==
  ASSUME Typed, LockExclusive, Client
  PROVE  LockExclusive'
<1>1. ASSUME NEW t \in Threads, NEW f \in Files, NEW h \in Handles,
             Open(t, f, h) \/ Create(t, f, h)
      PROVE  LockExclusive'
  <2>1. PICK o : StartBreak(t, o, f, h)
    BY <1>1 DEF Open, Create
  <2>2. PICK i : th' = [th EXCEPT ![t] = BreakStart(o, f, h, i)]
    BY <2>1, StartBreakStarts
  <2>3. ~Scoped(BreakStart(o, f, h, i))
    BY BreakStartFields DEF Scoped
  <2> QED
    BY <2>1, <2>2, <2>3, StartKeepsLock DEF StartBreak
<1>2. ASSUME NEW t \in Threads, NEW h \in Handles, Release(t, h)
      PROVE  LockExclusive'
  <2>1. ~Scoped(Idle) /\ \A o, f : ~Scoped([Idle EXCEPT !.pc = "link_lock", !.op = o, !.path = f])
    BY DEF Scoped, Idle
  <2>2. PICK r : ~Scoped(r) /\ th' = [th EXCEPT ![t] = r]
    BY <1>2, <2>1 DEF Release, Host
  <2> QED
    BY <1>2, <2>2, StartKeepsLock DEF Release
<1>3. ASSUME NEW t \in Threads, NEW f \in Files, Unlink(t, f)
      PROVE  LockExclusive'
  <2>1. ~Scoped([Idle EXCEPT !.pc = "unlink_read", !.op = "unlink", !.path = f])
    BY DEF Scoped, Idle
  <2> QED
    BY <1>3, <2>1, StartKeepsLock DEF Unlink, Step
<1>4. ASSUME UNCHANGED <<th, lockdir>> PROVE LockExclusive'
  BY <1>4 DEF LockExclusive, InScope, Path
<1> QED
  BY <1>1, <1>2, <1>3, <1>4 DEF Client, OpenRead, CreateRead, Write, Truncate, Rename, Link,
                                Host

LEMMA NextLock == Typed /\ LockExclusive /\ [Next]_vars => LockExclusive'
<1> SUFFICES ASSUME Typed, LockExclusive, [Next]_vars PROVE LockExclusive'
  OBVIOUS
<1>1. ASSUME UNCHANGED <<th, lockdir>> PROVE LockExclusive'
  BY <1>1 DEF LockExclusive, InScope, Path
<1>2. CASE Startup
  <2>1. ASSUME NEW t \in Threads, NEW f \in Files, NextTask(t, f) PROVE LockExclusive'
    <3>1. ~Scoped([Idle EXCEPT !.pc = "link_lock", !.op = "startup", !.path = f])
      BY DEF Scoped, Idle
    <3> QED
      BY <2>1, <3>1, StartKeepsLock DEF NextTask, Step
  <2> QED
    BY <1>1, <1>2, <2>1 DEF Startup, GcTree, HardlinkTree, FuseMain, Host
<1>3. CASE Client
  BY <1>3, ClientKeepsLock
<1>4. ASSUME NEW t \in Threads, Proceed(t) PROVE LockExclusive'
  <2>1. CASE LockTake(t) \/ Unlock(t)
    BY <2>1, LockStep
  <2>2. CASE Abort
    BY <2>2, AllIdleLock DEF Abort, Die, Host
  <2> QED
    BY <1>4, <2>1, <2>2, ProceedAdvances, AdvanceKeepsLock
<1>5. CASE Kill
  BY <1>5, AllIdleLock DEF Kill, Die, Host
<1>6. CASE Restart \/ UNCHANGED vars
  BY <1>1, <1>6 DEF Restart, vars
<1> QED
  BY <1>2, <1>3, <1>4, <1>5, <1>6 DEF Next

\* ScopedFileLockWithDelete is a mutex, whatever the clients do, wherever
\* the daemon is killed and however many lock directories an earlier daemon
\* has left behind.
THEOREM LockIsMutex == Spec => []LockExclusive
<1>1. Init => LockExclusive
  BY DEF Init, AllIdle, Idle, LockExclusive, InScope, Scoped
<1> QED
  BY <1>1, InitTyped, NextTyped, NextLock, PTL DEF Spec

-----------------------------------------------------------------------------
(* No file is lost.  A rename(2) over a file must find its source: the      *)
(* temporary name of a thread is touched by that thread only, and GcTree,   *)
(* which removes temporary names of the repository, runs alone.             *)

HasTmp(t) ==
  /\ th[t].pc = "break_rename" => Exists(BreakTmp(t))
  /\ th[t].pc = "link_rename" => Exists(LinkTmp(t))

TmpExists == \A t \in Threads : HasTmp(t)

StoppedPhases == {"gc", "walk", "killed", "aborted"}
Stopped == phase \in StoppedPhases => \A t \in Threads : th[t].pc = "idle"

Inv == Typed /\ LockExclusive /\ TmpExists /\ Stopped

\* A step changes no temporary name but those of thread t.
OnlyTmpOf(t) == \A n \in TmpNames : n[3] # t => dir'[n] = dir[n]

LEMMA NamesDistinct ==
  ASSUME NEW f \in Files, NEW c \in Contents, NEW n \in TmpNames
  PROVE  f # c /\ f # n /\ c # n /\ f \in Names /\ c \in Names /\ n \in Names
BY ConstantsAssumption DEF Names

LEMMA TmpOwner ==
  ASSUME Typed, NEW t \in Threads
  PROVE  /\ th[t].path \in Files => BreakTmp(t) \in TmpNames /\ BreakTmp(t)[3] = t
         /\ th[t].dest \in Files \cup Contents => LinkTmp(t) \in TmpNames /\ LinkTmp(t)[3] = t
BY DEF BreakTmp, LinkTmp, Path, TmpNames

\* An update of a temporary name of t loses no file and touches no other
\* thread's names; nor does the removal of a repository item.
LEMMA TmpUpdate ==
  ASSUME Typed, NEW t \in Threads, NEW n \in TmpNames, n[3] = t, NEW i,
         dir' = [dir EXCEPT ![n] = i]
  PROVE  OnlyTmpOf(t) /\ KeepsFiles /\ dir'[n] = i
<1>1. dir \in [Names -> Inodes \cup {None}] /\ n \in Names
  BY DEF Typed, TypeOK, Names
<1>2. \A f \in Files : f \in Names /\ f # n
  BY ConstantsAssumption DEF Names
<1>3. TmpNames \subseteq Names
  BY DEF Names
<1> QED
  BY <1>1, <1>2, <1>3 DEF OnlyTmpOf, KeepsFiles, Exists

LEMMA RenameUpdate ==
  ASSUME Typed, NEW t \in Threads, NEW n \in TmpNames, n[3] = t, Exists(n),
         NEW m \in Files \cup Contents, dir' = RenameEntry(n, m)
  PROVE  OnlyTmpOf(t) /\ KeepsFiles
<1>1. dir \in [Names -> Inodes \cup {None}] /\ n \in Names /\ m \in Names
  BY DEF Typed, TypeOK, Names
<1>2. \A f \in Files : f \in Names /\ f # n
  BY ConstantsAssumption DEF Names
<1>3. TmpNames \subseteq Names /\ m \notin TmpNames
  BY ConstantsAssumption DEF Names
<1>4. CASE dir' = dir
  BY <1>1, <1>2, <1>4 DEF OnlyTmpOf, KeepsFiles, Exists
<1>5. CASE dir' = [dir EXCEPT ![m] = dir[n], ![n] = None]
  BY <1>1, <1>2, <1>3, <1>5 DEF OnlyTmpOf, KeepsFiles, Exists
<1> QED
  BY <1>4, <1>5 DEF RenameEntry

LEMMA SameDir ==
  ASSUME Typed, NEW t \in Threads, dir' = dir
  PROVE  OnlyTmpOf(t) /\ KeepsFiles
BY DEF OnlyTmpOf, KeepsFiles, Exists

\* What a step of thread t does to the names.
Effect(t) ==
  /\ OnlyTmpOf(t)
  /\ KeepsFiles
  /\ HasTmp(t)'

LEMMA NotRenaming ==
  ASSUME Typed, NEW t \in Threads, NEW r, th' = [th EXCEPT ![t] = r],
         r.pc \notin {"break_rename", "link_rename"}
  PROVE  HasTmp(t)'
BY DEF HasTmp, Typed, TypeOK

LEMMA ReturnPc ==
  ASSUME Typed, NEW t \in Threads, NEW b
  PROVE  Return(t, b).pc = "unlock"
BY DEF Return, ThreadState, Typed, TypeOK

LEMMA BreakEffect ==
  ASSUME Typed, TmpExists, NEW t \in Threads,
         \/ BreakStat(t) \/ BreakCopy(t) \/ BreakCopyFails(t)
         \/ BreakCopyShort(t) \/ BreakRename(t) \/ BreakRenameFails(t)
  PROVE  Effect(t)
<1>1. /\ th[t] \in ThreadState
      /\ LocalsOf(th[t])
      /\ dir \in [Names -> Inodes \cup {None}]
      /\ th \in [Threads -> ThreadState]
  BY DEF Typed, TypeOK, LocalsOK
<1>2. Path(t) \in Files /\ BreakTmp(t) \in TmpNames /\ BreakTmp(t)[3] = t
  <2>1. th[t].path \in Files
    BY <1>1 DEF BreakStat, BreakCopy, BreakCopyFails, BreakCopyShort, BreakRename,
                BreakRenameFails, AtPc, LocalsOf
  <2> QED
    BY <2>1, TmpOwner DEF Path
<1>3. \A p : [th[t] EXCEPT !.pc = p].pc = p
  BY <1>1 DEF ThreadState
<1>4. CASE BreakStat(t)
  <2>1. PICK r : th' = [th EXCEPT ![t] = r] /\ r.pc \in {"unlock", "break_copy"}
    BY <1>3, <1>4, ReturnPc DEF BreakStat, Step
  <2> QED
    BY <1>4, <2>1, NotRenaming, SameDir DEF BreakStat, host, Effect
<1>5. CASE BreakCopy(t)
  <2> DEFINE r == [th[t] EXCEPT !.pc = "break_rename", !.from = None]
  <2>1. PICK i \in Inodes : dir' = [dir EXCEPT ![BreakTmp(t)] = i] /\ th' = [th EXCEPT ![t] = r]
    BY <1>5 DEF BreakCopy, Host
  <2>2. r.pc = "break_rename" /\ r.path = th[t].path
    BY <1>1 DEF ThreadState
  <2>3. OnlyTmpOf(t) /\ KeepsFiles /\ dir'[BreakTmp(t)] = i
    BY <1>2, <2>1, TmpUpdate
  <2>4. i # None
    BY ConstantsAssumption
  <2>5. HasTmp(t)'
    BY <1>1, <2>1, <2>2, <2>3, <2>4 DEF HasTmp, BreakTmp, Path, Exists
  <2> QED
    BY <2>3, <2>5 DEF Effect
<1>6. CASE BreakCopyFails(t) \/ BreakCopyShort(t) \/ BreakRenameFails(t)
  <2>1. \E c : th' = [th EXCEPT ![t] = Return(t, c)]
    BY <1>6 DEF BreakCopyFails, BreakCopyShort, BreakRenameFails, Host
  <2>2. \E i : dir' = [dir EXCEPT ![BreakTmp(t)] = i]
    BY <1>6 DEF BreakCopyFails, BreakCopyShort, BreakRenameFails, Host, UnlinkEntry
  <2> QED
    BY <1>2, <2>1, <2>2, ReturnPc, NotRenaming, TmpUpdate DEF Effect
<1>7. CASE BreakRename(t)
  <2>1. th' = [th EXCEPT ![t] = [th[t] EXCEPT !.pc = "gc_read"]]
    BY <1>7 DEF BreakRename, Host
  <2>2. Exists(BreakTmp(t))
    BY <1>7 DEF BreakRename, AtPc, TmpExists, HasTmp
  <2>3. dir' = RenameEntry(BreakTmp(t), Path(t))
    BY <1>7 DEF BreakRename, Host
  <2> QED
    BY <1>2, <1>3, <2>1, <2>2, <2>3, NotRenaming, RenameUpdate DEF Effect
<1> QED
  BY <1>4, <1>5, <1>6, <1>7

LEMMA LinkEffect ==
  ASSUME Typed, TmpExists, NEW t \in Threads,
         \/ LinkLstat(t) \/ HardlinkSame(t) \/ HardlinkLink(t)
         \/ HardlinkRename(t) \/ HardlinkFails(t)
  PROVE  Effect(t)
<1>1. /\ th[t] \in ThreadState
      /\ LocalsOf(th[t])
      /\ dir \in [Names -> Inodes \cup {None}]
      /\ th \in [Threads -> ThreadState]
  BY DEF Typed, TypeOK, LocalsOK
<1>2. th[t].pc \in {"link_same", "link_link", "link_rename"} =>
        th[t].dest \in Files \cup Contents /\ LinkTmp(t) \in TmpNames /\ LinkTmp(t)[3] = t
  BY <1>1, TmpOwner DEF LocalsOf, ThreadState
<1>3. \A p : [th[t] EXCEPT !.pc = p].pc = p
  BY <1>1 DEF ThreadState
<1>4. CASE LinkLstat(t)
  <2> DEFINE r == [th[t] EXCEPT !.dest = IF Exists(th[t].key) THEN Path(t) ELSE th[t].key,
                                !.pc = "link_same"]
  <2>1. r.pc = "link_same"
    BY <1>1 DEF ThreadState
  <2>2. th' = [th EXCEPT ![t] = r] /\ dir' = dir
    BY <1>4 DEF LinkLstat, Step, host
  <2> QED
    BY <2>1, <2>2, NotRenaming, SameDir DEF Effect
<1>5. CASE HardlinkSame(t)
  <2>1. PICK r : th' = [th EXCEPT ![t] = r] /\ r.pc \in {"unlock", "link_link"}
    BY <1>3, <1>5, ReturnPc DEF HardlinkSame, Step
  <2> QED
    BY <1>5, <2>1, NotRenaming, SameDir DEF HardlinkSame, host, Effect
<1>6. CASE HardlinkLink(t)
  <2> DEFINE r == [th[t] EXCEPT !.pc = "link_rename"]
  <2>1. th[t].pc = "link_link" /\ dir' = [dir EXCEPT ![LinkTmp(t)] = dir[LinkSource(t)]]
    BY <1>6 DEF HardlinkLink, AtPc, Host
  <2>2. OnlyTmpOf(t) /\ KeepsFiles /\ dir'[LinkTmp(t)] = dir[LinkSource(t)]
    BY <1>2, <2>1, TmpUpdate
  <2>3. CASE Exists(LinkSource(t)) /\ th' = [th EXCEPT ![t] = r]
    <3>1. r.pc = "link_rename" /\ r.dest = th[t].dest
      BY <1>1 DEF ThreadState
    <3>2. HasTmp(t)'
      BY <1>1, <2>2, <2>3, <3>1 DEF HasTmp, LinkTmp, Exists
    <3> QED
      BY <2>2, <3>2 DEF Effect
  <2>4. CASE th' = [th EXCEPT ![t] = Return(t, "false")]
    BY <2>2, <2>4, ReturnPc, NotRenaming DEF Effect
  <2> QED
    BY <1>6, <2>3, <2>4 DEF HardlinkLink, Host
<1>7. CASE HardlinkRename(t)
  <2>1. /\ th[t].pc = "link_rename"
        /\ th' = [th EXCEPT ![t] = Return(t, "true")]
        /\ dir' = RenameEntry(LinkTmp(t), th[t].dest)
    BY <1>7 DEF HardlinkRename, AtPc, Host
  <2>2. Exists(LinkTmp(t))
    BY <2>1 DEF TmpExists, HasTmp
  <2> QED
    BY <1>2, <2>1, <2>2, ReturnPc, NotRenaming, RenameUpdate DEF Effect
<1>8. CASE HardlinkFails(t)
  <2>1. /\ th[t].pc \in {"link_link", "link_rename"}
        /\ th' = [th EXCEPT ![t] = Return(t, "false")]
        /\ dir' = [dir EXCEPT ![LinkTmp(t)] = None]
    BY <1>8 DEF HardlinkFails, Host, UnlinkEntry
  <2> QED
    BY <1>2, <2>1, ReturnPc, NotRenaming, TmpUpdate DEF Effect
<1> QED
  BY <1>4, <1>5, <1>6, <1>7, <1>8

LEMMA OtherEffect ==
  ASSUME Typed, TmpExists, NEW t \in Threads, ~Die("aborted"),
         \/ LockTake(t) \/ LockSpin(t) \/ Unlock(t) \/ OpenFd(t) \/ LinkRead(t)
         \/ GetRepoItemPath(t) \/ GcLstat(t) \/ GcUnlink(t) \/ UnlinkFile(t)
  PROVE  Effect(t)
<1>1. /\ th[t] \in ThreadState
      /\ LocalsOf(th[t])
      /\ dir \in [Names -> Inodes \cup {None}]
      /\ th \in [Threads -> ThreadState]
  BY DEF Typed, TypeOK, LocalsOK
<1>2. /\ Idle.pc = "idle"
      /\ \A p : /\ [th[t] EXCEPT !.pc = p].pc = p
               /\ [th[t] EXCEPT !.pc = p, !.from = None].pc = p
               /\ \A k : [th[t] EXCEPT !.key = k, !.pc = p].pc = p
  BY <1>1 DEF ThreadState, Idle
<1>3. AfterGc(t).pc \in {"idle", "unlock"}
  BY <1>2, ReturnPc DEF AfterGc
<1>4. CASE LockTake(t)
  <2>1. AfterLock[th[t].pc] \in {"break_stat", "link_read"}
    BY <1>4 DEF LockTake, AfterLock
  <2> QED
    BY <1>2, <1>4, <2>1, NotRenaming, SameDir DEF LockTake, Step, host, Effect
<1>5. CASE LockSpin(t)
  <2>1. [th[t] EXCEPT !.errno = "EEXIST"].pc \in {"break_lock", "link_lock"}
    BY <1>1, <1>5 DEF LockSpin, ThreadState
  <2> QED
    BY <1>5, <2>1, NotRenaming, SameDir DEF LockSpin, Step, host, Effect
<1>6. CASE Unlock(t)
  <2>1. dir' = dir /\ th' = [th EXCEPT ![t] = AfterUnlock(t)]
    BY <1>6 DEF Unlock, Host
  <2>2. AfterUnlock(t).pc \in {"idle", "open_fd"}
    BY <1>2 DEF AfterUnlock
  <2> QED
    BY <2>1, <2>2, NotRenaming, SameDir DEF Effect
<1>7. CASE OpenFd(t)
  <2>1. th' = [th EXCEPT ![t] = Idle]
    BY <1>7 DEF OpenFd, Host
  <2>2. HasTmp(t)'
    BY <1>2, <2>1, NotRenaming
  <2>3. Path(t) \in Files /\ Path(t) \in Names /\ Path(t) \notin TmpNames
    BY <1>1, <1>7, ConstantsAssumption DEF OpenFd, AtPc, Path, LocalsOf, Names
  <2>4. dir' = dir \/ \E i \in Inodes : dir' = [dir EXCEPT ![Path(t)] = i]
    BY <1>7 DEF OpenFd, Host
  <2>5. TmpNames \subseteq Names /\ Files \subseteq Names /\ None \notin Inodes
    BY ConstantsAssumption DEF Names
  <2> QED
    BY <1>1, <2>2, <2>3, <2>4, <2>5 DEF Effect, OnlyTmpOf, KeepsFiles, Exists
<1>8. CASE LinkRead(t)
  <2> DEFINE r == [th[t] EXCEPT !.key = ino[dir[Path(t)]], !.pc = "link_lstat"]
  <2>1. dir' = dir /\ th' = [th EXCEPT ![t] = r]
    BY <1>8 DEF LinkRead, Abort, Step, host
  <2>2. r.pc = "link_lstat"
    BY <1>2
  <2> QED
    BY <2>1, <2>2, NotRenaming, SameDir DEF Effect
<1>9. CASE GetRepoItemPath(t)
  <2> DEFINE p == IF th[t].pc = "gc_read" THEN "gc_lstat" ELSE "unlink_file"
             r == [th[t] EXCEPT !.key = ino[dir[Path(t)]], !.pc = p]
  <2>1. dir' = dir /\ th' = [th EXCEPT ![t] = r]
    BY <1>9 DEF GetRepoItemPath, Abort, Step, host
  <2>2. r.pc \in {"gc_lstat", "unlink_file"}
    BY <1>2
  <2> QED
    BY <2>1, <2>2, NotRenaming, SameDir DEF Effect
<1>10. CASE GcLstat(t)
  <2>1. PICK r : th' = [th EXCEPT ![t] = r] /\ r.pc \in {"idle", "unlock", "gc_unlink"}
    BY <1>2, <1>3, <1>10 DEF GcLstat, Step
  <2> QED
    BY <1>10, <2>1, NotRenaming, SameDir DEF GcLstat, host, Effect
<1>11. CASE GcUnlink(t)
  <2>1. HasTmp(t)'
    BY <1>3, <1>11, NotRenaming DEF GcUnlink, Host
  <2>2. th[t].key \in Contents
    BY <1>1 DEF ThreadState
  <2>3. dir' = [dir EXCEPT ![th[t].key] = None]
    BY <1>11 DEF GcUnlink, Host, UnlinkEntry
  <2>4. /\ TmpNames \subseteq Names /\ Files \subseteq Names
        /\ th[t].key \notin Files /\ th[t].key \notin TmpNames
    BY <2>2, ConstantsAssumption DEF Names
  <2> QED
    BY <1>1, <2>1, <2>3, <2>4 DEF Effect, OnlyTmpOf, KeepsFiles, Exists
<1>12. CASE UnlinkFile(t)
  <2>1. HasTmp(t)'
    BY <1>2, <1>12, NotRenaming DEF UnlinkFile, Host
  <2>2. Path(t) \in Files
    BY <1>1, <1>12 DEF UnlinkFile, AtPc, Path, LocalsOf
  <2>3. dir' = [dir EXCEPT ![Path(t)] = None]
    BY <1>12 DEF UnlinkFile, Host, UnlinkEntry
  <2>4. TmpNames \subseteq Names /\ Files \subseteq Names /\ Path(t) \notin TmpNames
    BY <2>2, ConstantsAssumption DEF Names
  <2> QED
    BY <1>1, <1>12, <2>1, <2>3, <2>4 DEF Effect, OnlyTmpOf, KeepsFiles, Exists
<1> QED
  BY <1>4, <1>5, <1>6, <1>7, <1>8, <1>9, <1>10, <1>11, <1>12

LEMMA HostFailsEffect ==
  ASSUME Typed, TmpExists, NEW t \in Threads, HostFails(t)
  PROVE  Effect(t)
<1>1. th[t] \in ThreadState /\ Idle.pc = "idle"
  BY DEF Typed, TypeOK, Idle
<1>2. /\ [th[t] EXCEPT !.pc = "unlink_file", !.ret = "false"].pc = "unlink_file"
      /\ [th[t] EXCEPT !.pc = "gc_lstat"].pc = "gc_lstat"
  BY <1>1 DEF ThreadState
<1>3. PICK r : th' = [th EXCEPT ![t] = r] /\ r.pc \in {"idle", "unlock", "unlink_file", "gc_lstat"}
  <2>1. Return(t, "false").pc = "unlock"
    BY ReturnPc
  <2>2. CASE Step(t, Idle)
    BY <1>1, <2>2 DEF Step
  <2>3. CASE Step(t, Return(t, "false"))
    BY <2>1, <2>3 DEF Step
  <2>4. CASE \/ Step(t, [th[t] EXCEPT !.pc = "unlink_file", !.ret = "false"])
             \/ Step(t, [th[t] EXCEPT !.pc = "gc_lstat"])
    BY <1>2, <2>4 DEF Step
  <2> QED
    BY <2>2, <2>3, <2>4, HostFailsCases
<1> QED
  BY <1>3, NotRenaming, SameDir DEF HostFails, host, Effect

LEMMA EffectKeepsTmp ==
  ASSUME Typed, TmpExists, NEW t \in Threads, OnlyTmpOf(t), HasTmp(t)',
         NEW r, th' = [th EXCEPT ![t] = r]
  PROVE  TmpExists'
<1> SUFFICES ASSUME NEW u \in Threads, u # t PROVE HasTmp(u)'
  BY DEF TmpExists
<1>1. th'[u] = th[u]
  BY DEF Typed, TypeOK
<1>2. th[u].pc = "break_rename" => BreakTmp(u) \in TmpNames /\ BreakTmp(u)[3] = u
  BY TmpOwner DEF Typed, LocalsOK, LocalsOf
<1>3. th[u].pc = "link_rename" => LinkTmp(u) \in TmpNames /\ LinkTmp(u)[3] = u
  BY TmpOwner DEF Typed, TypeOK, ThreadState, LocalsOK, LocalsOf
<1>4. HasTmp(u)
  BY DEF TmpExists
<1>5. th[u].pc = "break_rename" => dir'[BreakTmp(u)] # None
  BY <1>2, <1>4 DEF OnlyTmpOf, HasTmp, Exists
<1>6. th[u].pc = "link_rename" => dir'[LinkTmp(u)] # None
  BY <1>3, <1>4 DEF OnlyTmpOf, HasTmp, Exists
<1> QED
  BY <1>1, <1>5, <1>6 DEF HasTmp, BreakTmp, LinkTmp, Path, Exists

LEMMA DieEffect ==
  ASSUME NEW how, Die(how)
  PROVE  KeepsFiles /\ TmpExists' /\ Stopped'
BY DEF Die, Host, AllIdle, Idle, KeepsFiles, Exists, TmpExists, HasTmp, Stopped

\* Every step of a running handler.
LEMMA ProceedInv ==
  ASSUME Inv, NEW t \in Threads, Proceed(t)
  PROVE  KeepsFiles /\ TmpExists' /\ Stopped'
<1>1. Typed /\ TmpExists /\ Stopped
  BY DEF Inv
<1>2. CASE Die("aborted")
  BY <1>2, DieEffect
<1>3. CASE ~Die("aborted")
  <2>1. Effect(t)
    BY <1>1, <1>3, BreakEffect, LinkEffect, OtherEffect, HostFailsEffect
      DEF Proceed, TempFails, Abort
  <2>2. PICK r : th' = [th EXCEPT ![t] = r]
    BY <1>1, <1>3, ProceedAdvances DEF Abort, LockTake, Unlock, Step, Host
  <2>3. phase' = phase
    BY <1>1, <1>3, ProceedAdvances DEF Abort, LockTake, Unlock
  <2>4. th[t].pc # "idle"
    BY DEF Proceed, LockTake, LockSpin, Unlock, BreakStat, BreakCopy, BreakCopyFails,
           BreakCopyShort, BreakRename, BreakRenameFails, OpenFd, GetRepoItemPath, GcLstat,
           GcUnlink, UnlinkFile, LinkRead, LinkLstat, HardlinkSame, HardlinkLink,
           HardlinkRename, HardlinkFails, TempFails, HostFails, AtPc
  <2>5. Stopped'
    BY <1>1, <2>3, <2>4 DEF Stopped
  <2> QED
    BY <1>1, <2>1, <2>2, <2>5, EffectKeepsTmp DEF Effect
<1> QED
  BY <1>2, <1>3

LEMMA StartInv ==
  ASSUME Inv, NEW t \in Threads, NEW r, th' = [th EXCEPT ![t] = r], dir' = dir,
         r.pc \notin {"break_rename", "link_rename"}, phase' = phase, phase \notin StoppedPhases
  PROVE  KeepsFiles /\ TmpExists' /\ Stopped'
<1>1. Typed /\ TmpExists
  BY DEF Inv
<1> QED
  BY <1>1, NotRenaming, SameDir, EffectKeepsTmp DEF Stopped

LEMMA SameThreads ==
  ASSUME Inv, UNCHANGED <<th, phase>>, \A n \in TmpNames : dir'[n] = dir[n]
  PROVE  TmpExists' /\ Stopped'
<1>1. \A t \in Threads : th[t].pc = "break_rename" => BreakTmp(t) \in TmpNames
  BY TmpOwner DEF Inv, Typed, LocalsOK, LocalsOf
<1>2. \A t \in Threads : th[t].pc = "link_rename" => LinkTmp(t) \in TmpNames
  BY TmpOwner DEF Inv, Typed, TypeOK, ThreadState, LocalsOK, LocalsOf
<1> QED
  BY <1>1, <1>2 DEF Inv, TmpExists, HasTmp, Stopped, Exists, BreakTmp, LinkTmp, Path

LEMMA ClientInv ==
  ASSUME Inv, Client
  PROVE  KeepsFiles /\ TmpExists' /\ Stopped'
<1>1. "mounted" \notin StoppedPhases
  BY DEF StoppedPhases
<1>2. /\ Typed /\ dir \in [Names -> Inodes \cup {None}]
      /\ Files \subseteq Names /\ TmpNames \subseteq Names /\ Files \cap TmpNames = {}
  BY ConstantsAssumption DEF Inv, Typed, TypeOK, Names
<1>3. ASSUME NEW t \in Threads, NEW f \in Files, NEW h \in Handles,
             Open(t, f, h) \/ Create(t, f, h)
      PROVE  KeepsFiles /\ TmpExists' /\ Stopped'
  <2>1. PICK o : StartBreak(t, o, f, h)
    BY <1>3 DEF Open, Create
  <2>2. PICK i : th' = [th EXCEPT ![t] = BreakStart(o, f, h, i)]
    BY <2>1, StartBreakStarts
  <2>3. BreakStart(o, f, h, i).pc = "break_lock"
    BY BreakStartFields
  <2> QED
    BY <1>1, <1>3, <2>1, <2>2, <2>3, StartInv
      DEF Open, Create, ExclusiveOk, Admit, StartBreak, host
<1>4. ASSUME NEW t \in Threads, NEW h \in Handles, Release(t, h)
      PROVE  KeepsFiles /\ TmpExists' /\ Stopped'
  <2>1. Idle.pc = "idle" /\ \A o, f : [Idle EXCEPT !.pc = "link_lock", !.op = o, !.path = f].pc = "link_lock"
    BY DEF Idle
  <2> DEFINE r == IF fh[h].access = "w"
                  THEN [Idle EXCEPT !.pc = "link_lock", !.op = "release", !.path = fh[h].path]
                  ELSE Idle
  <2>2. r.pc \in {"idle", "link_lock"}
    BY <2>1
  <2>3. th' = [th EXCEPT ![t] = r] /\ dir' = dir /\ phase' = phase /\ phase = "mounted"
    BY <1>4 DEF Release, Host
  <2> HIDE DEF r
  <2> QED
    BY <1>1, <2>2, <2>3, StartInv
<1>5. ASSUME NEW t \in Threads, NEW f \in Files, Unlink(t, f)
      PROVE  KeepsFiles /\ TmpExists' /\ Stopped'
  <2>1. [Idle EXCEPT !.pc = "unlink_read", !.op = "unlink", !.path = f].pc = "unlink_read"
    BY DEF Idle
  <2> QED
    BY <1>1, <1>5, <2>1, StartInv DEF Unlink, ExclusiveOk, Admit, Step, host
<1>6. CASE \/ \E f \in Files, h \in Handles : OpenRead(f, h)
           \/ \E h \in Handles, c \in Contents : Write(h, c)
           \/ \E f \in Files : Truncate(f)
  <2>1. UNCHANGED <<dir, th, phase>>
    BY <1>6 DEF OpenRead, Write, Truncate, Host
  <2> QED
    BY <2>1, SameThreads DEF KeepsFiles, Exists
<1>7. ASSUME NEW f \in Files, NEW g \in Files, Rename(f, g)
      PROVE  KeepsFiles /\ TmpExists' /\ Stopped'
  <2>1. UNCHANGED <<th, phase>> /\ Exists(f) /\ f # g
    BY <1>7 DEF Rename, Host
  <2>2. dir' = dir \/ dir' = [dir EXCEPT ![g] = dir[f], ![f] = None]
    BY <1>7 DEF Rename, Host, RenameEntry
  <2>3. \A n \in TmpNames : dir'[n] = dir[n]
    BY <1>2, <2>2
  <2>4. \A e \in Files : Exists(e) /\ ~Exists(e)' => e = f
    BY <1>2, <2>1, <2>2 DEF Exists
  <2>5. KeepsFiles
    BY <1>7, <2>4 DEF KeepsFiles
  <2> QED
    BY <2>1, <2>3, <2>5, SameThreads
<1>8. ASSUME NEW f \in Files, NEW g \in Files, Link(f, g)
      PROVE  KeepsFiles /\ TmpExists' /\ Stopped'
  <2>1. UNCHANGED <<th, phase>> /\ Exists(f) /\ dir' = [dir EXCEPT ![g] = dir[f]]
    BY <1>8 DEF Link, Host
  <2>2. \A n \in TmpNames : dir'[n] = dir[n]
    BY <1>2, <2>1
  <2>3. KeepsFiles
    BY <1>2, <2>1 DEF KeepsFiles, Exists
  <2> QED
    BY <2>1, <2>2, <2>3, SameThreads
<1>9. ASSUME NEW f \in Files, NEW h \in Handles, CreateRead(f, h)
      PROVE  KeepsFiles /\ TmpExists' /\ Stopped'
  <2>1. UNCHANGED <<th, phase>> /\ \E i \in Inodes : dir' = [dir EXCEPT ![f] = i]
    BY <1>9 DEF CreateRead, Host
  <2>2. \A n \in TmpNames : dir'[n] = dir[n]
    BY <1>2, <2>1
  <2>3. None \notin Inodes
    BY ConstantsAssumption
  <2>4. KeepsFiles
    BY <1>2, <2>1, <2>3 DEF KeepsFiles, Exists
  <2> QED
    BY <2>1, <2>2, <2>4, SameThreads
<1> QED
  BY <1>3, <1>4, <1>5, <1>6, <1>7, <1>8, <1>9 DEF Client

LEMMA NextInv == Inv /\ [Next]_vars => Inv' /\ [KeepsFiles]_vars
<1> SUFFICES ASSUME Inv, [Next]_vars PROVE Inv' /\ [KeepsFiles]_vars
  OBVIOUS
<1>1. Typed' /\ LockExclusive'
  BY NextTyped, NextLock DEF Inv
<1>2. CASE Startup
  <2>1. ASSUME NEW t \in Threads, NEW f \in Files, NextTask(t, f)
        PROVE  KeepsFiles /\ TmpExists' /\ Stopped'
    <3>1. [Idle EXCEPT !.pc = "link_lock", !.op = "startup", !.path = f].pc = "link_lock"
      BY DEF Idle
    <3> QED
      BY <2>1, <3>1, StartInv DEF NextTask, Step, host, StoppedPhases
  <2>2. ASSUME GcTree PROVE KeepsFiles /\ TmpExists' /\ Stopped'
    <3>1. \A t \in Threads : th[t].pc = "idle"
      BY <2>2 DEF GcTree, Inv, Stopped, StoppedPhases
    <3>2. th' = th /\ TmpExists' /\ Stopped'
      BY <2>2, <3>1 DEF GcTree, Host, TmpExists, HasTmp, Stopped
    <3>3. \A f \in Files : f \in Names /\ ~InRepo(f)
      BY ConstantsAssumption DEF InRepo, Names
    <3>4. \A f \in Files : dir'[f] = dir[f]
      BY <2>2, <3>3 DEF GcTree, Host
    <3> QED
      BY <3>2, <3>4 DEF KeepsFiles, Exists
  <2>3. ASSUME HardlinkTree \/ FuseMain PROVE KeepsFiles /\ TmpExists' /\ Stopped'
    <3>1. UNCHANGED <<dir, th>> /\ phase' \notin StoppedPhases
      BY <2>3 DEF HardlinkTree, FuseMain, host, StoppedPhases
    <3> QED
      BY <3>1 DEF KeepsFiles, Exists, Inv, TmpExists, HasTmp, BreakTmp, LinkTmp, Path, Stopped
  <2> QED
    BY <1>1, <1>2, <2>1, <2>2, <2>3 DEF Startup, Inv
<1>3. CASE Client
  BY <1>1, <1>3, ClientInv DEF Inv
<1>4. ASSUME NEW t \in Threads, Proceed(t) PROVE Inv' /\ KeepsFiles
  BY <1>1, <1>4, ProceedInv DEF Inv
<1>5. CASE Kill
  BY <1>1, <1>5, DieEffect DEF Kill, Inv
<1>6. CASE Restart
  <2>1. UNCHANGED <<dir, th>> /\ phase \in StoppedPhases
    BY <1>6 DEF Restart, host, StoppedPhases
  <2> QED
    BY <1>1, <2>1 DEF KeepsFiles, Exists, Inv, TmpExists, HasTmp, BreakTmp, LinkTmp, Path, Stopped
<1>7. CASE UNCHANGED vars
  BY <1>1, <1>7 DEF vars, Exists, Inv, TmpExists, HasTmp, BreakTmp, LinkTmp, Path, Stopped
<1> QED
  BY <1>2, <1>3, <1>4, <1>5, <1>6, <1>7 DEF Next

\* No interleaving, I/O error, abort or kill loses a user file: the name of
\* a file disappears only in the unlink or the rename a client asked for.
THEOREM NoFileIsLost == Spec => FilesKept
<1>1. Init => Inv
  <2>1. Init => TmpExists /\ Stopped /\ LockExclusive
    BY DEF Init, AllIdle, Idle, TmpExists, HasTmp, Stopped, LockExclusive, InScope, Scoped
  <2> QED
    BY <2>1, InitTyped DEF Inv
<1> QED
  BY <1>1, NextInv, PTL DEF Spec, FilesKept

-----------------------------------------------------------------------------
(***************************************************************************)
(* Clients that use one path at a time (SharedPaths is FALSE), on a host   *)
(* whose sendfile(2) copies whole files (ShortCopies is FALSE): nobody     *)
(* writes to an inode that has a second name, a repository item holds the  *)
(* content it is named after, cowfs implements PlainFs, and it does not    *)
(* abort unless a call of the host fails.  For any files, contents,        *)
(* threads and handles, out of inodes or not, and with kills anywhere; all *)
(* but the last with failing calls of the host as well.                    *)
(***************************************************************************)

Discipline == ~SharedPaths /\ ~ShortCopies /\ "truncate" \notin ClientOps

Opening == {"open", "create"}

\* A path has one handler or one handle.
PathsApart ==
  /\ \A t, u \in Threads :
       th[t].pc # "idle" /\ th[u].pc # "idle" /\ th[t].path = th[u].path => t = u
  /\ \A t \in Threads, h \in Handles :
       th[t].pc # "idle" /\ fh[h] # None => fh[h].path # th[t].path
  /\ \A h, k \in Handles : fh[h] # None /\ fh[k] # None /\ fh[h].path = fh[k].path => h = k

\* A handle that is to be opened belongs to one handler, and is free.
HandlesApart ==
  \A t \in Threads :
    th[t].op \in Opening =>
      /\ fh[th[t].handle] = None
      /\ \A u \in Threads : th[u].op \in Opening /\ th[u].handle = th[t].handle => t = u

\* The jobs of HardlinkTree have their own files.
JobsApart ==
  \A t, u \in Threads :
    /\ t # u => todo[t] \cap todo[u] = {}
    /\ th[t].pc # "idle" => th[t].path \notin todo[u]

\* Clients come after HardlinkTree.
PhasesApart ==
  /\ phase # "mounted" => fh = NoHandles /\ \A t \in Threads : th[t].op \notin Opening
  /\ phase # "hardlink" => todo = NoJobs

Serial == PathsApart /\ HandlesApart /\ JobsApart /\ PhasesApart

\* No other name is a link to the inode of n.
Single(n) == \A m \in Names \ {n} : dir[m] = dir[n] => dir[n] = None

\* What thread t has made sure of when it is in state s.
StageOf(s, t) ==
  LET mb == <<s.path, "mb", t>>
      tmp == <<s.dest, "of", t>>
  IN /\ s.pc \in {"break_lock", "break_stat", "break_copy"} =>
          s.from = dir[s.path] \/ (IoErrors /\ s.from = None /\ s.errno # "ENOENT")
     /\ s.pc = "break_rename" =>
          /\ Exists(s.path) /\ Exists(mb) /\ Single(mb)
          /\ Content(mb) = Content(s.path)
     /\ s.op \in Opening /\ s.pc \in {"gc_read", "gc_lstat", "gc_unlink", "open_fd"} =>
          Single(s.path)
     /\ s.op \in Opening /\ s.pc = "unlock" /\ s.ret = "true" => Single(s.path)
     /\ s.pc \in {"link_lstat", "link_same", "link_link", "link_rename"} =>
          Exists(s.path) /\ Content(s.path) = s.key
     /\ s.pc = "link_rename" => Exists(tmp) /\ Content(tmp) = s.key
     /\ s.pc \in {"unlink_read", "unlink_file"} => Exists(s.path)

Stage(t) == StageOf(th[t], t)

Stages == \A t \in Threads : Stage(t)

WriterAt(h) ==
  fh[h] # None /\ fh[h].access = "w" => dir[fh[h].path] = fh[h].ino /\ Single(fh[h].path)

Writers == \A h \in Handles : WriterAt(h)

Items == \A c \in Contents : Content(c) \in {None, c}

AloneInv == Inv /\ Serial /\ Stages /\ Writers /\ Items

-----------------------------------------------------------------------------
(* What a change of the host directory does to one name.                    *)

\* Name n keeps its inode, its content, and stays the only link if it was.
Kept(n) == /\ dir'[n] = dir[n]
           /\ Content(n)' = Content(n)
           /\ Single(n) => Single(n)'

LEMMA Distinct ==
  /\ Files \subseteq Names /\ Contents \subseteq Names /\ TmpNames \subseteq Names
  /\ Files \cap Contents = {} /\ Files \cap TmpNames = {} /\ Contents \cap TmpNames = {}
  /\ None \notin Names /\ None \notin Inodes /\ None \notin Contents
BY ConstantsAssumption DEF Names

LEMMA HostContent ==
  ASSUME NEW d \in [Names -> Inodes \cup {None}], NEW c \in [Inodes -> Contents],
         NEW h, NEW s, Host(d, c, h, s), NEW n \in Names
  PROVE  /\ dir'[n] = d[n]
         /\ Content(n)' = IF d[n] = None THEN None ELSE c[d[n]]
<1>1. dir' = d
  BY DEF Host
<1>2. ASSUME d[n] # None PROVE ino'[d[n]] = c[d[n]]
  <2>1. d[n] \in Inodes /\ Live(d[n], d, h, s)
    BY <1>2 DEF Live
  <2> QED
    BY <2>1 DEF Host
<1> QED
  BY <1>1, <1>2 DEF Content, Exists

LEMMA HostSame ==
  ASSUME Typed
  PROVE  /\ UNCHANGED host => \A n \in Names : Kept(n)
         /\ \A h, s : Host(dir, ino, h, s) => \A n \in Names : Kept(n)
<1>1. dir \in [Names -> Inodes \cup {None}] /\ ino \in [Inodes -> Contents]
  BY DEF Typed, TypeOK
<1>2. ASSUME UNCHANGED host, NEW n \in Names PROVE Kept(n)
  BY <1>2 DEF host, Kept, Content, Exists, Single
<1>3. ASSUME NEW h, NEW s, Host(dir, ino, h, s), NEW n \in Names PROVE Kept(n)
  <2>1. dir' = dir
    BY <1>3 DEF Host
  <2>2. Content(n)' = IF dir[n] = None THEN None ELSE ino[dir[n]]
    BY <1>1, <1>3, HostContent
  <2> QED
    BY <2>1, <2>2 DEF Kept, Content, Exists, Single
<1> QED
  BY <1>2, <1>3

LEMMA HostRemove ==
  ASSUME Typed, NEW m \in Names, NEW h, NEW s, Host(UnlinkEntry(m), ino, h, s)
  PROVE  /\ \A n \in Names \ {m} : Kept(n)
         /\ Content(m)' = None
<1>1. dir \in [Names -> Inodes \cup {None}] /\ ino \in [Inodes -> Contents]
  BY DEF Typed, TypeOK
<1>2. UnlinkEntry(m) \in [Names -> Inodes \cup {None}] /\ dir' = UnlinkEntry(m)
  BY <1>1 DEF UnlinkEntry, Host
<1>3. \A n \in Names : UnlinkEntry(m)[n] = IF n = m THEN None ELSE dir[n]
  BY <1>1 DEF UnlinkEntry
<1>4. ASSUME NEW n \in Names \ {m} PROVE Kept(n)
  <2>1. Content(n)' = IF dir[n] = None THEN None ELSE ino[dir[n]]
    BY <1>1, <1>2, <1>3, HostContent
  <2>2. Single(n) => Single(n)'
    BY <1>2, <1>3 DEF Single
  <2> QED
    BY <1>2, <1>3, <2>1, <2>2 DEF Kept, Content, Exists
<1>5. Content(m)' = None
  BY <1>1, <1>2, <1>3, HostContent
<1> QED
  BY <1>4, <1>5

\* A new file under name m.
LEMMA HostNew ==
  ASSUME Typed, NEW m \in Names, NEW i \in Inodes, ~Live(i, dir, fh, th),
         NEW c \in [Inodes -> Contents], \A j \in Inodes \ {i} : c[j] = ino[j],
         NEW h, NEW s, Host([dir EXCEPT ![m] = i], c, h, s)
  PROVE  /\ \A n \in Names \ {m} : Kept(n)
         /\ dir'[m] = i /\ Content(m)' = c[i] /\ Single(m)'
<1>1. dir \in [Names -> Inodes \cup {None}] /\ ino \in [Inodes -> Contents]
  BY DEF Typed, TypeOK
<1>2. PICK d \in [Names -> Inodes \cup {None}] : d = [dir EXCEPT ![m] = i]
  BY <1>1
<1>3. dir' = d /\ \A n \in Names : d[n] = IF n = m THEN i ELSE dir[n]
  BY <1>1, <1>2 DEF Host
<1>4. \A n \in Names : dir[n] # i
  BY DEF Live
<1>5. Host(d, c, h, s)
  BY <1>2
<1>6. ASSUME NEW n \in Names \ {m} PROVE Kept(n)
  <2>1. Content(n)' = IF dir[n] = None THEN None ELSE c[dir[n]]
    BY <1>3, <1>5, HostContent
  <2>2. Single(n) => Single(n)'
    BY <1>3, <1>4 DEF Single
  <2> QED
    BY <1>1, <1>3, <1>4, <2>1, <2>2 DEF Kept, Content, Exists
<1>7. dir'[m] = i /\ Content(m)' = c[i]
  BY <1>3, <1>5, HostContent, Distinct
<1>8. Single(m)'
  BY <1>3, <1>4 DEF Single
<1> QED
  BY <1>6, <1>7, <1>8

\* Name m becomes another link of what s names.
LEMMA HostLink ==
  ASSUME Typed, NEW m \in Names, NEW src \in Names \ {m},
         NEW h, NEW s, Host([dir EXCEPT ![m] = dir[src]], ino, h, s)
  PROVE  /\ \A n \in Names \ {m, src} : Kept(n)
         /\ dir'[src] = dir[src] /\ Content(src)' = Content(src)
         /\ dir'[m] = dir[src] /\ Content(m)' = Content(src)
<1>1. dir \in [Names -> Inodes \cup {None}] /\ ino \in [Inodes -> Contents]
  BY DEF Typed, TypeOK
<1>2. PICK d \in [Names -> Inodes \cup {None}] : d = [dir EXCEPT ![m] = dir[src]]
  BY <1>1
<1>3. dir' = d /\ \A n \in Names : d[n] = IF n = m THEN dir[src] ELSE dir[n]
  BY <1>1, <1>2 DEF Host
<1>4. Host(d, ino, h, s)
  BY <1>2
<1>5. \A n \in Names : Content(n)' = IF d[n] = None THEN None ELSE ino[d[n]]
  BY <1>1, <1>4, HostContent
<1>6. ASSUME NEW n \in Names \ {m, src} PROVE Single(n) => Single(n)'
  BY <1>3, <1>6 DEF Single
<1> QED
  BY <1>3, <1>5, <1>6 DEF Kept, Content, Exists

\* rename(2) of m over dest.
LEMMA HostRename ==
  ASSUME Typed, NEW m \in Names, NEW dest \in Names \ {m}, Exists(m),
         NEW h, NEW s, Host(RenameEntry(m, dest), ino, h, s)
  PROVE  /\ \A n \in Names \ {m, dest} : Kept(n)
         /\ dir'[dest] = dir[m] /\ Content(dest)' = Content(m)
         /\ Single(m) => Single(dest)'
         /\ IF dir[m] = dir[dest] THEN Kept(m) ELSE Content(m)' = None
<1>1. dir \in [Names -> Inodes \cup {None}] /\ ino \in [Inodes -> Contents]
  BY DEF Typed, TypeOK
<1>2. CASE dir[m] = dir[dest]
  <2>1. Host(dir, ino, h, s)
    BY <1>2 DEF RenameEntry
  <2>2. \A n \in Names : Kept(n)
    BY <2>1, HostSame
  <2>3. Content(dest) = Content(m) /\ ~Single(m)
    BY <1>2 DEF Content, Exists, Single
  <2> QED
    BY <1>2, <2>2, <2>3 DEF Kept
<1>3. CASE dir[m] # dir[dest]
  <2>1. PICK d \in [Names -> Inodes \cup {None}] : d = [dir EXCEPT ![dest] = dir[m], ![m] = None]
    BY <1>1
  <2>2. Host(d, ino, h, s)
    BY <1>3, <2>1 DEF RenameEntry
  <2>3. /\ dir' = d
        /\ \A n \in Names : d[n] = IF n = m THEN None ELSE IF n = dest THEN dir[m] ELSE dir[n]
    BY <1>1, <2>1, <2>2 DEF Host
  <2>4. \A n \in Names : Content(n)' = IF d[n] = None THEN None ELSE ino[d[n]]
    BY <1>1, <2>2, HostContent
  <2>5. ASSUME NEW n \in Names \ {m, dest} PROVE Single(n) => Single(n)'
    BY <2>3, <2>5 DEF Single
  <2>6. Single(m) => Single(dest)'
    BY <2>3 DEF Single, Exists
  <2> QED
    BY <1>3, <2>3, <2>4, <2>5, <2>6 DEF Kept, Content, Exists
<1> QED
  BY <1>2, <1>3

-----------------------------------------------------------------------------
(* What one step of thread t does: nothing to the names of others, nothing  *)
(* bad to an item, and it establishes its next stage.                       *)

Frame(t) == \A n \in (Files \ {Path(t)}) \cup {m \in TmpNames : m[3] # t} : Kept(n)

\* Every user file contains what it contained.
Silent == \A f \in Files : Content(f)' = Content(f)

LocalStep(t) == Frame(t) /\ Items' /\ Stage(t)'

LEMMA AllKept ==
  ASSUME Items, NEW t \in Threads, \A n \in Names : Kept(n)
  PROVE  Frame(t) /\ Items' /\ Silent
BY Distinct DEF Frame, Items, Silent, Kept

\* Only a temporary name of t changes.
LEMMA TmpKept ==
  ASSUME Items, NEW t \in Threads, NEW m \in TmpNames, m[3] = t,
         \A n \in Names \ {m} : Kept(n)
  PROVE  Frame(t) /\ Items' /\ Silent
BY Distinct DEF Frame, Items, Silent, Kept

LEMMA StageKept ==
  ASSUME Typed, NEW u \in Threads, Stage(u), th'[u] = th[u],
         th[u].pc # "idle" =>
           \A n \in {th[u].path} \cup {m \in TmpNames : m[3] = u} : Kept(n)
  PROVE  Stage(u)'
<1> PICK s \in ThreadState : s = th[u]
  BY DEF Typed, TypeOK
<1>1. LocalsOf(s) /\ StageOf(s, u)
  BY DEF Typed, LocalsOK, Stage
<1>2. CASE s.pc = "idle"
  BY <1>2 DEF Stage, StageOf
<1>3. CASE s.pc # "idle"
  <2>1. s.path \in Files /\ <<s.path, "mb", u>> \in TmpNames
    BY <1>1, <1>3 DEF LocalsOf, TmpNames
  <2>2. s.pc = "link_rename" => <<s.dest, "of", u>> \in TmpNames
    BY <1>1, <2>1 DEF LocalsOf, TmpNames, ThreadState
  <2>3. Kept(s.path) /\ Kept(<<s.path, "mb", u>>)
    BY <1>3, <2>1
  <2>4. s.pc = "link_rename" => Kept(<<s.dest, "of", u>>)
    BY <1>3, <2>2
  <2>5. StageOf(s, u)'
    BY <1>1, <2>3, <2>4 DEF StageOf, Kept, Exists
  <2> QED
    BY <2>5 DEF Stage
<1> QED
  BY <1>2, <1>3

LEMMA OthersKeep ==
  ASSUME Typed, Serial, Stages, NEW t \in Threads, th[t].pc # "idle",
         NEW r, th' = [th EXCEPT ![t] = r], LocalStep(t)
  PROVE  Stages'
<1> SUFFICES ASSUME NEW u \in Threads, u # t PROVE Stage(u)'
  BY DEF Stages, LocalStep
<1>1. th'[u] = th[u] /\ LocalsOf(th[u])
  BY DEF Typed, TypeOK, LocalsOK
<1>2. ASSUME th[u].pc # "idle" PROVE th[u].path \in Files \ {Path(t)}
  BY <1>1, <1>2 DEF Serial, PathsApart, LocalsOf, Path
<1>3. ASSUME th[u].pc # "idle", NEW n \in {th[u].path} \cup {m \in TmpNames : m[3] = u}
      PROVE  Kept(n)
  BY <1>2, <1>3 DEF LocalStep, Frame
<1> QED
  BY <1>1, <1>3, StageKept DEF Stages

-----------------------------------------------------------------------------
(* The lock.                                                                *)

LEMMA LockAlone ==
  ASSUME Typed, Stages, Items, NEW t \in Threads,
         LockTake(t) \/ LockSpin(t) \/ (Unlock(t) /\ ~Die("aborted"))
  PROVE  LocalStep(t) /\ Silent
<1> PICK s \in ThreadState : s = th[t]
  BY DEF Typed, TypeOK
<1>1. LocalsOf(s) /\ StageOf(s, t)
  BY DEF Typed, LocalsOK, Stages, Stage
<1>2. \A n \in Names : Kept(n)
  BY HostSame DEF LockTake, LockSpin, Unlock
<1>3. Frame(t) /\ Items' /\ Silent
  BY <1>2, AllKept
<1>4. s.pc # "idle" => s.path \in Names
  BY <1>1, Distinct DEF LocalsOf
<1>5. s.pc # "idle" => Kept(s.path)
  BY <1>2, <1>4
<1>6. th \in [Threads -> ThreadState]
  BY DEF Typed, TypeOK
<1>7. CASE LockTake(t)
  <2> PICK r : r = [s EXCEPT !.pc = AfterLock[s.pc]]
    OBVIOUS
  <2>1. /\ r.pc = AfterLock[s.pc] /\ r.path = s.path /\ r.from = s.from /\ r.op = s.op
        /\ r.errno = s.errno
    BY DEF ThreadState
  <2>2. \/ s.pc = "break_lock" /\ r.pc = "break_stat"
        \/ s.pc = "link_lock" /\ r.pc = "link_read"
    <3>1. s.pc \in {"break_lock", "link_lock"}
      BY <1>7 DEF LockTake
    <3> QED
      BY <2>1, <3>1 DEF AfterLock
  <2>3. th'[t] = r
    BY <1>6, <1>7 DEF LockTake, Step
  <2>4. StageOf(r, t)'
    BY <1>1, <1>5, <2>1, <2>2 DEF StageOf, Kept
  <2> QED
    BY <1>3, <2>3, <2>4 DEF LocalStep, Stage
<1>8. CASE LockSpin(t)
  <2> PICK r : r = [s EXCEPT !.errno = "EEXIST"]
    OBVIOUS
  <2>1. /\ r.pc = s.pc /\ r.path = s.path /\ r.from = s.from /\ r.op = s.op
        /\ r.errno = "EEXIST"
    BY DEF ThreadState
  <2>2. s.pc \in {"break_lock", "link_lock"}
    BY <1>8 DEF LockSpin
  <2>3. th'[t] = r
    BY <1>6, <1>8 DEF LockSpin, Step
  <2>4. StageOf(r, t)'
    BY <1>1, <1>5, <2>1, <2>2 DEF StageOf, Kept
  <2> QED
    BY <1>3, <2>3, <2>4 DEF LocalStep, Stage
<1>9. CASE Unlock(t) /\ ~Die("aborted")
  <2>1. s.pc = "unlock"
    BY <1>9 DEF Unlock, AtPc
  <2>2. th'[t] = AfterUnlock(t)
    BY <1>6, <1>9 DEF Unlock, Host
  <2>3. CASE s.op \in Opening /\ s.ret = "true"
    <3> PICK r : r = [s EXCEPT !.pc = "open_fd", !.from = None]
      OBVIOUS
    <3>1. r.pc = "open_fd" /\ r.path = s.path /\ r.op = s.op
      BY DEF ThreadState
    <3>2. th'[t] = r
      BY <2>2, <2>3 DEF AfterUnlock, Opening
    <3>3. StageOf(r, t)'
      BY <1>1, <1>5, <2>1, <2>3, <3>1 DEF StageOf, Kept
    <3> QED
      BY <1>3, <3>2, <3>3 DEF LocalStep, Stage
  <2>4. CASE ~(s.op \in Opening /\ s.ret = "true")
    <3>1. th'[t] = Idle
      BY <2>2, <2>4 DEF AfterUnlock, Opening
    <3>2. StageOf(Idle, t)'
      BY DEF StageOf, Idle
    <3> QED
      BY <1>3, <3>1, <3>2 DEF LocalStep, Stage
  <2> QED
    BY <2>3, <2>4
<1> QED
  BY <1>7, <1>8, <1>9

-----------------------------------------------------------------------------
(* Breaking a link.                                                         *)

\* A function that returns false has promised nothing.
LEMMA FalseStage ==
  ASSUME Typed, NEW t \in Threads, th' = [th EXCEPT ![t] = Return(t, "false")]
  PROVE  Stage(t)'
<1> PICK r : r = Return(t, "false")
  OBVIOUS
<1>1. r.pc = "unlock" /\ r.ret = "false"
  BY DEF Typed, TypeOK, Return, ThreadState
<1>2. th'[t] = r
  BY DEF Typed, TypeOK
<1>3. StageOf(r, t)'
  BY <1>1 DEF StageOf
<1> QED
  BY <1>2, <1>3 DEF Stage

LEMMA BreakAlone ==
  ASSUME Typed, Stages, Items, NEW t \in Threads,
         BreakStat(t) \/ BreakCopy(t) \/ BreakCopyFails(t) \/ BreakRename(t) \/ BreakRenameFails(t)
  PROVE  LocalStep(t) /\ Silent
<1> PICK s \in ThreadState : s = th[t]
  BY DEF Typed, TypeOK
<1>1. LocalsOf(s) /\ StageOf(s, t)
  BY DEF Typed, LocalsOK, Stages, Stage
<1>2. /\ th \in [Threads -> ThreadState] /\ ino \in [Inodes -> Contents]
      /\ dir \in [Names -> Inodes \cup {None}]
  BY DEF Typed, TypeOK
<1>3. s.pc \in {"break_stat", "break_copy", "break_rename"} /\ s.path \in Files
  BY <1>1 DEF BreakStat, BreakCopy, BreakCopyFails, BreakRename, BreakRenameFails, AtPc,
              LocalsOf, BreakPcs
<1> PICK f \in Files : f = s.path
  BY <1>3
<1> PICK m \in TmpNames : m = <<f, "mb", t>>
  BY DEF TmpNames
<1>4. m \in Names /\ f \in Names /\ f # m /\ m[3] = t /\ BreakTmp(t) = m /\ Path(t) = f
  BY Distinct DEF BreakTmp, Path
<1>5. CASE BreakStat(t)
  <2>1. \A n \in Names : Kept(n)
    BY <1>5, HostSame DEF BreakStat
  <2>2. Frame(t) /\ Items' /\ Silent /\ Kept(f)
    BY <1>4, <2>1, AllKept
  <2>3. s.pc = "break_stat" /\ (s.from = dir[f] \/ (s.from = None /\ s.errno # "ENOENT"))
    BY <1>1, <1>5 DEF StageOf, BreakStat, AtPc
  <2>4. CASE s.from # None /\ NeedsBreak(t)
    <3> PICK r : r = [s EXCEPT !.pc = "break_copy"]
      OBVIOUS
    <3>1. r.pc = "break_copy" /\ r.path = f /\ r.from = s.from
      BY DEF ThreadState
    <3>2. th'[t] = r
      BY <1>2, <1>5, <2>4 DEF BreakStat, Step
    <3>3. StageOf(r, t)'
      BY <2>2, <2>3, <2>4, <3>1 DEF StageOf, Kept
    <3> QED
      BY <2>2, <3>2, <3>3 DEF LocalStep, Stage
  <2>5. CASE s.from = None /\ s.errno # "ENOENT"
    <3>1. th' = [th EXCEPT ![t] = Return(t, "false")]
      BY <1>5, <2>5 DEF BreakStat, Step
    <3> QED
      BY <2>2, <3>1, FalseStage DEF LocalStep
  <2>6. CASE s.from = dir[f] /\ ~(s.from # None /\ NeedsBreak(t))
    <3>1. Single(f)
      BY <1>4, <2>6 DEF NeedsBreak, Shared, Single
    <3> PICK b, r : r = Return(t, b) /\ th'[t] = r
      BY <1>2, <1>5, <2>6 DEF BreakStat, Step
    <3>2. r.pc = "unlock" /\ r.path = f
      BY DEF ThreadState, Return
    <3>3. StageOf(r, t)'
      BY <2>2, <3>1, <3>2 DEF StageOf, Kept
    <3> QED
      BY <2>2, <3>3 DEF LocalStep, Stage
  <2> QED
    BY <2>3, <2>4, <2>5, <2>6
<1>6. CASE BreakCopy(t)
  <2>1. s.pc = "break_copy" /\ s.from = dir[f] /\ s.from \in Inodes
    BY <1>1, <1>6, Distinct DEF StageOf, LocalsOf, BreakCopy, AtPc
  <2> PICK r : r = [s EXCEPT !.pc = "break_rename", !.from = None]
    OBVIOUS
  <2>2. r.pc = "break_rename" /\ r.path = f
    BY DEF ThreadState
  <2> PICK x \in Contents : x = ino[dir[f]]
    BY <1>2, <2>1
  <2>3. PICK i \in Inodes : /\ ~Live(i, dir, fh, th)
                            /\ Host([dir EXCEPT ![m] = i], [ino EXCEPT ![i] = x], fh, [th EXCEPT ![t] = r])
    BY <1>4, <1>6, <2>1 DEF BreakCopy, NextInode
  <2>4. PICK c \in [Inodes -> Contents] : c = [ino EXCEPT ![i] = x]
    BY <1>2
  <2>5. c[i] = x /\ \A j \in Inodes \ {i} : c[j] = ino[j]
    BY <1>2, <2>4
  <2>6. /\ \A n \in Names \ {m} : Kept(n)
        /\ dir'[m] = i /\ Content(m)' = x /\ Single(m)'
    <3>1. Host([dir EXCEPT ![m] = i], c, fh, [th EXCEPT ![t] = r])
      BY <2>3, <2>4
    <3> QED
      BY <1>4, <2>3, <2>5, <3>1, HostNew
  <2>7. Frame(t) /\ Items' /\ Silent
    BY <1>4, <2>6, TmpKept
  <2>8. th'[t] = r
    BY <1>2, <2>3 DEF Host
  <2>9. dir'[f] = dir[f] /\ Content(f)' = x
    BY <1>4, <2>1, <2>6, Distinct DEF Kept, Content, Exists
  <2>10. StageOf(r, t)'
    BY <2>1, <2>2, <2>6, <2>9, Distinct DEF StageOf, Exists, Opening
  <2> QED
    BY <2>7, <2>8, <2>10 DEF LocalStep, Stage
<1>7. CASE BreakCopyFails(t)
  <2>1. th' = [th EXCEPT ![t] = Return(t, "false")]
    BY <1>7 DEF BreakCopyFails, Host
  <2>2. \A n \in Names \ {m} : Kept(n)
    <3>1. CASE \E h, q : Host(UnlinkEntry(m), ino, h, q)
      BY <1>4, <3>1, HostRemove
    <3>2. ASSUME NEW i \in Inodes, ~Live(i, dir, fh, th),
                 \E h, q : Host([dir EXCEPT ![m] = i], ino, h, q)
          PROVE  \A n \in Names \ {m} : Kept(n)
      BY <1>2, <1>4, <3>2, HostNew
    <3> QED
      BY <1>4, <1>7, <3>1, <3>2 DEF BreakCopyFails, NextInode
  <2> QED
    BY <1>4, <2>1, <2>2, TmpKept, FalseStage DEF LocalStep
<1>8. CASE BreakRename(t)
  <2>1. /\ s.pc = "break_rename"
        /\ Exists(f) /\ Exists(m) /\ Single(m) /\ Content(m) = Content(f)
    BY <1>1, <1>8 DEF StageOf, BreakRename, AtPc
  <2> PICK r : r = [s EXCEPT !.pc = "gc_read"]
    OBVIOUS
  <2>2. r.pc = "gc_read" /\ r.path = f
    BY DEF ThreadState
  <2>3. Host(RenameEntry(m, f), ino, fh, [th EXCEPT ![t] = r])
    BY <1>4, <1>8 DEF BreakRename
  <2>4. /\ \A n \in Names \ {m, f} : Kept(n)
        /\ Content(f)' = Content(f) /\ Single(f)'
    BY <1>4, <2>1, <2>3, HostRename
  <2>5. Frame(t) /\ Items' /\ Silent
    BY <1>4, <2>4, Distinct DEF Frame, Items, Silent, Kept
  <2>6. th'[t] = r
    BY <1>2, <2>3 DEF Host
  <2>7. StageOf(r, t)'
    BY <2>2, <2>4 DEF StageOf
  <2> QED
    BY <2>5, <2>6, <2>7 DEF LocalStep, Stage
<1>9. CASE BreakRenameFails(t)
  <2>1. th' = [th EXCEPT ![t] = Return(t, "false")]
    BY <1>9 DEF BreakRenameFails, Host
  <2>2. \A n \in Names \ {m} : Kept(n)
    BY <1>4, <1>9, HostRemove DEF BreakRenameFails
  <2> QED
    BY <1>4, <2>1, <2>2, TmpKept, FalseStage DEF LocalStep
<1> QED
  BY <1>5, <1>6, <1>7, <1>8, <1>9

-----------------------------------------------------------------------------
(* openat, after the link is broken.                                        *)

LEMMA IdleStage ==
  ASSUME Typed, NEW t \in Threads, th' = [th EXCEPT ![t] = Idle]
  PROVE  Stage(t)'
<1>1. th'[t] = Idle
  BY DEF Typed, TypeOK
<1>2. StageOf(Idle, t)'
  BY DEF StageOf, Idle
<1> QED
  BY <1>1, <1>2 DEF Stage

LEMMA ContentOrNone ==
  ASSUME Typed, NEW n \in Names
  PROVE  IF Exists(n) THEN Content(n) \in Contents /\ Content(n) = ino[dir[n]]
                      ELSE Content(n) = None
BY DEF Typed, TypeOK, Content, Exists

\* The client gets its handle, on a file that no other name refers to.
Opened(t) ==
  \E f \in Files, i \in Inodes :
    /\ f = Path(t) /\ th[t].op \in Opening
    /\ fh' = [fh EXCEPT ![th[t].handle] = [path |-> f, ino |-> i, access |-> "w"]]
    /\ dir'[f] = i /\ Single(f)'
    /\ Content(f)' = IF Content(f) = None THEN Empty ELSE Content(f)

LEMMA OpenFdAlone ==
  ASSUME Typed, Stages, Items, NEW t \in Threads, OpenFd(t)
  PROVE  LocalStep(t) /\ (Opened(t) \/ (Silent /\ fh' = fh))
<1> PICK s \in ThreadState : s = th[t]
  BY DEF Typed, TypeOK
<1>1. LocalsOf(s) /\ StageOf(s, t) /\ s.pc = "open_fd"
  BY DEF Typed, LocalsOK, Stages, Stage, OpenFd, AtPc
<1>2. s.path \in Files /\ s.op \in Opening
  BY <1>1 DEF LocalsOf, BreakPcs, Opening
<1> PICK f \in Files : f = s.path
  BY <1>2
<1>3. f \in Names /\ Path(t) = f /\ Single(f)
  BY <1>1, <1>2, Distinct DEF Path, StageOf
<1>4. /\ ino \in [Inodes -> Contents] /\ dir \in [Names -> Inodes \cup {None}]
  BY DEF Typed, TypeOK
<1>5. Stage(t)'
  BY IdleStage DEF OpenFd, Host
<1>6. CASE Exists(f) /\ Host(dir, ino, [fh EXCEPT ![s.handle] = [path |-> f, ino |-> dir[f], access |-> "w"]],
                             [th EXCEPT ![t] = Idle])
  <2>1. \A n \in Names : Kept(n)
    BY <1>6, HostSame
  <2>2. Frame(t) /\ Items'
    BY <2>1, AllKept
  <2> PICK i \in Inodes : i = dir[f]
    BY <1>3, <1>4, <1>6 DEF Exists
  <2>3. fh' = [fh EXCEPT ![th[t].handle] = [path |-> f, ino |-> i, access |-> "w"]]
    BY <1>6 DEF Host
  <2>4. dir'[f] = i /\ Single(f)' /\ Content(f)' = Content(f)
    BY <1>3, <2>1 DEF Kept
  <2>5. Content(f) # None
    BY <1>3, <1>6, ContentOrNone, Distinct
  <2> QED
    BY <1>2, <1>3, <1>5, <2>2, <2>3, <2>4, <2>5 DEF LocalStep, Opened
<1>7. CASE Host(dir, ino, fh, [th EXCEPT ![t] = Idle])
  <2>1. \A n \in Names : Kept(n)
    BY <1>7, HostSame
  <2> QED
    BY <1>5, <1>7, <2>1, AllKept DEF LocalStep, Host
<1>8. ASSUME NEW i \in Inodes, ~Live(i, dir, fh, th), ~Exists(f),
             Host([dir EXCEPT ![f] = i], [ino EXCEPT ![i] = Empty],
                  [fh EXCEPT ![s.handle] = [path |-> f, ino |-> i, access |-> "w"]],
                  [th EXCEPT ![t] = Idle])
      PROVE  LocalStep(t) /\ Opened(t)
  <2>1. PICK c \in [Inodes -> Contents] : c = [ino EXCEPT ![i] = Empty]
    BY <1>4, ConstantsAssumption
  <2>2. c[i] = Empty /\ \A j \in Inodes \ {i} : c[j] = ino[j]
    BY <1>4, <2>1
  <2>3. PICK h, q : /\ Host([dir EXCEPT ![f] = i], c, h, q)
                   /\ h = [fh EXCEPT ![s.handle] = [path |-> f, ino |-> i, access |-> "w"]]
    BY <1>8, <2>1
  <2>4. /\ \A n \in Names \ {f} : Kept(n)
        /\ dir'[f] = i /\ Content(f)' = Empty /\ Single(f)'
    BY <1>3, <1>8, <2>2, <2>3, HostNew
  <2>5. Frame(t) /\ Items'
    BY <1>3, <2>4, Distinct DEF Frame, Items, Kept
  <2>6. Content(f) = None
    BY <1>3, <1>8, ContentOrNone
  <2>7. fh' = [fh EXCEPT ![th[t].handle] = [path |-> f, ino |-> i, access |-> "w"]]
    BY <2>3 DEF Host
  <2> QED
    BY <1>2, <1>3, <1>5, <2>4, <2>5, <2>6, <2>7 DEF LocalStep, Opened
<1> QED
  BY <1>3, <1>6, <1>7, <1>8 DEF OpenFd, NextInode

-----------------------------------------------------------------------------
(* Garbage collection of one item, and unlink.                              *)

LEMMA GcAlone ==
  ASSUME Typed, Stages, Items, NEW t \in Threads,
         \/ GetRepoItemPath(t) /\ ~Abort
         \/ GcLstat(t) \/ GcUnlink(t)
  PROVE  LocalStep(t) /\ Silent
<1> PICK s \in ThreadState : s = th[t]
  BY DEF Typed, TypeOK
<1>1. LocalsOf(s) /\ StageOf(s, t) /\ th \in [Threads -> ThreadState]
  BY DEF Typed, TypeOK, LocalsOK, Stages, Stage
<1>2. s.pc \in {"gc_read", "unlink_read", "gc_lstat", "gc_unlink"} /\ s.path \in Files
  BY <1>1 DEF GetRepoItemPath, GcLstat, GcUnlink, AtPc, LocalsOf, BreakPcs
<1> PICK f \in Files : f = s.path
  BY <1>2
<1>3. f \in Names /\ s.key \in Contents /\ s.key \in Names /\ Path(t) = f /\ f # s.key
  BY Distinct DEF ThreadState, Path
<1>4. s.op \in Opening /\ s.pc # "unlink_read" => Single(f)
  BY <1>1, <1>2 DEF StageOf
<1>5. ASSUME Kept(f), th' = [th EXCEPT ![t] = AfterGc(t)] PROVE Stage(t)'
  <2>1. CASE s.op = "unlink"
    BY <1>5, <2>1, IdleStage DEF AfterGc
  <2>2. CASE s.op # "unlink"
    <3> PICK r : r = Return(t, "true")
      OBVIOUS
    <3>1. r.pc = "unlock" /\ r.op = s.op /\ r.path = f
      BY DEF ThreadState, Return
    <3>2. th'[t] = r
      BY <1>1, <1>5, <2>2 DEF AfterGc
    <3>3. s.op \in Opening => s.pc # "unlink_read"
      BY <1>1 DEF LocalsOf, Opening
    <3>4. StageOf(r, t)'
      BY <1>4, <1>5, <3>1, <3>3 DEF StageOf, Kept
    <3> QED
      BY <3>2, <3>4 DEF Stage
  <2> QED
    BY <2>1, <2>2
<1>6. CASE GetRepoItemPath(t) /\ ~Abort
  <2>1. \A n \in Names : Kept(n)
    BY <1>6, HostSame DEF GetRepoItemPath
  <2> PICK p : p = IF s.pc = "gc_read" THEN "gc_lstat" ELSE "unlink_file"
    OBVIOUS
  <2> PICK r : r = [s EXCEPT !.key = ino[dir[Path(t)]], !.pc = p]
    OBVIOUS
  <2>2. r.pc = p /\ r.op = s.op /\ r.path = f
    BY DEF ThreadState
  <2>3. th'[t] = r /\ Exists(f)
    BY <1>1, <1>3, <1>6 DEF GetRepoItemPath, Step
  <2>4. s.pc \in {"gc_read", "unlink_read"} /\ Kept(f)
    BY <1>3, <1>6, <2>1 DEF GetRepoItemPath
  <2>5. StageOf(r, t)'
    BY <1>4, <2>2, <2>3, <2>4 DEF StageOf, Kept, Exists
  <2> QED
    BY <2>1, <2>3, <2>5, AllKept DEF LocalStep, Stage
<1>7. CASE GcLstat(t)
  <2>1. \A n \in Names : Kept(n)
    BY <1>7, HostSame DEF GcLstat
  <2>2. CASE th' = [th EXCEPT ![t] = AfterGc(t)]
    BY <1>3, <1>5, <2>1, <2>2, AllKept DEF LocalStep
  <2>3. CASE th' = [th EXCEPT ![t] = [s EXCEPT !.pc = "gc_unlink"]]
    <3> PICK r : r = [s EXCEPT !.pc = "gc_unlink"]
      OBVIOUS
    <3>1. r.pc = "gc_unlink" /\ r.op = s.op /\ r.path = f
      BY DEF ThreadState
    <3>2. th'[t] = r
      BY <1>1, <2>3
    <3>3. s.pc = "gc_lstat" /\ Kept(f)
      BY <1>3, <1>7, <2>1 DEF GcLstat, AtPc
    <3>4. StageOf(r, t)'
      BY <1>4, <3>1, <3>3 DEF StageOf, Kept
    <3> QED
      BY <2>1, <3>2, <3>4, AllKept DEF LocalStep, Stage
  <2> QED
    BY <1>7, <2>2, <2>3 DEF GcLstat, Step
<1>8. CASE GcUnlink(t)
  <2>1. /\ \A n \in Names \ {s.key} : Kept(n)
        /\ Content(s.key)' = None
    BY <1>3, <1>8, HostRemove DEF GcUnlink
  <2>2. Frame(t) /\ Items' /\ Silent
    BY <1>3, <2>1, Distinct DEF Frame, Items, Silent, Kept
  <2>3. th' = [th EXCEPT ![t] = AfterGc(t)]
    BY <1>8 DEF GcUnlink, Host
  <2> QED
    BY <1>3, <1>5, <2>1, <2>2, <2>3 DEF LocalStep
<1> QED
  BY <1>6, <1>7, <1>8

Unlinked(t) ==
  /\ th[t].pc = "unlink_file"
  /\ \E f \in Files : f = Path(t) /\ Content(f) # None /\ Content(f)' = None

LEMMA UnlinkAlone ==
  ASSUME Typed, Stages, Items, NEW t \in Threads, UnlinkFile(t)
  PROVE  LocalStep(t) /\ Unlinked(t) /\ fh' = fh
<1> PICK s \in ThreadState : s = th[t]
  BY DEF Typed, TypeOK
<1>1. /\ LocalsOf(s) /\ StageOf(s, t) /\ th \in [Threads -> ThreadState]
      /\ s.pc = "unlink_file"
  BY DEF Typed, TypeOK, LocalsOK, Stages, Stage, UnlinkFile, AtPc
<1>2. s.path \in Files /\ s.op = "unlink" /\ Exists(s.path)
  BY <1>1 DEF LocalsOf, StageOf
<1> PICK f \in Files : f = s.path
  BY <1>2
<1>3. f \in Names /\ Path(t) = f
  BY Distinct DEF Path
<1>4. /\ \A n \in Names \ {f} : Kept(n)
      /\ Content(f)' = None
  BY <1>3, HostRemove DEF UnlinkFile
<1>5. Frame(t) /\ Items'
  BY <1>3, <1>4, Distinct DEF Frame, Items, Kept
<1>6. Content(f) # None
  BY <1>2, <1>3, ContentOrNone, Distinct
<1> PICK r : r = [s EXCEPT !.pc = "gc_lstat"]
  OBVIOUS
<1>7. r.pc = "gc_lstat" /\ r.op = "unlink"
  BY <1>2 DEF ThreadState
<1>8. th'[t] = r
  BY <1>1 DEF UnlinkFile, Host
<1>9. StageOf(r, t)'
  BY <1>7 DEF StageOf, Opening
<1> QED
  BY <1>1, <1>3, <1>4, <1>5, <1>6, <1>8, <1>9 DEF LocalStep, Stage, Unlinked, UnlinkFile, Host

-----------------------------------------------------------------------------
(* FindOutRepoAndMaybeHardlink.                                             *)

LEMMA LinkAlone ==
  ASSUME Typed, Stages, Items, NEW t \in Threads,
         \/ LinkRead(t) /\ ~Abort
         \/ LinkLstat(t) \/ HardlinkSame(t) \/ HardlinkLink(t)
         \/ HardlinkRename(t) \/ HardlinkFails(t)
  PROVE  LocalStep(t) /\ Silent
<1> PICK s \in ThreadState : s = th[t]
  BY DEF Typed, TypeOK
<1>1. LocalsOf(s) /\ StageOf(s, t) /\ th \in [Threads -> ThreadState]
  BY DEF Typed, TypeOK, LocalsOK, Stages, Stage
<1>2. s.pc \in LinkPcs /\ s.path \in Files /\ s.op \notin Opening
  BY <1>1 DEF LinkRead, LinkLstat, HardlinkSame, HardlinkLink, HardlinkRename, HardlinkFails,
              AtPc, LocalsOf, LinkPcs, Opening
<1> PICK f \in Files, k \in Contents : f = s.path /\ k = s.key
  BY <1>2 DEF ThreadState
<1>3. f \in Names /\ k \in Names /\ f # k /\ Path(t) = f
  BY Distinct DEF Path
<1>4. s.pc \in {"link_lstat", "link_same", "link_link", "link_rename"} =>
        Exists(f) /\ Content(f) = k
  BY <1>1 DEF StageOf
<1>5. ASSUME s.pc \in {"link_same", "link_link", "link_rename"}
      PROVE  s.dest \in {f, k}
  BY <1>1, <1>5 DEF LocalsOf
<1>6. ASSUME s.pc \in {"link_same", "link_link", "link_rename"}
      PROVE  /\ LinkTmp(t) \in TmpNames /\ LinkTmp(t) \in Names /\ LinkTmp(t)[3] = t
             /\ LinkTmp(t) \notin {f, k} /\ LinkTmp(t) = <<s.dest, "of", t>>
             /\ LinkSource(t) \in {f, k} /\ LinkSource(t) # s.dest
  <2>1. LinkTmp(t) = <<s.dest, "of", t>> /\ LinkTmp(t) \in TmpNames /\ LinkTmp(t)[3] = t
    BY <1>5, <1>6 DEF LinkTmp, TmpNames
  <2> QED
    BY <1>3, <1>5, <1>6, <2>1, Distinct DEF LinkSource
<1>7. CASE LinkRead(t) /\ ~Abort
  <2>1. \A n \in Names : Kept(n)
    BY <1>7, HostSame DEF LinkRead
  <2>2. Exists(f) /\ th'[t] = [s EXCEPT !.key = ino[dir[f]], !.pc = "link_lstat"]
    BY <1>1, <1>3, <1>7 DEF LinkRead, Step
  <2> PICK r, c : r = [s EXCEPT !.key = c, !.pc = "link_lstat"] /\ c = ino[dir[f]]
    OBVIOUS
  <2>3. r.pc = "link_lstat" /\ r.path = f /\ r.key = c /\ r.op = s.op
    BY DEF ThreadState
  <2>4. Content(f) = c /\ Kept(f)
    BY <1>3, <2>1, <2>2, ContentOrNone
  <2>5. StageOf(r, t)'
    BY <1>2, <2>2, <2>3, <2>4 DEF StageOf, Kept, Exists
  <2> QED
    BY <2>1, <2>2, <2>5, AllKept DEF LocalStep, Stage
<1>8. CASE LinkLstat(t)
  <2>1. \A n \in Names : Kept(n)
    BY <1>8, HostSame DEF LinkLstat
  <2> PICK d, r : r = [s EXCEPT !.dest = d, !.pc = "link_same"] /\ th'[t] = r
    BY <1>1, <1>8 DEF LinkLstat, Step
  <2>2. r.pc = "link_same" /\ r.path = f /\ r.key = k /\ r.op = s.op
    BY DEF ThreadState
  <2>3. s.pc = "link_lstat" /\ Kept(f)
    BY <1>3, <1>8, <2>1 DEF LinkLstat, AtPc
  <2>4. StageOf(r, t)'
    BY <1>2, <1>4, <2>2, <2>3 DEF StageOf, Kept, Exists
  <2> QED
    BY <2>1, <2>4, AllKept DEF LocalStep, Stage
<1>9. CASE HardlinkSame(t)
  <2>1. \A n \in Names : Kept(n)
    BY <1>9, HostSame DEF HardlinkSame
  <2>2. s.pc = "link_same" /\ Kept(f)
    BY <1>3, <1>9, <2>1 DEF HardlinkSame, AtPc
  <2> PICK r : /\ th'[t] = r
               /\ r = Return(t, "true") \/ r = [s EXCEPT !.pc = "link_link"]
    BY <1>1, <1>9 DEF HardlinkSame, Step
  <2>3. r.pc \in {"unlock", "link_link"} /\ r.path = f /\ r.key = k /\ r.op = s.op
    BY DEF ThreadState, Return
  <2>4. StageOf(r, t)'
    BY <1>2, <1>4, <2>2, <2>3 DEF StageOf, Kept, Exists
  <2> QED
    BY <2>1, <2>4, AllKept DEF LocalStep, Stage
<1>10. CASE HardlinkLink(t)
  <2>1. s.pc = "link_link"
    BY <1>10 DEF HardlinkLink, AtPc
  <2> PICK m \in TmpNames : m = LinkTmp(t)
    BY <1>6, <2>1
  <2> PICK src \in {f, k} : src = LinkSource(t)
    BY <1>6, <2>1
  <2>2. m \in Names /\ src \in Names \ {m} /\ m[3] = t /\ m \notin {f, k}
    BY <1>3, <1>6, <2>1
  <2>3. /\ \A n \in Names \ {m, src} : Kept(n)
        /\ dir'[src] = dir[src] /\ Content(src)' = Content(src)
        /\ dir'[m] = dir[src] /\ Content(m)' = Content(src)
    BY <1>10, <2>2, HostLink DEF HardlinkLink
  <2>4. Frame(t) /\ Items' /\ Silent
    BY <1>3, <2>2, <2>3, Distinct DEF Frame, Items, Silent, Kept
  <2>5. CASE Exists(src)
    <3> PICK r : r = [s EXCEPT !.pc = "link_rename"]
      OBVIOUS
    <3>1. r.pc = "link_rename" /\ r.path = f /\ r.key = k /\ r.op = s.op /\ r.dest = s.dest
      BY DEF ThreadState
    <3>2. th'[t] = r
      BY <1>1, <1>10, <2>5 DEF HardlinkLink, Host
    <3>3. Content(src) = k
      <4>1. src = k => Content(k) = k
        BY <1>3, <2>5, ContentOrNone, Distinct DEF Items
      <4> QED
        BY <1>4, <2>1, <4>1
    <3>4. dir'[f] = dir[f] /\ Content(f)' = k /\ Exists(f)
      BY <1>3, <1>4, <2>1, <2>2, <2>3 DEF Kept
    <3>5. m = <<r.dest, "of", t>>
      BY <1>6, <2>1, <3>1
    <3>6. StageOf(r, t)'
      BY <1>2, <2>3, <2>5, <3>1, <3>3, <3>4, <3>5 DEF StageOf, Exists
    <3> QED
      BY <2>4, <3>2, <3>6 DEF LocalStep, Stage
  <2>6. CASE ~Exists(src)
    BY <1>10, <2>4, <2>6, FalseStage DEF HardlinkLink, Host, LocalStep
  <2> QED
    BY <2>5, <2>6
<1>11. CASE HardlinkRename(t)
  <2>1. s.pc = "link_rename"
    BY <1>11 DEF HardlinkRename, AtPc
  <2> PICK m \in TmpNames : m = LinkTmp(t)
    BY <1>6, <2>1
  <2> PICK d \in {f, k} : d = s.dest
    BY <1>5, <2>1
  <2>2. m \in Names /\ d \in Names \ {m} /\ m[3] = t /\ m \notin {f, k}
    BY <1>3, <1>6, <2>1
  <2>3. Exists(m) /\ Content(m) = k
    BY <1>1, <1>6, <2>1 DEF StageOf
  <2>4. /\ \A n \in Names \ {m, d} : Kept(n)
        /\ Content(d)' = k
    BY <1>11, <2>2, <2>3, HostRename DEF HardlinkRename
  <2>5. Content(f)' = Content(f)
    BY <1>3, <1>4, <2>1, <2>2, <2>4 DEF Kept
  <2>6. Frame(t) /\ Items' /\ Silent
    BY <1>3, <2>2, <2>4, <2>5, Distinct DEF Frame, Items, Silent, Kept
  <2> PICK r : r = Return(t, "true")
    OBVIOUS
  <2>7. r.pc = "unlock" /\ r.op = s.op
    BY DEF ThreadState, Return
  <2>8. th'[t] = r
    BY <1>1, <1>11 DEF HardlinkRename, Host
  <2>9. StageOf(r, t)'
    BY <1>2, <2>7 DEF StageOf
  <2> QED
    BY <2>6, <2>8, <2>9 DEF LocalStep, Stage
<1>12. CASE HardlinkFails(t)
  <2>1. s.pc \in {"link_link", "link_rename"}
    BY <1>12 DEF HardlinkFails
  <2> PICK m \in TmpNames : m = LinkTmp(t)
    BY <1>6, <2>1
  <2>2. m \in Names /\ m[3] = t
    BY <1>6, <2>1
  <2>3. \A n \in Names \ {m} : Kept(n)
    BY <1>12, <2>2, HostRemove DEF HardlinkFails
  <2>4. th' = [th EXCEPT ![t] = Return(t, "false")]
    BY <1>12 DEF HardlinkFails, Host
  <2> QED
    BY <2>2, <2>3, <2>4, TmpKept, FalseStage DEF LocalStep
<1> QED
  BY <1>7, <1>8, <1>9, <1>10, <1>11, <1>12

-----------------------------------------------------------------------------
(* A failing call of the host.                                              *)

LEMMA HostFailsAlone ==
  ASSUME Typed, Stages, Items, NEW t \in Threads, HostFails(t)
  PROVE  LocalStep(t) /\ Silent
<1> PICK s \in ThreadState : s = th[t]
  BY DEF Typed, TypeOK
<1>1. LocalsOf(s) /\ StageOf(s, t) /\ th \in [Threads -> ThreadState]
  BY DEF Typed, TypeOK, LocalsOK, Stages, Stage
<1>2. \A n \in Names : Kept(n)
  BY HostSame DEF HostFails
<1>3. CASE s.pc = "unlink_read"
  <2> PICK r : r = [s EXCEPT !.pc = "unlink_file", !.ret = "false"]
    OBVIOUS
  <2>1. r.pc = "unlink_file" /\ r.path = s.path
    BY DEF ThreadState
  <2>2. th'[t] = r
    BY <1>1, <1>3 DEF HostFails, AtPc, Step
  <2>3. s.path \in Names /\ Exists(s.path)
    BY <1>1, <1>3, Distinct DEF StageOf, LocalsOf
  <2>4. Kept(s.path)
    BY <1>2, <2>3
  <2>5. StageOf(r, t)'
    BY <2>1, <2>3, <2>4 DEF StageOf, Kept, Exists
  <2> QED
    BY <1>2, <2>2, <2>5, AllKept DEF LocalStep, Stage
<1>4. CASE s.pc = "unlink_file"
  <2> PICK r : r = [s EXCEPT !.pc = "gc_lstat"]
    OBVIOUS
  <2>1. r.pc = "gc_lstat" /\ r.op = s.op
    BY DEF ThreadState
  <2>2. th'[t] = r
    BY <1>1, <1>4 DEF HostFails, AtPc, Step
  <2>3. s.op \notin Opening
    BY <1>1, <1>4 DEF LocalsOf, Opening
  <2>4. StageOf(r, t)'
    BY <2>1, <2>3 DEF StageOf
  <2> QED
    BY <1>2, <2>2, <2>4, AllKept DEF LocalStep, Stage
<1>5. CASE s.pc \notin {"unlink_read", "unlink_file"}
  <2>1. Stage(t)'
    BY <1>5, HostFailsCases, IdleStage, FalseStage DEF AtPc, Step
  <2> QED
    BY <1>2, <2>1, AllKept DEF LocalStep
<1> QED
  BY <1>3, <1>4, <1>5

-----------------------------------------------------------------------------
(* Every step of a running handler.                                         *)

LEMMA ProceedSerial ==
  ASSUME Typed, Serial, NEW t \in Threads, th[t].pc # "idle",
         NEW r, th' = [th EXCEPT ![t] = r],
         \/ r = Idle
         \/ r.op = th[t].op /\ r.path = th[t].path /\ r.handle = th[t].handle,
         UNCHANGED <<phase, todo>>,
         \/ fh' = fh
         \/ /\ r = Idle /\ th[t].op \in Opening
            /\ \E i : fh' = [fh EXCEPT ![th[t].handle] =
                               [path |-> th[t].path, ino |-> i, access |-> "w"]]
  PROVE  Serial'
<1>1. /\ th \in [Threads -> ThreadState] /\ fh \in [Handles -> Handle \cup {None}]
      /\ \A u \in Threads : LocalsOf(th[u])
  BY DEF Typed, TypeOK, LocalsOK
<1>2. PathsApart /\ HandlesApart /\ JobsApart /\ PhasesApart
  BY DEF Serial
<1>3. /\ \A u \in Threads \ {t} : th'[u] = th[u]
      /\ th'[t] = r
  BY <1>1
<1>4. Idle.pc = "idle" /\ Idle.op \notin Opening
  BY DEF Idle, Opening
<1>5. JobsApart'
  BY <1>2, <1>3, <1>4 DEF JobsApart
<1>6. CASE fh' = fh
  <2>1. PathsApart'
    BY <1>2, <1>3, <1>4, <1>6 DEF PathsApart
  <2>2. HandlesApart'
    BY <1>2, <1>3, <1>4, <1>6 DEF HandlesApart
  <2>3. PhasesApart'
    BY <1>2, <1>3, <1>4, <1>6 DEF PhasesApart
  <2> QED
    BY <1>5, <2>1, <2>2, <2>3 DEF Serial
<1>7. ASSUME r = Idle, th[t].op \in Opening,
             NEW i, fh' = [fh EXCEPT ![th[t].handle] =
                             [path |-> th[t].path, ino |-> i, access |-> "w"]]
      PROVE  Serial'
  <2> PICK g, f : g \in Handles /\ g = th[t].handle /\ f = th[t].path
    BY <1>1, <1>7 DEF LocalsOf, Opening
  <2>1. /\ \A k \in Handles \ {g} : fh'[k] = fh[k]
        /\ fh'[g].path = f
    BY <1>1, <1>7
  <2>2. PathsApart'
    BY <1>2, <1>3, <1>4, <1>7, <2>1 DEF PathsApart
  <2>3. \A u \in Threads \ {t} : th[u].op \in Opening => th[u].handle \in Handles \ {g}
    BY <1>1, <1>2, <1>7 DEF HandlesApart, LocalsOf, Opening
  <2>4. HandlesApart'
    BY <1>2, <1>3, <1>4, <1>7, <2>1, <2>3 DEF HandlesApart
  <2>5. PhasesApart'
    BY <1>2, <1>7 DEF PhasesApart
  <2> QED
    BY <1>5, <2>2, <2>4, <2>5 DEF Serial
<1> QED
  BY <1>6, <1>7

LEMMA DieAlone ==
  ASSUME AloneInv, NEW how \in {"aborted", "killed"}, Die(how)
  PROVE  Serial' /\ Stages' /\ Writers' /\ Items' /\ Silent /\ fh' = NoHandles
<1>1. fh' = NoHandles /\ th' = AllIdle /\ todo' = NoJobs /\ phase' = how
  BY DEF Die, Host
<1>2. /\ \A t \in Threads : th'[t] = Idle
      /\ \A h \in Handles : fh'[h] = None
      /\ \A t \in Threads : todo'[t] = {}
      /\ Idle.pc = "idle" /\ Idle.op \notin Opening
  BY <1>1 DEF AllIdle, NoHandles, NoJobs, Idle, Opening
<1>3. Serial'
  BY <1>1, <1>2 DEF Serial, PathsApart, HandlesApart, JobsApart, PhasesApart
<1>4. Stages'
  BY <1>2 DEF Stages, Stage, StageOf
<1>5. Writers'
  BY <1>2 DEF Writers, WriterAt
<1>6. \A n \in Names : Kept(n)
  BY HostSame DEF Die, AloneInv, Inv
<1>7. Items' /\ Silent
  BY <1>6, Distinct DEF AloneInv, Items, Silent, Kept
<1> QED
  BY <1>1, <1>3, <1>4, <1>5, <1>7

LEMMA WriterKept ==
  ASSUME Typed, NEW h \in Handles, WriterAt(h), fh'[h] = fh[h],
         \A f \in Files : fh[h] # None /\ f = fh[h].path => Kept(f)
  PROVE  WriterAt(h)'
<1>1. CASE fh[h] = None
  BY <1>1 DEF WriterAt
<1>2. CASE fh[h] # None
  <2> PICK e \in Handle : e = fh[h]
    BY <1>2 DEF Typed, TypeOK
  <2> PICK f \in Files : f = e.path
    BY DEF Handle
  <2>1. Kept(f)
    BY <1>2
  <2>2. fh'[h] = e
    OBVIOUS
  <2>3. e.access = "w" => dir[f] = e.ino /\ Single(f)
    BY <1>2 DEF WriterAt
  <2> QED
    BY <2>1, <2>2, <2>3 DEF WriterAt, Kept
<1> QED
  BY <1>1, <1>2

\* What a step of a running handler does to the user files.
Outcome(t) ==
  \/ Silent /\ fh' = fh
  \/ Opened(t) /\ th' = [th EXCEPT ![t] = Idle]
  \/ Unlinked(t) /\ fh' = fh

LEMMA ProceedLocal ==
  ASSUME ~ShortCopies, AloneInv, NEW t \in Threads, Proceed(t), ~Die("aborted")
  PROVE  LocalStep(t) /\ Outcome(t)
<1>1. Typed /\ Stages /\ Items
  BY DEF AloneInv, Inv
<1>2. ~Abort
  BY DEF Abort
<1>3. CASE LockTake(t) \/ LockSpin(t) \/ Unlock(t)
  <2>1. LocalStep(t) /\ Silent
    BY <1>1, <1>3, LockAlone
  <2>2. fh' = fh
    BY <1>3 DEF LockTake, LockSpin, Unlock, Host
  <2> QED
    BY <2>1, <2>2 DEF Outcome
<1>4. CASE BreakStat(t) \/ BreakCopy(t) \/ BreakCopyFails(t) \/ BreakRename(t) \/ BreakRenameFails(t)
  <2>1. LocalStep(t) /\ Silent
    BY <1>1, <1>4, BreakAlone
  <2>2. fh' = fh
    BY <1>4 DEF BreakStat, BreakCopy, BreakCopyFails, BreakRename, BreakRenameFails, Host
  <2> QED
    BY <2>1, <2>2 DEF Outcome
<1>5. CASE OpenFd(t)
  <2>1. th' = [th EXCEPT ![t] = Idle]
    BY <1>5 DEF OpenFd, Host
  <2> QED
    BY <1>1, <1>5, <2>1, OpenFdAlone DEF Outcome
<1>6. CASE GetRepoItemPath(t) \/ GcLstat(t) \/ GcUnlink(t)
  <2>1. LocalStep(t) /\ Silent
    BY <1>1, <1>2, <1>6, GcAlone
  <2>2. fh' = fh
    BY <1>2, <1>6 DEF GetRepoItemPath, GcLstat, GcUnlink, Host
  <2> QED
    BY <2>1, <2>2 DEF Outcome
<1>7. CASE UnlinkFile(t)
  BY <1>1, <1>7, UnlinkAlone DEF Outcome
<1>8. CASE \/ LinkRead(t) \/ LinkLstat(t) \/ HardlinkSame(t) \/ HardlinkLink(t)
           \/ HardlinkRename(t) \/ HardlinkFails(t)
  <2>1. LocalStep(t) /\ Silent
    BY <1>1, <1>2, <1>8, LinkAlone
  <2>2. fh' = fh
    BY <1>2, <1>8 DEF LinkRead, LinkLstat, HardlinkSame, HardlinkLink, HardlinkRename,
                      HardlinkFails, Host
  <2> QED
    BY <2>1, <2>2 DEF Outcome
<1>9. CASE HostFails(t)
  <2>1. LocalStep(t) /\ Silent
    BY <1>1, <1>9, HostFailsAlone
  <2>2. fh' = fh
    BY <1>9 DEF HostFails
  <2> QED
    BY <2>1, <2>2 DEF Outcome
<1> QED
  BY <1>2, <1>3, <1>4, <1>5, <1>6, <1>7, <1>8, <1>9 DEF Proceed, BreakCopyShort, TempFails

LEMMA ProceedThread ==
  ASSUME Typed, NEW t \in Threads, Proceed(t), ~Die("aborted")
  PROVE  /\ th[t].pc # "idle"
         /\ UNCHANGED <<phase, todo>>
         /\ \E r : /\ th' = [th EXCEPT ![t] = r]
                  /\ \/ r = Idle
                     \/ r.op = th[t].op /\ r.path = th[t].path /\ r.handle = th[t].handle
<1>1. th[t].pc # "idle"
  BY DEF Proceed, LockTake, LockSpin, Unlock, BreakStat, BreakCopy, BreakCopyFails,
         BreakCopyShort, BreakRename, BreakRenameFails, OpenFd, GetRepoItemPath, GcLstat,
         GcUnlink, UnlinkFile, LinkRead, LinkLstat, HardlinkSame, HardlinkLink,
         HardlinkRename, HardlinkFails, TempFails, HostFails, AtPc
<1> PICK s \in ThreadState : s = th[t]
  BY DEF Typed, TypeOK
<1>2. CASE LockTake(t)
  <2> PICK p, r : r = [s EXCEPT !.pc = p] /\ th' = [th EXCEPT ![t] = r]
    BY <1>2 DEF LockTake, Step
  <2>1. r.op = s.op /\ r.path = s.path /\ r.handle = s.handle
    BY DEF ThreadState
  <2> QED
    BY <1>1, <1>2, <2>1 DEF LockTake
<1>3. CASE Unlock(t)
  <2> PICK r : r = [s EXCEPT !.pc = "open_fd", !.from = None]
    OBVIOUS
  <2>1. r.op = s.op /\ r.path = s.path /\ r.handle = s.handle
    BY DEF ThreadState
  <2>2. AfterUnlock(t) \in {r, Idle}
    BY DEF AfterUnlock
  <2>3. th' = [th EXCEPT ![t] = AfterUnlock(t)] /\ UNCHANGED <<phase, todo>>
    BY <1>3 DEF Unlock, Host
  <2> QED
    BY <1>1, <2>1, <2>2, <2>3
<1>4. CASE ~LockTake(t) /\ ~Unlock(t)
  BY <1>1, <1>4, ProceedAdvances DEF Abort, Advance
<1> QED
  BY <1>2, <1>3, <1>4

LEMMA ProceedAlone ==
  ASSUME ~ShortCopies, AloneInv, NEW t \in Threads, Proceed(t), ~Die("aborted")
  PROVE  Serial' /\ Stages' /\ Writers' /\ Items' /\ Outcome(t) /\ Frame(t)
<1>1. Typed /\ Serial /\ Stages /\ Writers /\ Items
  BY DEF AloneInv, Inv
<1>2. LocalStep(t) /\ Outcome(t) /\ Frame(t)
  BY ProceedLocal DEF LocalStep
<1> PICK r : /\ th' = [th EXCEPT ![t] = r]
             /\ \/ r = Idle
                \/ r.op = th[t].op /\ r.path = th[t].path /\ r.handle = th[t].handle
  BY <1>1, ProceedThread
<1>3. th[t].pc # "idle" /\ UNCHANGED <<phase, todo>> /\ LocalsOf(th[t])
  BY <1>1, ProceedThread DEF Typed, LocalsOK
<1>4. Stages' /\ Items'
  BY <1>1, <1>2, <1>3, OthersKeep DEF LocalStep
<1>5. fh \in [Handles -> Handle \cup {None}] /\ th \in [Threads -> ThreadState]
  BY <1>1 DEF Typed, TypeOK
<1>6. ASSUME NEW h \in Handles, fh'[h] = fh[h] PROVE WriterAt(h)'
  <2>1. ASSUME NEW f \in Files, fh[h] # None, f = fh[h].path PROVE Kept(f)
    BY <1>1, <1>2, <1>3, <2>1 DEF Serial, PathsApart, Frame, Path
  <2> QED
    BY <1>1, <1>6, <2>1, WriterKept DEF Writers
<1>7. CASE fh' = fh
  <2>1. Serial'
    BY <1>1, <1>3, <1>7, ProceedSerial
  <2>2. Writers'
    BY <1>6, <1>7 DEF Writers
  <2> QED
    BY <1>2, <1>4, <2>1, <2>2
<1>8. CASE Opened(t) /\ th' = [th EXCEPT ![t] = Idle] /\ fh' # fh
  <2> PICK f \in Files, i \in Inodes :
        /\ f = Path(t)
        /\ fh' = [fh EXCEPT ![th[t].handle] = [path |-> f, ino |-> i, access |-> "w"]]
        /\ dir'[f] = i /\ Single(f)'
    BY <1>8 DEF Opened
  <2>1. th[t].op \in Opening
    BY <1>8 DEF Opened
  <2>2. r = Idle
    BY <1>5, <1>8
  <2>3. Serial'
    BY <1>1, <1>3, <2>1, <2>2, ProceedSerial DEF Path
  <2> PICK g \in Handles : g = th[t].handle
    BY <1>3, <2>1 DEF LocalsOf, Opening
  <2>4. fh'[g] = [path |-> f, ino |-> i, access |-> "w"]
    BY <1>5
  <2>5. WriterAt(g)'
    BY <2>4 DEF WriterAt
  <2>6. Writers'
    BY <1>5, <1>6, <2>5 DEF Writers
  <2> QED
    BY <1>2, <1>4, <2>3, <2>6
<1> QED
  BY <1>2, <1>7, <1>8 DEF Outcome

-----------------------------------------------------------------------------
(* The steps that begin a handler, and those the kernel passes on to the    *)
(* host.                                                                    *)

\* Thread t begins on a path that is free, perhaps closing the handle of it.
LEMMA BeginAlone ==
  ASSUME Typed, Serial, Stages, Writers, Items, phase = "mounted", UNCHANGED <<phase, todo>>,
         NEW t \in Threads, th[t] = Idle, NEW r, th' = [th EXCEPT ![t] = r],
         r.pc # "idle" =>
           /\ \A u \in Threads : th[u].pc # "idle" => th[u].path # r.path
           /\ \A k \in Handles : fh'[k] # None => fh[k].path # r.path,
         r.op \in Opening => r.handle \in Handles /\ FreeHandle(r.handle),
         \A k \in Handles : fh'[k] \in {fh[k], None},
         \A n \in Names : Kept(n), Stage(t)'
  PROVE  Serial' /\ Stages' /\ Writers' /\ Items' /\ Silent
<1>1. /\ th \in [Threads -> ThreadState] /\ fh \in [Handles -> Handle \cup {None}]
      /\ \A u \in Threads : LocalsOf(th[u])
  BY DEF Typed, TypeOK, LocalsOK
<1>2. PathsApart /\ HandlesApart /\ JobsApart /\ PhasesApart
  BY DEF Serial
<1>3. /\ \A u \in Threads \ {t} : th'[u] = th[u]
      /\ th'[t] = r
      /\ th[t].pc = "idle" /\ th[t].op \notin Opening
  BY <1>1 DEF Idle, Opening
<1>4. PathsApart'
  BY <1>2, <1>3 DEF PathsApart
<1>5. HandlesApart'
  <2>1. ASSUME NEW u \in Threads \ {t}, th[u].op \in Opening
        PROVE  th[u].handle \in Handles /\ fh'[th[u].handle] = None
    BY <1>1, <1>2, <2>1 DEF HandlesApart, LocalsOf, Opening
  <2>2. r.op \in Opening => /\ fh'[r.handle] = None
                           /\ \A u \in Threads \ {t} : th[u].handle # r.handle
    BY DEF FreeHandle
  <2> QED
    BY <1>2, <1>3, <2>1, <2>2 DEF HandlesApart
<1>6. todo' = NoJobs /\ JobsApart'
  BY <1>2 DEF PhasesApart, JobsApart, NoJobs
<1>7. Serial'
  BY <1>4, <1>5, <1>6 DEF Serial, PhasesApart
<1>8. ASSUME NEW u \in Threads, u # t PROVE Stage(u)'
  <2>1. th[u].pc # "idle" => th[u].path \in Names
    BY <1>1, Distinct DEF LocalsOf
  <2> QED
    BY <1>3, <1>8, <2>1, StageKept, Distinct DEF Stages
<1>9. ASSUME NEW k \in Handles PROVE WriterAt(k)'
  <2>1. CASE fh'[k] = None
    BY <2>1 DEF WriterAt
  <2>2. CASE fh'[k] = fh[k]
    BY <2>2, WriterKept, Distinct DEF Writers
  <2> QED
    BY <2>1, <2>2
<1> QED
  BY <1>7, <1>8, <1>9, AllKept DEF Stages, Writers

\* One call that changes the user files M, which no handler works on.
LEMMA PassAlone ==
  ASSUME Typed, Serial, Stages, Items, UNCHANGED <<th, fh, phase, todo>>,
         NEW M \in SUBSET Files, \A n \in Names \ M : Kept(n),
         \A t \in Threads : th[t].pc # "idle" => th[t].path \notin M
  PROVE  Serial' /\ Stages' /\ Items'
<1>1. Serial'
  BY DEF Serial, PathsApart, HandlesApart, JobsApart, PhasesApart
<1>2. Items'
  BY Distinct DEF Items, Kept
<1>3. ASSUME NEW u \in Threads PROVE Stage(u)'
  <2>1. th[u].pc # "idle" => th[u].path \in Names
    BY Distinct DEF Typed, LocalsOK, LocalsOf
  <2> QED
    BY <2>1, StageKept, Distinct DEF Stages
<1> QED
  BY <1>1, <1>2, <1>3 DEF Stages

LEMMA NotBusy ==
  ASSUME Discipline, NEW f \in Files, Admit(f)
  PROVE  /\ phase = "mounted"
         /\ \A h \in Handles : fh[h] # None => fh[h].path # f
         /\ \A t \in Threads : th[t].path # f
BY DEF Discipline, Admit, Busy, OpenOn

LEMMA StartAlone ==
  ASSUME Discipline, AloneInv, NEW t \in Threads, NEW f \in Files,
         Unlink(t, f) \/ \E h \in Handles : Open(t, f, h) \/ Create(t, f, h)
  PROVE  Serial' /\ Stages' /\ Writers' /\ Items' /\ Silent /\ fh' = fh
<1>1. Typed /\ Serial /\ Stages /\ Writers /\ Items
  BY DEF AloneInv, Inv
<1>2. th \in [Threads -> ThreadState]
  BY <1>1 DEF Typed, TypeOK
<1>3. Admit(f) /\ th[t] = Idle /\ UNCHANGED <<host, fh, phase, todo>>
  BY DEF Unlink, Open, Create, StartBreak, ExclusiveOk
<1>4. \A n \in Names : Kept(n)
  BY <1>1, <1>3, HostSame
<1>5. /\ phase = "mounted"
      /\ \A h \in Handles : fh[h] # None => fh[h].path # f
      /\ \A u \in Threads : th[u].path # f
  BY <1>3, NotBusy
<1>6. f \in Names /\ Kept(f)
  BY <1>4, Distinct
<1>7. CASE Unlink(t, f)
  <2> PICK r : r = [Idle EXCEPT !.pc = "unlink_read", !.op = "unlink", !.path = f]
    OBVIOUS
  <2>1. r.pc = "unlink_read" /\ r.op = "unlink" /\ r.path = f
    BY DEF Idle
  <2>2. th' = [th EXCEPT ![t] = r] /\ Exists(f)
    BY <1>7 DEF Unlink, Step
  <2>3. StageOf(r, t)'
    BY <1>6, <2>1, <2>2 DEF StageOf, Kept, Exists
  <2>4. Stage(t)'
    BY <1>2, <2>2, <2>3 DEF Stage
  <2>5. r.op \notin Opening
    BY <2>1 DEF Opening
  <2> QED
    BY <1>1, <1>3, <1>4, <1>5, <2>1, <2>2, <2>4, <2>5, BeginAlone
<1>8. ASSUME NEW h \in Handles, Open(t, f, h) \/ Create(t, f, h)
      PROVE  Serial' /\ Stages' /\ Writers' /\ Items' /\ Silent
  <2>1. PICK o \in Opening : StartBreak(t, o, f, h)
    BY <1>8 DEF Open, Create, Opening
  <2> PICK e : e = IF Exists(f) THEN "0" ELSE "ENOENT"
    OBVIOUS
  <2> PICK i \in {dir[f], None} : th' = [th EXCEPT ![t] = BreakStart(o, f, h, i)]
                                  /\ (i # dir[f] => IoErrors)
    BY <2>1, StartBreakStarts
  <2> PICK r : r = BreakStart(o, f, h, i)
    OBVIOUS
  <2>2. /\ r.pc = "break_lock" /\ r.op = o /\ r.path = f /\ r.handle = h /\ r.from = i
        /\ r.errno = e
    BY BreakStartFields
  <2>3. th' = [th EXCEPT ![t] = r] /\ FreeHandle(h)
    BY <2>1 DEF StartBreak
  <2>4. StageOf(r, t)'
    BY <1>6, <2>1, <2>2 DEF StageOf, Kept, Exists, Opening
  <2>5. Stage(t)'
    BY <1>2, <2>3, <2>4 DEF Stage
  <2>6. th' = [th EXCEPT ![t] = r] /\ UNCHANGED <<phase, todo, fh>> /\ th[t] = Idle
    BY <1>3, <2>3 DEF host
  <2>7. \A u \in Threads : th[u].pc # "idle" => th[u].path # r.path
    BY <1>5, <2>2
  <2>8. \A k \in Handles : fh'[k] # None => fh[k].path # r.path
    BY <1>5, <2>2, <2>6
  <2>9. \A k \in Handles : fh'[k] \in {fh[k], None}
    BY <2>6
  <2> QED
    BY ONLY <1>1, <1>4, <1>5, <2>2, <2>3, <2>5, <2>6, <2>7, <2>8, <2>9, t \in Threads,
            h \in Handles, BeginAlone
<1> QED
  BY <1>3, <1>7, <1>8

LEMMA ReleaseAlone ==
  ASSUME AloneInv, NEW t \in Threads, NEW h \in Handles, Release(t, h)
  PROVE  /\ Serial' /\ Stages' /\ Writers' /\ Items' /\ Silent
         /\ fh' = [fh EXCEPT ![h] = None]
<1>1. Typed /\ Serial /\ Stages /\ Writers /\ Items
  BY DEF AloneInv, Inv
<1>2. th \in [Threads -> ThreadState] /\ fh \in [Handles -> Handle \cup {None}]
  BY <1>1 DEF Typed, TypeOK
<1>3. /\ phase = "mounted" /\ th[t] = Idle /\ fh[h] # None
      /\ fh' = [fh EXCEPT ![h] = None] /\ UNCHANGED <<phase, todo>>
  BY DEF Release, Host
<1>4. \A n \in Names : Kept(n)
  BY <1>1, HostSame DEF Release
<1> PICK f : f = fh[h].path
  OBVIOUS
<1> PICK r : r = IF fh[h].access = "w"
                 THEN [Idle EXCEPT !.pc = "link_lock", !.op = "release", !.path = f]
                 ELSE Idle
  OBVIOUS
<1>5. /\ r.op \in {"none", "release"} /\ r.op \notin Opening
      /\ r.pc \in {"idle", "link_lock"} /\ (r.pc # "idle" => r.path = f)
  BY DEF Idle, Opening
<1>6. th' = [th EXCEPT ![t] = r]
  BY DEF Release, Host
<1>7. StageOf(r, t)'
  BY <1>5 DEF StageOf
<1>8. Stage(t)'
  BY <1>2, <1>6, <1>7 DEF Stage
<1>9. /\ \A u \in Threads : th[u].pc # "idle" => th[u].path # f
      /\ \A k \in Handles : fh'[k] # None => fh[k].path # f
  BY <1>1, <1>2, <1>3 DEF Serial, PathsApart
<1>10. \A k \in Handles : fh'[k] \in {fh[k], None}
  BY <1>2, <1>3
<1> QED
  BY <1>1, <1>3, <1>4, <1>5, <1>6, <1>8, <1>9, <1>10, BeginAlone

\* A new handle for reading on a free path, which may be a new file.
LEMMA ReaderAlone ==
  ASSUME Discipline, AloneInv, NEW f \in Files, NEW h \in Handles, NEW i,
         fh' = [fh EXCEPT ![h] = [path |-> f, ino |-> i, access |-> "r"]],
         UNCHANGED <<th, phase, todo>>, FreeHandle(h), Admit(f), \A n \in Names \ {f} : Kept(n)
  PROVE  Serial' /\ Stages' /\ Writers' /\ Items'
<1>1. Typed /\ Serial /\ Stages /\ Writers /\ Items
  BY DEF AloneInv, Inv
<1>2. fh \in [Handles -> Handle \cup {None}]
  BY <1>1 DEF Typed, TypeOK
<1>3. /\ phase = "mounted" /\ fh[h] = None
      /\ \A k \in Handles : fh[k] # None => fh[k].path # f
      /\ \A t \in Threads : th[t].path # f /\ th[t].handle # h
  BY NotBusy DEF FreeHandle
<1>4. /\ \A k \in Handles \ {h} : fh'[k] = fh[k]
      /\ fh'[h].path = f /\ fh'[h].access = "r"
  BY <1>2
<1>5. PathsApart'
  BY <1>1, <1>3, <1>4 DEF Serial, PathsApart
<1>6. \A t \in Threads : th[t].op \in Opening => th[t].handle \in Handles
  BY <1>1 DEF Typed, LocalsOK, LocalsOf, Opening
<1>7. HandlesApart'
  BY <1>1, <1>3, <1>4, <1>6 DEF Serial, HandlesApart
<1>8. Serial'
  BY <1>1, <1>3, <1>5, <1>7 DEF Serial, JobsApart, PhasesApart
<1>9. Stages'
  <2> SUFFICES ASSUME NEW u \in Threads PROVE Stage(u)'
    BY DEF Stages
  <2>1. th[u].pc # "idle" => th[u].path \in Names \ {f}
    BY <1>1, <1>3, Distinct DEF Typed, LocalsOK, LocalsOf
  <2> QED
    BY <1>1, <2>1, StageKept, Distinct DEF Stages
<1>10. Writers'
  <2> SUFFICES ASSUME NEW k \in Handles PROVE WriterAt(k)'
    BY DEF Writers
  <2>1. CASE k = h
    BY <1>4, <2>1 DEF WriterAt
  <2>2. CASE k # h
    <3>1. ASSUME NEW g \in Files, fh[k] # None, g = fh[k].path PROVE Kept(g)
      BY <1>3, <3>1, Distinct
    <3> QED
      BY <1>1, <1>4, <2>2, <3>1, WriterKept DEF Writers
  <2> QED
    BY <2>1, <2>2
<1>11. Items'
  BY <1>1, Distinct DEF Items, Kept
<1> QED
  BY <1>8, <1>9, <1>10, <1>11

LEMMA OpenReadAlone ==
  ASSUME Discipline, AloneInv, NEW f \in Files, NEW h \in Handles, OpenRead(f, h)
  PROVE  /\ Serial' /\ Stages' /\ Writers' /\ Items' /\ Silent
         /\ fh[h] = None /\ \E i : fh' = [fh EXCEPT ![h] = [path |-> f, ino |-> i, access |-> "r"]]
<1>1. PICK i : fh' = [fh EXCEPT ![h] = [path |-> f, ino |-> i, access |-> "r"]]
  BY DEF OpenRead, Host
<1>2. /\ UNCHANGED <<th, phase, todo>> /\ FreeHandle(h) /\ Admit(f) /\ fh[h] = None
      /\ \A n \in Names : Kept(n)
  BY HostSame DEF OpenRead, Host, FreeHandle, AloneInv, Inv
<1>3. Silent
  BY <1>2, Distinct DEF Silent, Kept
<1> QED
  BY <1>1, <1>2, <1>3, ReaderAlone

LEMMA CreateReadAlone ==
  ASSUME Discipline, AloneInv, NEW f \in Files, NEW h \in Handles, CreateRead(f, h)
  PROVE  /\ Serial' /\ Stages' /\ Writers' /\ Items'
         /\ fh[h] = None /\ \E i : fh' = [fh EXCEPT ![h] = [path |-> f, ino |-> i, access |-> "r"]]
         /\ Content(f) = None
         /\ \A g \in Files : Content(g)' = IF g = f THEN Empty ELSE Content(g)
<1>1. Typed /\ ino \in [Inodes -> Contents] /\ f \in Names
  BY Distinct DEF AloneInv, Inv, Typed, TypeOK
<1>2. PICK i \in Inodes :
        /\ ~Live(i, dir, fh, th)
        /\ Host([dir EXCEPT ![f] = i], [ino EXCEPT ![i] = Empty],
                [fh EXCEPT ![h] = [path |-> f, ino |-> i, access |-> "r"]], th)
  BY DEF CreateRead, NextInode
<1>3. PICK c \in [Inodes -> Contents] : c = [ino EXCEPT ![i] = Empty]
  BY <1>1, ConstantsAssumption
<1>4. c[i] = Empty /\ \A j \in Inodes \ {i} : c[j] = ino[j]
  BY <1>1, <1>3
<1>5. Host([dir EXCEPT ![f] = i], c, [fh EXCEPT ![h] = [path |-> f, ino |-> i, access |-> "r"]], th)
  BY <1>2, <1>3
<1>6. (\A n \in Names \ {f} : Kept(n)) /\ Content(f)' = Empty
  BY <1>1, <1>2, <1>4, <1>5, HostNew
<1>7. /\ UNCHANGED <<th, phase, todo>> /\ FreeHandle(h) /\ Admit(f) /\ fh[h] = None
      /\ fh' = [fh EXCEPT ![h] = [path |-> f, ino |-> i, access |-> "r"]]
      /\ Content(f) = None
  BY <1>2 DEF CreateRead, ExclusiveOk, Host, FreeHandle, Content
<1>8. \A g \in Files : Content(g)' = IF g = f THEN Empty ELSE Content(g)
  BY <1>6, Distinct DEF Kept
<1> QED
  BY <1>6, <1>7, <1>8, ReaderAlone

LEMMA WriteAlone ==
  ASSUME AloneInv, NEW h \in Handles, NEW c \in Contents, Write(h, c)
  PROVE  /\ Serial' /\ Stages' /\ Writers' /\ Items' /\ fh' = fh
         /\ \E f \in Files :
              /\ f = fh[h].path /\ fh[h] # None /\ fh[h].access = "w"
              /\ \A g \in Files : Content(g)' = IF g = f THEN c ELSE Content(g)
<1>1. Typed /\ Serial /\ Stages /\ Writers /\ Items
  BY DEF AloneInv, Inv
<1>2. /\ ino \in [Inodes -> Contents] /\ dir \in [Names -> Inodes \cup {None}]
      /\ fh[h] \in Handle
  BY <1>1 DEF Typed, TypeOK, Write
<1> PICK f \in Files, i \in Inodes : f = fh[h].path /\ i = fh[h].ino
  BY <1>2 DEF Handle
<1>3. /\ fh[h] # None /\ fh[h].access = "w"
      /\ UNCHANGED <<th, fh, phase, todo, dir>>
      /\ Host(dir, [ino EXCEPT ![i] = c], fh, th)
  BY DEF Write, Host
<1>4. dir[f] = i /\ Single(f) /\ f \in Names
  BY <1>1, <1>3, Distinct DEF Writers, WriterAt
<1>5. PICK x \in [Inodes -> Contents] : x = [ino EXCEPT ![i] = c]
  BY <1>2
<1>6. x[i] = c /\ \A j \in Inodes \ {i} : x[j] = ino[j]
  BY <1>2, <1>5
<1>7. \A n \in Names : Content(n)' = IF dir[n] = None THEN None ELSE x[dir[n]]
  BY <1>2, <1>3, <1>5, HostContent
<1>8. \A n \in Names \ {f} : dir[n] # i
  BY <1>4, Distinct DEF Single
<1>9. ASSUME NEW n \in Names \ {f} PROVE Kept(n)
  BY <1>2, <1>3, <1>6, <1>7, <1>8 DEF Kept, Content, Exists, Single
<1>10. \A t \in Threads : th[t].pc # "idle" => th[t].path \notin {f}
  BY <1>1, <1>3 DEF Serial, PathsApart
<1>11. Serial' /\ Stages' /\ Items'
  BY <1>1, <1>3, <1>9, <1>10, PassAlone
<1>12. Writers'
  BY <1>1, <1>3 DEF Writers, WriterAt, Single
<1>13. Content(f)' = c
  BY <1>4, <1>6, <1>7, Distinct
<1>14. \A g \in Files : Content(g)' = IF g = f THEN c ELSE Content(g)
  BY <1>9, <1>13, Distinct DEF Kept
<1> QED
  BY <1>3, <1>11, <1>12, <1>14

\* The writers of other files than those of M.
LEMMA WritersPass ==
  ASSUME Typed, Writers, fh' = fh, NEW M \in SUBSET Files, \A n \in Names \ M : Kept(n),
         \A h \in Handles : fh[h] # None => fh[h].path \notin M
  PROVE  Writers'
<1> SUFFICES ASSUME NEW h \in Handles PROVE WriterAt(h)'
  BY DEF Writers
<1> QED
  BY WriterKept, Distinct DEF Writers

LEMMA RenameAlone ==
  ASSUME Discipline, AloneInv, NEW f \in Files, NEW g \in Files, Rename(f, g)
  PROVE  /\ Serial' /\ Stages' /\ Writers' /\ Items' /\ fh' = fh
         /\ f # g /\ Content(f) # None
         /\ \/ Silent
            \/ \A e \in Files : Content(e)' = IF e = g THEN Content(f)
                                              ELSE IF e = f THEN None ELSE Content(e)
<1>1. Typed /\ Serial /\ Stages /\ Writers /\ Items
  BY DEF AloneInv, Inv
<1>2. UNCHANGED <<th, fh, phase, todo>> /\ f # g /\ Exists(f) /\ Admit(f) /\ Admit(g)
  BY DEF Rename, Host, ExclusiveOk
<1>3. f \in Names /\ g \in Names \ {f}
  BY <1>2, Distinct
<1>4. /\ \A n \in Names \ {f, g} : Kept(n)
      /\ Content(g)' = Content(f)
      /\ IF dir[f] = dir[g] THEN Kept(f) ELSE Content(f)' = None
  BY <1>1, <1>2, <1>3, HostRename DEF Rename
<1>5. /\ \A h \in Handles : fh[h] # None => fh[h].path \notin {f, g}
      /\ \A t \in Threads : th[t].pc # "idle" => th[t].path \notin {f, g}
  BY <1>2, NotBusy
<1>6. Serial' /\ Stages' /\ Items'
  BY <1>1, <1>2, <1>4, <1>5, PassAlone
<1>7. Writers'
  BY <1>1, <1>2, <1>4, <1>5, WritersPass
<1>8. Content(f) # None
  BY <1>1, <1>2, <1>3, ContentOrNone, Distinct
<1>9. CASE dir[f] = dir[g]
  <2>1. Content(g) = Content(f)
    BY <1>9 DEF Content, Exists
  <2> QED
    BY <1>2, <1>3, <1>4, <1>6, <1>7, <1>8, <1>9, <2>1, Distinct DEF Silent, Kept
<1>10. CASE dir[f] # dir[g]
  BY <1>2, <1>3, <1>4, <1>6, <1>7, <1>8, <1>10, Distinct DEF Kept
<1> QED
  BY <1>9, <1>10

LEMMA LinkFileAlone ==
  ASSUME Discipline, AloneInv, NEW f \in Files, NEW g \in Files, Link(f, g)
  PROVE  /\ Serial' /\ Stages' /\ Writers' /\ Items' /\ fh' = fh
         /\ Content(f) # None /\ Content(g) = None
         /\ \A e \in Files : Content(e)' = IF e = g THEN Content(f) ELSE Content(e)
<1>1. Typed /\ Serial /\ Stages /\ Writers /\ Items
  BY DEF AloneInv, Inv
<1>2. /\ UNCHANGED <<th, fh, phase, todo>> /\ Exists(f) /\ ~Exists(g)
      /\ Admit(f) /\ Admit(g)
  BY DEF Link, Host, ExclusiveOk
<1>3. g \in Names /\ f \in Names \ {g}
  BY <1>2, Distinct
<1>4. /\ \A n \in Names \ {g, f} : Kept(n)
      /\ Content(f)' = Content(f) /\ Content(g)' = Content(f)
  BY <1>1, <1>3, HostLink DEF Link
<1>5. /\ \A h \in Handles : fh[h] # None => fh[h].path \notin {g, f}
      /\ \A t \in Threads : th[t].pc # "idle" => th[t].path \notin {g, f}
  BY <1>2, NotBusy
<1>6. Serial' /\ Stages' /\ Items'
  BY <1>1, <1>2, <1>4, <1>5, PassAlone
<1>7. Writers'
  BY <1>1, <1>2, <1>4, <1>5, WritersPass
<1>8. Content(f) # None /\ Content(g) = None
  BY <1>1, <1>2, <1>3, ContentOrNone, Distinct
<1> QED
  BY <1>2, <1>3, <1>4, <1>6, <1>7, <1>8, Distinct DEF Kept

-----------------------------------------------------------------------------
(* main().                                                                  *)

LEMMA MainAlone ==
  ASSUME AloneInv, GcTree \/ HardlinkTree \/ FuseMain \/ Restart
  PROVE  Serial' /\ Stages' /\ Writers' /\ Items' /\ Silent /\ fh' = fh
<1>1. Typed /\ Serial /\ Stages /\ Writers /\ Items /\ Stopped
  BY DEF AloneInv, Inv
<1>2. /\ dir \in [Names -> Inodes \cup {None}] /\ ino \in [Inodes -> Contents]
  BY <1>1 DEF Typed, TypeOK
<1>3. \A t \in Threads : th[t].pc = "idle" /\ th[t].op \notin Opening
  <2>1. \A t \in Threads : th[t].pc = "idle"
    BY <1>1 DEF GcTree, HardlinkTree, FuseMain, Restart, Stopped, StoppedPhases, AllIdle, Idle
  <2> QED
    BY <1>1, <2>1 DEF Typed, LocalsOK, LocalsOf, Opening
<1>4. th' = th /\ fh' = fh /\ fh = NoHandles
  BY <1>1 DEF GcTree, HardlinkTree, FuseMain, Restart, Host, Serial, PhasesApart
<1>5. PathsApart' /\ HandlesApart'
  BY <1>1, <1>3, <1>4 DEF Serial, PathsApart, HandlesApart
<1>6. JobsApart' /\ PhasesApart'
  <2>1. CASE HardlinkTree
    BY <1>1, <1>3, <1>4, <2>1 DEF HardlinkTree, JobsApart, PhasesApart
  <2>2. CASE GcTree \/ FuseMain \/ Restart
    <3>1. todo' = NoJobs
      BY <1>1, <2>2 DEF GcTree, FuseMain, Restart, Serial, PhasesApart
    <3> QED
      BY <1>3, <1>4, <3>1 DEF JobsApart, PhasesApart, NoJobs
  <2> QED
    BY <2>1, <2>2
<1>7. Stages' /\ Writers'
  BY <1>3, <1>4 DEF Stages, Stage, StageOf, Writers, WriterAt, NoHandles, Opening
<1>8. Items' /\ Silent
  <2>1. CASE UNCHANGED host
    BY <1>1, <2>1, HostSame, Distinct DEF Items, Silent, Kept
  <2>2. CASE GcTree
    <3> PICK d \in [Names -> Inodes \cup {None}] :
          d = [n \in Names |-> IF InRepo(n) /\ SoleLink(n) THEN None ELSE dir[n]]
      BY <1>2
    <3>1. Host(d, ino, fh, th)
      BY <2>2 DEF GcTree
    <3>2. /\ \A n \in Names : Content(n)' = IF d[n] = None THEN None ELSE ino[d[n]]
          /\ \A n \in Names : d[n] \in {None, dir[n]}
      BY <1>2, <3>1, HostContent
    <3>3. \A f \in Files : f \in Names /\ ~InRepo(f)
      BY Distinct DEF InRepo
    <3>4. Silent
      <4> SUFFICES ASSUME NEW f \in Files PROVE Content(f)' = Content(f)
        BY DEF Silent
      <4>1. d[f] = dir[f]
        BY <3>3
      <4> QED
        BY <3>2, <3>3, <4>1 DEF Content, Exists
    <3>5. Items'
      <4> SUFFICES ASSUME NEW c \in Contents PROVE Content(c)' \in {None, c}
        BY DEF Items
      <4>1. c \in Names /\ Content(c) \in {None, c}
        BY <1>1, Distinct DEF Items
      <4> QED
        BY <3>2, <4>1 DEF Content, Exists
    <3> QED
      BY <3>4, <3>5
  <2> QED
    BY <2>1, <2>2 DEF HardlinkTree, FuseMain, Restart
<1> QED
  BY <1>4, <1>5, <1>6, <1>7, <1>8 DEF Serial

LEMMA NextTaskAlone ==
  ASSUME AloneInv, NEW t \in Threads, NEW f \in Files, NextTask(t, f)
  PROVE  Serial' /\ Stages' /\ Writers' /\ Items' /\ Silent /\ fh' = fh
<1>1. Typed /\ Serial /\ Stages /\ Writers /\ Items
  BY DEF AloneInv, Inv
<1>2. th \in [Threads -> ThreadState] /\ todo \in [Threads -> SUBSET Files]
  BY <1>1 DEF Typed, TypeOK
<1>3. /\ phase = "hardlink" /\ UNCHANGED <<host, fh, phase>> /\ f \in todo[t]
      /\ todo' = [todo EXCEPT ![t] = @ \ {f}] /\ th[t] = Idle
  BY DEF NextTask
<1>4. \A n \in Names : Kept(n)
  BY <1>1, <1>3, HostSame
<1>5. fh = NoHandles /\ \A u \in Threads : th[u].op \notin Opening
  BY <1>1, <1>3 DEF Serial, PhasesApart
<1> PICK r : r = [Idle EXCEPT !.pc = "link_lock", !.op = "startup", !.path = f]
  OBVIOUS
<1>6. r.pc = "link_lock" /\ r.op = "startup" /\ r.path = f /\ r.op \notin Opening
  BY DEF Idle, Opening
<1>7. \A u \in Threads : th'[u] = IF u = t THEN r ELSE th[u]
  BY <1>2 DEF NextTask, Step
<1>8. /\ \A u \in Threads : todo'[u] \subseteq todo[u] /\ f \notin todo'[u]
      /\ \A u \in Threads : th[u].pc # "idle" => th[u].path # f
  BY <1>1, <1>2, <1>3 DEF Serial, JobsApart
<1>9. PathsApart'
  <2>1. \A h \in Handles : fh'[h] = None
    BY <1>3, <1>5 DEF NoHandles
  <2>2. \A u, v \in Threads :
          th'[u].pc # "idle" /\ th'[v].pc # "idle" /\ th'[u].path = th'[v].path => u = v
    <3> SUFFICES ASSUME NEW u \in Threads, NEW v \in Threads, u # v,
                        th'[u].pc # "idle", th'[v].pc # "idle"
                 PROVE  th'[u].path # th'[v].path
      OBVIOUS
    <3>1. th[u].pc # "idle" /\ th[v].pc # "idle" => th[u].path # th[v].path
      BY <1>1 DEF Serial, PathsApart
    <3>2. /\ th[u].pc # "idle" => th[u].path # f
          /\ th[v].pc # "idle" => th[v].path # f
      BY <1>8
    <3>3. /\ th'[u] = IF u = t THEN r ELSE th[u]
          /\ th'[v] = IF v = t THEN r ELSE th[v]
      BY <1>7
    <3> QED
      BY <1>6, <3>1, <3>2, <3>3
  <2> QED
    BY <2>1, <2>2 DEF PathsApart
<1>10. HandlesApart' /\ PhasesApart'
  BY <1>3, <1>5, <1>6, <1>7 DEF HandlesApart, PhasesApart
<1>11. JobsApart'
  <2>1. ASSUME NEW u \in Threads, NEW v \in Threads
        PROVE  /\ u # v => todo'[u] \cap todo'[v] = {}
               /\ th'[u].pc # "idle" => th'[u].path \notin todo'[v]
    <3>1. /\ u # v => todo[u] \cap todo[v] = {}
          /\ th[u].pc # "idle" => th[u].path \notin todo[v]
      BY <1>1 DEF Serial, JobsApart
    <3>2. todo'[u] \subseteq todo[u] /\ todo'[v] \subseteq todo[v] /\ f \notin todo'[v]
      BY <1>8
    <3>3. th'[u] = IF u = t THEN r ELSE th[u]
      BY <1>7
    <3> QED
      BY <1>6, <3>1, <3>2, <3>3
  <2> QED
    BY <2>1 DEF JobsApart
<1>12. Stages'
  <2>1. StageOf(r, t)'
    BY <1>6 DEF StageOf
  <2>2. Stage(t)'
    BY <1>7, <2>1 DEF Stage
  <2>3. ASSUME NEW u \in Threads \ {t} PROVE Stage(u)'
    <3>1. th[u].pc # "idle" => th[u].path \in Names
      BY <1>1, Distinct DEF Typed, LocalsOK, LocalsOf
    <3> QED
      BY <1>1, <1>4, <1>7, <3>1, StageKept, Distinct DEF Stages
  <2> QED
    BY <2>2, <2>3 DEF Stages
<1>13. Writers'
  BY <1>3, <1>5 DEF Writers, WriterAt, NoHandles
<1> QED
  BY <1>1, <1>3, <1>4, <1>9, <1>10, <1>11, <1>12, <1>13, AllKept DEF Serial

-----------------------------------------------------------------------------
(* The plain file system behind the names.                                  *)

\* The file that handle h is writing to.
WriterOf(h) == IF fh[h] # None /\ fh[h].access = "w" THEN fh[h].path ELSE None

LEMMA PlainView ==
  /\ Plain!vars = <<[f \in Files |-> Content(f)], [h \in Handles |-> WriterOf(h)]>>
  /\ Plain!vars' = <<[f \in Files |-> Content(f)'], [h \in Handles |-> WriterOf(h)']>>
BY DEF Plain!vars, WriterOf

LEMMA SilentStutters ==
  ASSUME Silent, \A h \in Handles : WriterOf(h)' = WriterOf(h)
  PROVE  UNCHANGED Plain!vars
BY PlainView DEF Silent

LEMMA SameHandles ==
  ASSUME fh' = fh
  PROVE  \A h \in Handles : WriterOf(h)' = WriterOf(h)
BY DEF WriterOf

LEMMA PlainOpened ==
  ASSUME AloneInv, NEW t \in Threads, Opened(t), Frame(t)
  PROVE  Plain!Next
<1>1. Typed /\ Serial
  BY DEF AloneInv, Inv
<1> PICK f \in Files, i \in Inodes :
      /\ f = Path(t) /\ th[t].op \in Opening
      /\ fh' = [fh EXCEPT ![th[t].handle] = [path |-> f, ino |-> i, access |-> "w"]]
      /\ Content(f)' = IF Content(f) = None THEN Empty ELSE Content(f)
  BY DEF Opened
<1> PICK g \in Handles : g = th[t].handle
  BY <1>1 DEF Typed, LocalsOK, LocalsOf, Opening
<1>2. fh \in [Handles -> Handle \cup {None}] /\ fh[g] = None
  BY <1>1 DEF Typed, TypeOK, Serial, HandlesApart
<1>3. fh' = [fh EXCEPT ![g] = [path |-> f, ino |-> i, access |-> "w"]]
  OBVIOUS
<1>4. /\ fh'[g].access = "w" /\ fh'[g].path = f /\ fh'[g] # None
      /\ \A h \in Handles \ {g} : fh'[h] = fh[h]
  <2>1. [path |-> f, ino |-> i, access |-> "w"] \in Handle
    BY DEF Handle
  <2> QED
    BY <1>2, <1>3, <2>1, NoneIsNoHandle
<1>5. \A h \in Handles : WriterOf(h)' = IF h = g THEN f ELSE WriterOf(h)
  BY <1>4 DEF WriterOf
<1>6. WriterOf(g) = None
  BY <1>2 DEF WriterOf
<1>7. \A e \in Files \ {f} : Content(e)' = Content(e)
  BY DEF Frame, Kept
<1>8. CASE Content(f) = None
  <2>1. Plain!Create(f, g)
    BY <1>5, <1>6, <1>7, <1>8 DEF Plain!Create, WriterOf
  <2> QED
    BY <2>1 DEF Plain!Next
<1>9. CASE Content(f) # None
  <2>1. Plain!Open(f, g)
    BY <1>5, <1>6, <1>7, <1>9 DEF Plain!Open, WriterOf
  <2> QED
    BY <2>1 DEF Plain!Next
<1> QED
  BY <1>8, <1>9

LEMMA PlainUnlinked ==
  ASSUME NEW t \in Threads, Unlinked(t), Frame(t), fh' = fh
  PROVE  Plain!Next
<1> PICK f \in Files : f = Path(t) /\ Content(f) # None /\ Content(f)' = None
  BY DEF Unlinked
<1>1. \A e \in Files : Content(e)' = IF e = f THEN None ELSE Content(e)
  BY DEF Frame, Kept
<1>2. Plain!Unlink(f)
  BY <1>1 DEF Plain!Unlink
<1> QED
  BY <1>2 DEF Plain!Next

LEMMA PlainClosed ==
  ASSUME Typed, Silent, NEW h \in Handles, fh[h] # None, fh' = [fh EXCEPT ![h] = None]
  PROVE  [Plain!Next]_(Plain!vars)
<1>1. fh \in [Handles -> Handle \cup {None}]
  BY DEF Typed, TypeOK
<1>2. \A k \in Handles : WriterOf(k)' = IF k = h THEN None ELSE WriterOf(k)
  BY <1>1 DEF WriterOf
<1>3. CASE WriterOf(h) = None
  BY <1>2, <1>3, SilentStutters
<1>4. CASE WriterOf(h) # None
  <2>1. Plain!Close(h)
    BY <1>2, <1>4 DEF Plain!Close, WriterOf, Silent
  <2> QED
    BY <2>1 DEF Plain!Next
<1> QED
  BY <1>3, <1>4

LEMMA PlainCrashed ==
  ASSUME Silent, fh' = NoHandles
  PROVE  Plain!Next
<1>1. \A h \in Handles : fh'[h] = None
  BY DEF NoHandles
<1>2. Plain!Crash
  BY <1>1 DEF Plain!Crash, Silent
<1> QED
  BY <1>2 DEF Plain!Next

LEMMA PlainWritten ==
  ASSUME NEW h \in Handles, NEW c \in Contents, fh' = fh,
         NEW f \in Files, f = fh[h].path, fh[h] # None, fh[h].access = "w",
         \A g \in Files : Content(g)' = IF g = f THEN c ELSE Content(g)
  PROVE  Plain!Next
<1>1. f # None
  BY Distinct
<1>2. WriterOf(h) = f /\ \A k \in Handles : WriterOf(k)' = WriterOf(k)
  BY DEF WriterOf
<1>3. Plain!Write(h, c)
  BY <1>1, <1>2 DEF Plain!Write, WriterOf
<1> QED
  BY <1>3 DEF Plain!Next

-----------------------------------------------------------------------------
(* Every step.                                                              *)

Alone == Serial /\ Stages /\ Writers /\ Items

LEMMA NextAlone ==
  ASSUME Discipline, AloneInv, [Next]_vars
  PROVE  Alone' /\ [Plain!Next]_(Plain!vars)
<1>1. Typed /\ Alone
  BY DEF AloneInv, Inv, Alone
<1>2. ASSUME Serial' /\ Stages' /\ Writers' /\ Items' /\ Silent /\ fh' = fh
      PROVE  Alone' /\ [Plain!Next]_(Plain!vars)
  BY <1>2, SilentStutters, SameHandles DEF Alone
<1>3. ASSUME NEW how \in {"aborted", "killed"}, Die(how)
      PROVE  Alone' /\ [Plain!Next]_(Plain!vars)
  BY <1>3, DieAlone, PlainCrashed DEF Alone
<1>4. CASE Startup
  BY <1>2, <1>4, MainAlone, NextTaskAlone DEF Startup
<1>5. CASE Client
  <2>1. ASSUME NEW t \in Threads, NEW f \in Files,
               Unlink(t, f) \/ \E h \in Handles : Open(t, f, h) \/ Create(t, f, h)
        PROVE  Alone' /\ [Plain!Next]_(Plain!vars)
    BY <1>2, <2>1, StartAlone
  <2>2. ASSUME NEW t \in Threads, NEW h \in Handles, Release(t, h)
        PROVE  Alone' /\ [Plain!Next]_(Plain!vars)
    <3>1. fh[h] # None
      BY <2>2 DEF Release
    <3> QED
      BY <1>1, <2>2, <3>1, ReleaseAlone, PlainClosed DEF Alone
  <2>3. ASSUME NEW f \in Files, NEW h \in Handles, OpenRead(f, h)
        PROVE  Alone' /\ [Plain!Next]_(Plain!vars)
    <3>1. Alone' /\ Silent /\ fh[h] = None
      BY <2>3, OpenReadAlone DEF Alone
    <3> PICK i : fh' = [fh EXCEPT ![h] = [path |-> f, ino |-> i, access |-> "r"]]
      BY <2>3, OpenReadAlone
    <3>2. fh \in [Handles -> Handle \cup {None}]
      BY <1>1 DEF Typed, TypeOK
    <3>3. fh'[h].access = "r" /\ \A k \in Handles \ {h} : fh'[k] = fh[k]
      BY <3>2
    <3>4. \A k \in Handles : WriterOf(k)' = WriterOf(k)
      BY <3>1, <3>3 DEF WriterOf
    <3> QED
      BY <3>1, <3>4, SilentStutters
  <2>4. ASSUME NEW h \in Handles, NEW c \in Contents, Write(h, c)
        PROVE  Alone' /\ [Plain!Next]_(Plain!vars)
    <3>1. Alone' /\ fh' = fh
      BY <2>4, WriteAlone DEF Alone
    <3> PICK f \in Files :
          /\ f = fh[h].path /\ fh[h] # None /\ fh[h].access = "w"
          /\ \A g \in Files : Content(g)' = IF g = f THEN c ELSE Content(g)
      BY <2>4, WriteAlone
    <3> QED
      BY <3>1, PlainWritten
  <2>5. ASSUME NEW f \in Files, NEW g \in Files, Rename(f, g)
        PROVE  Alone' /\ [Plain!Next]_(Plain!vars)
    <3>1. Alone' /\ fh' = fh /\ f # g /\ Content(f) # None
      BY <2>5, RenameAlone DEF Alone
    <3>2. CASE Silent
      BY <3>1, <3>2, SilentStutters, SameHandles
    <3>3. CASE \A e \in Files : Content(e)' = IF e = g THEN Content(f)
                                              ELSE IF e = f THEN None ELSE Content(e)
      <4>1. Plain!Rename(f, g)
        BY <3>1, <3>3 DEF Plain!Rename
      <4> QED
        BY <3>1, <4>1 DEF Plain!Next
    <3> QED
      BY <2>5, <3>2, <3>3, RenameAlone
  <2>6. ASSUME NEW f \in Files, NEW g \in Files, Link(f, g)
        PROVE  Alone' /\ [Plain!Next]_(Plain!vars)
    <3>1. /\ Alone' /\ fh' = fh /\ Content(f) # None /\ Content(g) = None
          /\ \A e \in Files : Content(e)' = IF e = g THEN Content(f) ELSE Content(e)
      BY <2>6, LinkFileAlone DEF Alone
    <3>2. Plain!Link(f, g)
      BY <3>1 DEF Plain!Link
    <3> QED
      BY <3>1, <3>2 DEF Plain!Next
  <2>7. ~\E f \in Files : Truncate(f)
    BY DEF Truncate, Discipline
  <2>8. ASSUME NEW f \in Files, NEW h \in Handles, CreateRead(f, h)
        PROVE  Alone' /\ [Plain!Next]_(Plain!vars)
    <3>1. /\ Alone' /\ fh[h] = None /\ Content(f) = None
          /\ \A g \in Files : Content(g)' = IF g = f THEN Empty ELSE Content(g)
      BY <2>8, CreateReadAlone DEF Alone
    <3> PICK i : fh' = [fh EXCEPT ![h] = [path |-> f, ino |-> i, access |-> "r"]]
      BY <2>8, CreateReadAlone
    <3>2. fh \in [Handles -> Handle \cup {None}]
      BY <1>1 DEF Typed, TypeOK
    <3>3. fh'[h].access = "r" /\ \A k \in Handles \ {h} : fh'[k] = fh[k]
      BY <3>2
    <3>4. \A k \in Handles : WriterOf(k)' = WriterOf(k)
      BY <3>1, <3>3 DEF WriterOf
    <3>5. Plain!Make(f)
      BY <3>1, <3>4 DEF Plain!Make, WriterOf
    <3> QED
      BY <3>1, <3>5 DEF Plain!Next
  <2> QED
    BY <1>5, <2>1, <2>2, <2>3, <2>4, <2>5, <2>6, <2>7, <2>8 DEF Client
<1>6. ASSUME NEW t \in Threads, Proceed(t) PROVE Alone' /\ [Plain!Next]_(Plain!vars)
  <2>1. CASE Die("aborted")
    BY <1>3, <2>1
  <2>2. CASE ~Die("aborted")
    <3>1. Alone' /\ Outcome(t) /\ Frame(t)
      BY <1>6, <2>2, ProceedAlone DEF Alone, Discipline
    <3> QED
      BY <3>1, SilentStutters, SameHandles, PlainOpened, PlainUnlinked DEF Outcome
  <2> QED
    BY <2>1, <2>2
<1>7. CASE Kill
  BY <1>3, <1>7 DEF Kill
<1>8. CASE Restart
  BY <1>2, <1>8, MainAlone
<1>9. CASE UNCHANGED vars
  <2>1. UNCHANGED <<dir, ino, th, fh, phase, todo>> /\ UNCHANGED host
    BY <1>9 DEF vars, host
  <2>2. \A n \in Names : Kept(n)
    BY <1>1, <2>1, HostSame
  <2>3. Silent
    BY <2>2, Distinct DEF Silent, Kept
  <2>4. Serial' /\ Stages' /\ Items'
    <3> PICK M \in SUBSET Files : M = {}
      OBVIOUS
    <3>1. \A n \in Names \ M : Kept(n)
      BY <2>2
    <3> QED
      BY <1>1, <2>1, <3>1, PassAlone DEF Alone
  <2>5. Writers'
    BY <1>1, <2>1 DEF Alone, Writers, WriterAt, Single
  <2> QED
    BY <1>2, <2>1, <2>3, <2>4, <2>5
<1> QED
  BY <1>4, <1>5, <1>6, <1>7, <1>8, <1>9 DEF Next

LEMMA InitAlone == Init => AloneInv /\ Plain!Init
<1> SUFFICES ASSUME Init PROVE AloneInv /\ Plain!Init
  OBVIOUS
<1>1. Inv
  BY InitTyped DEF Init, AllIdle, Idle, TmpExists, HasTmp, Stopped, LockExclusive, InScope,
                   Scoped, Inv
<1>2. /\ \A t \in Threads : th[t].pc = "idle" /\ th[t].op \notin Opening
      /\ \A h \in Handles : fh[h] = None
      /\ phase = "gc" /\ todo = NoJobs /\ fh = NoHandles
  BY DEF Init, AllIdle, Idle, NoHandles, Opening
<1>3. Serial
  BY <1>2 DEF Serial, PathsApart, HandlesApart, JobsApart, PhasesApart, NoJobs
<1>4. Stages /\ Writers
  BY <1>2 DEF Stages, Stage, StageOf, Writers, WriterAt, Opening
<1>5. Items
  <2>1. \A c \in Contents : dir[c] = None
    BY Distinct DEF Init
  <2> QED
    BY <2>1 DEF Items, Content, Exists
<1>6. Plain!Init
  <2>1. \A f \in Files : Content(f) \in Contents \cup {None}
    BY <1>1, ContentOrNone, Distinct DEF Inv
  <2> QED
    BY <1>2, <2>1 DEF Plain!Init, NoHandles
<1> QED
  BY <1>1, <1>3, <1>4, <1>5, <1>6 DEF AloneInv

LEMMA AlwaysAlone == Discipline /\ Spec => [](Inv /\ Alone)
<1>1. Init => Inv /\ Alone
  BY InitAlone DEF AloneInv, Alone
<1>2. Discipline /\ Inv /\ Alone /\ [Next]_vars => (Inv /\ Alone)'
  BY NextAlone, NextInv DEF AloneInv, Alone
<1>3. CASE Discipline
  <2>1. Inv /\ Alone /\ [Next]_vars => (Inv /\ Alone)'
    BY <1>2, <1>3
  <2> QED
    BY <1>1, <2>1, PTL DEF Spec
<1>4. CASE ~Discipline
  BY <1>4
<1> QED
  BY <1>3, <1>4

\* MaybeBreakHardlink does its work as long as copies are whole: whatever the
\* handlers of other paths do, and wherever a call fails with an errno of its
\* own or the daemon is killed, a handle that is open for writing is the only
\* reference to the inode besides its own path.  (A copy that sendfile(2) cuts
\* short fails with the errno of an earlier call and leaves the file shared.)
THEOREM WritersAreAlone == Discipline /\ Spec => []WriterAlone
<1>1. Inv /\ Alone => WriterAlone
  <2> SUFFICES ASSUME Inv, Alone, NEW h \in Handles, fh[h] # None, fh[h].access = "w"
               PROVE  dir[fh[h].path] = fh[h].ino /\ ~Shared(fh[h].ino)
    BY DEF WriterAlone
  <2>1. fh[h] \in Handle
    BY DEF Inv, Typed, TypeOK
  <2> PICK f \in Files, i \in Inodes : f = fh[h].path /\ i = fh[h].ino
    BY <2>1 DEF Handle
  <2>2. dir[f] = i /\ Single(f) /\ f \in Names /\ i # None
    BY Distinct DEF Alone, Writers, WriterAt
  <2>3. ~Shared(i)
    BY <2>2 DEF Single, Shared
  <2> QED
    BY <2>2, <2>3
<1> QED
  BY <1>1, AlwaysAlone, PTL

\* As long as copies are whole no item of the repository is ever overwritten:
\* it holds the content its name stands for, so what HardlinkOneFile links in
\* its place is equal to the file that it replaces.
THEOREM RepoStaysIntact == Discipline /\ Spec => []RepoIntact
<1>1. Inv /\ Alone => RepoIntact
  <2> SUFFICES ASSUME Inv, Alone, NEW c \in Contents, Exists(c) PROVE ino[dir[c]] = c
    BY DEF RepoIntact
  <2>1. c \in Names /\ Content(c) \in {None, c} /\ Typed
    BY Distinct DEF Inv, Alone, Items
  <2> QED
    BY <2>1, ContentOrNone, Distinct
<1> QED
  BY <1>1, AlwaysAlone, PTL

\* As long as copies are whole cowfs implements a plain file system: every
\* step of it, and every failure that has an errno of its own, every abort and
\* kill, is one step of PlainFs on the contents that users see, or none.
THEOREM ImplementsPlain == Discipline /\ Spec => PlainSpec
<1>1. Init => Plain!Init
  BY InitAlone
<1>2. Discipline /\ Inv /\ Alone /\ [Next]_vars => [Plain!Next]_(Plain!vars)
  BY NextAlone DEF AloneInv, Alone
<1>3. CASE Discipline
  <2>1. Inv /\ Alone /\ [Next]_vars => [Plain!Next]_(Plain!vars)
    BY <1>2, <1>3
  <2>2. Spec => [](Inv /\ Alone)
    BY <1>3, AlwaysAlone
  <2> QED
    BY <1>1, <2>1, <2>2, PTL DEF Spec, PlainSpec, Plain!Spec
<1>4. CASE ~Discipline
  BY <1>4
<1> QED
  BY <1>3, <1>4

-----------------------------------------------------------------------------
(* Without failing calls of the host the daemon does not abort.             *)

\* What a thread in state s relies on where a failure is an abort or a failed
\* assert: the file it will read is there, and so is the item it will link.
SoundAt(s) ==
  /\ s.pc \in {"gc_read", "link_lock", "link_read"} => Exists(s.path)
  /\ s.op = "startup" =>
       /\ phase = "hardlink"
       /\ s.pc = "unlock" => s.ret = "true"
       /\ s.pc \in {"link_same", "link_link"} /\ s.dest = s.path => Exists(s.key)
  /\ s.op \in {"unlink", "release"} => phase = "mounted"

Sound ==
  /\ \A t \in Threads : SoundAt(th[t])
  /\ \A t \in Threads : \A f \in todo[t] : Exists(f)
  /\ NoAbort

LEMMA ExistsContent ==
  ASSUME Typed, Typed', NEW n \in Names
  PROVE  /\ Exists(n) <=> Content(n) # None
         /\ Exists(n)' <=> Content(n)' # None
BY Distinct DEF Typed, TypeOK, Content, Exists

\* A thread that takes no step relies on a file and on an item that stay.
LEMMA SoundKept ==
  ASSUME NEW u \in Threads, SoundAt(th[u]), th'[u] = th[u], phase' = phase,
         Exists(th[u].path) /\ th[u].pc # "idle" => Exists(th[u].path)',
         Exists(th[u].key) /\ th[u].op = "startup" => Exists(th[u].key)'
  PROVE  SoundAt(th[u])'
BY DEF SoundAt

\* The steps that abort are the failures that Sound excludes.
LEMMA NeverDies ==
  ASSUME ~IoErrors, AloneInv, Sound, NEW t \in Threads, Proceed(t)
  PROVE  phase' = phase /\ ~Die("aborted")
<1>1. /\ SoundAt(th[t]) /\ StageOf(th[t], t) /\ phase # "aborted"
  BY DEF Sound, NoAbort, AloneInv, Stages, Stage
<1>2. phase' = phase
  <2>1. CASE GetRepoItemPath(t)
    <3>1. Exists(Path(t))
      BY <1>1, <2>1 DEF GetRepoItemPath, SoundAt, StageOf, Path
    <3> QED
      BY <2>1, <3>1 DEF GetRepoItemPath
  <2>2. CASE LinkRead(t)
    <3>1. Exists(Path(t))
      BY <1>1, <2>2 DEF LinkRead, AtPc, SoundAt, Path
    <3> QED
      BY <2>2, <3>1 DEF LinkRead
  <2>3. CASE Unlock(t)
    <3>1. th[t].op = "startup" => th[t].ret # "false"
      BY <1>1, <2>3 DEF Unlock, AtPc, SoundAt
    <3> QED
      BY <2>3, <3>1 DEF Unlock
  <2>4. CASE ~GetRepoItemPath(t) /\ ~LinkRead(t) /\ ~Unlock(t)
    BY <2>4 DEF Proceed, LockTake, LockSpin, BreakStat, BreakCopy, BreakCopyFails,
                BreakCopyShort, BreakRename, BreakRenameFails, OpenFd, GcLstat, GcUnlink,
                UnlinkFile, LinkLstat, HardlinkSame, HardlinkLink, HardlinkRename,
                HardlinkFails, TempFails, HostFails
  <2> QED
    BY <2>1, <2>2, <2>3, <2>4
<1> QED
  BY <1>1, <1>2 DEF Die

\* A job of HardlinkTree removes no item, and succeeds.
LEMMA JobSound ==
  ASSUME ~IoErrors, ~ShortCopies, AloneInv, Typed', Sound, NEW t \in Threads, Proceed(t),
         th[t].op = "startup"
  PROVE  /\ \A c \in Contents : Exists(c) => Exists(c)'
         /\ SoundAt(th[t])'
<1> PICK s \in ThreadState : s = th[t]
  BY DEF AloneInv, Inv, Typed, TypeOK
<1>1. /\ LocalsOf(s) /\ StageOf(s, t) /\ SoundAt(s) /\ th \in [Threads -> ThreadState]
      /\ s.op = "startup"
  BY DEF AloneInv, Inv, Typed, TypeOK, LocalsOK, Stages, Stage, Sound
<1>2. Typed /\ LocalStep(t) /\ Outcome(t) /\ phase' = phase /\ phase = "hardlink"
  BY <1>1, NeverDies, ProceedLocal DEF AloneInv, Inv, SoundAt
<1>3. s.pc \in LinkPcs \cup {"unlock"} /\ s.path \in Files /\ s.key \in Contents
  <2>1. s.pc # "idle"
    BY <1>1 DEF LocalsOf
  <2> QED
    BY <1>1, <2>1 DEF LocalsOf, BreakPcs, LinkPcs, ThreadState, Pcs
<1> PICK f \in Files, k \in Contents : f = s.path /\ k = s.key
  BY <1>3
<1>4. f \in Names /\ k \in Names /\ f # k /\ Path(t) = f
  BY Distinct DEF Path
<1>5. \/ LockTake(t) \/ LockSpin(t) \/ Unlock(t) \/ LinkRead(t) \/ LinkLstat(t)
      \/ HardlinkSame(t) \/ HardlinkLink(t) \/ HardlinkRename(t)
  BY <1>3 DEF LinkPcs, Proceed, BreakStat, BreakCopy, BreakCopyFails, BreakCopyShort,
              BreakRename, BreakRenameFails, OpenFd, GetRepoItemPath, GcLstat, GcUnlink,
              UnlinkFile, HardlinkFails, TempFails, HostFails, AtPc
<1>6. ASSUME NEW r, th'[t] = r, r.op = s.op, r.path = f, r.key = k, Exists(f)',
             r.pc = "unlock" => r.ret = "true",
             r.pc \in {"link_same", "link_link"} /\ r.dest = f => Exists(k)'
      PROVE  SoundAt(th[t])'
  BY <1>1, <1>2, <1>6 DEF SoundAt
<1>7. ASSUME th'[t] = Idle PROVE SoundAt(th[t])'
  BY <1>7 DEF SoundAt, Idle
<1>8. CASE HardlinkLink(t) \/ HardlinkRename(t)
  <2>1. s.pc \in {"link_link", "link_rename"} /\ s.dest \in {f, k} /\ Exists(f)
    BY <1>1, <1>8 DEF HardlinkLink, HardlinkRename, AtPc, LocalsOf, StageOf
  <2>2. LinkTmp(t) \in TmpNames /\ LinkTmp(t) \in Names /\ LinkTmp(t) # s.dest
    BY <1>4, <2>1, Distinct DEF LinkTmp, TmpNames
  <2>3. CASE HardlinkLink(t)
    <3>1. s.pc = "link_link" /\ LinkSource(t) \in {f, k} /\ Exists(LinkSource(t))
      BY <1>1, <1>4, <2>1, <2>3 DEF HardlinkLink, AtPc, LinkSource, SoundAt
    <3> PICK m \in TmpNames, src \in {f, k} : m = LinkTmp(t) /\ src = LinkSource(t)
      BY <2>2, <3>1
    <3>2. dir' = [dir EXCEPT ![m] = dir[src]]
      BY <2>3 DEF HardlinkLink, Host
    <3>3. \A n \in Names \ {m} : dir'[n] = dir[n]
      BY <1>2, <3>2 DEF Typed, TypeOK
    <3>4. /\ \A c \in Contents : Exists(c) => Exists(c)'
          /\ Exists(f)'
      BY <2>1, <3>3, Distinct DEF Exists
    <3> PICK r : r = [s EXCEPT !.pc = "link_rename"]
      OBVIOUS
    <3>5. r.op = s.op /\ r.path = f /\ r.key = k /\ r.pc = "link_rename"
      BY DEF ThreadState
    <3>6. th'[t] = r
      BY <1>1, <2>3, <3>1 DEF HardlinkLink, Host
    <3> QED
      BY <1>6, <3>4, <3>5, <3>6
  <2>4. CASE HardlinkRename(t)
    <3>1. s.pc = "link_rename"
      BY <2>4 DEF HardlinkRename, AtPc
    <3> PICK m \in TmpNames, d \in {f, k} : m = LinkTmp(t) /\ d = s.dest
      BY <2>1, <2>2
    <3>2. Exists(m) /\ m \in Names /\ d \in Names
      BY <1>1, <1>4, <2>2, <3>1 DEF StageOf, LinkTmp
    <3>3. dir' = RenameEntry(m, d)
      BY <2>4 DEF HardlinkRename, Host
    <3>4. \A n \in Names \ {m} : Exists(n) => dir'[n] # None
      BY <1>2, <3>2, <3>3 DEF RenameEntry, Typed, TypeOK, Exists
    <3>5. /\ \A c \in Contents : Exists(c) => Exists(c)'
          /\ Exists(f)'
      BY <2>1, <3>4, Distinct DEF Exists
    <3> PICK r : r = Return(t, "true")
      OBVIOUS
    <3>6. r.op = s.op /\ r.path = f /\ r.key = k /\ r.pc = "unlock" /\ r.ret = "true"
      BY DEF ThreadState, Return
    <3>7. th'[t] = r
      BY <1>1, <2>4 DEF HardlinkRename, Host
    <3> QED
      BY <1>6, <3>5, <3>6, <3>7
  <2> QED
    BY <1>8, <2>3, <2>4
<1>9. CASE \/ LockTake(t) \/ LockSpin(t) \/ Unlock(t)
           \/ LinkRead(t) \/ LinkLstat(t) \/ HardlinkSame(t)
  <2>1. \A n \in Names : Exists(n)' <=> Exists(n)
    <3>1. dir' = dir
      BY <1>2, <1>9 DEF LockTake, LockSpin, Unlock, LinkRead, LinkLstat, HardlinkSame, host,
                        Host, Abort, Die
    <3> QED
      BY <3>1 DEF Exists
  <2>2. \A c \in Contents : Exists(c) => Exists(c)'
    BY <2>1, Distinct
  <2>3. Exists(f)' <=> Exists(f)
    BY <1>4, <2>1
  <2>4. CASE LockTake(t) \/ LockSpin(t)
    <3>1. s.pc = "link_lock" /\ Exists(f)
      BY <1>1, <1>3, <2>4 DEF LockTake, LockSpin, LinkPcs, SoundAt
    <3>2. PICK p, e : th'[t] = [s EXCEPT !.pc = p, !.errno = e] /\ p \in {"link_lock", "link_read"}
      <4>1. CASE LockTake(t)
        <5>1. th'[t] = [s EXCEPT !.pc = "link_read"]
          BY <1>1, <3>1, <4>1 DEF LockTake, Step, AfterLock
        <5>2. [s EXCEPT !.pc = "link_read"] = [s EXCEPT !.pc = "link_read", !.errno = s.errno]
          BY DEF ThreadState
        <5> QED
          BY <5>1, <5>2
      <4>2. CASE LockSpin(t)
        <5>1. th'[t] = [s EXCEPT !.errno = "EEXIST"]
          BY <1>1, <4>2 DEF LockSpin, Step
        <5>2. [s EXCEPT !.errno = "EEXIST"] = [s EXCEPT !.pc = "link_lock", !.errno = "EEXIST"]
          BY <3>1 DEF ThreadState
        <5> QED
          BY <5>1, <5>2
      <4> QED
        BY <2>4, <4>1, <4>2
    <3> PICK r : r = [s EXCEPT !.pc = p, !.errno = e]
      OBVIOUS
    <3>3. r.pc = p /\ r.op = s.op /\ r.path = f /\ r.key = k
      BY DEF ThreadState
    <3> QED
      BY <1>6, <2>2, <2>3, <3>1, <3>2, <3>3
  <2>5. CASE Unlock(t)
    <3>1. AfterUnlock(t) = Idle
      BY <1>1 DEF AfterUnlock
    <3>2. th'[t] = Idle
      BY <1>1, <2>5, <3>1, NeverDies DEF Unlock, Host
    <3> QED
      BY <1>7, <2>2, <3>2
  <2>6. CASE LinkRead(t)
    <3>1. Exists(f) /\ s.pc = "link_read"
      BY <1>1, <2>6 DEF LinkRead, AtPc, SoundAt
    <3> PICK c, r : r = [s EXCEPT !.key = c, !.pc = "link_lstat"] /\ th'[t] = r
      BY <1>1, <1>4, <2>6, <3>1, NeverDies DEF LinkRead, Abort, Step
    <3>2. r.op = "startup" /\ r.pc = "link_lstat"
      BY <1>1 DEF ThreadState
    <3> QED
      BY <1>2, <2>2, <3>2 DEF SoundAt
  <2>7. CASE LinkLstat(t)
    <3> PICK d : d = IF Exists(k) THEN f ELSE k
      OBVIOUS
    <3> PICK r : r = [s EXCEPT !.dest = d, !.pc = "link_same"]
      OBVIOUS
    <3>1. r.op = s.op /\ r.pc = "link_same" /\ r.path = f /\ r.key = k /\ r.dest = d
      BY DEF ThreadState
    <3>2. th'[t] = r
      BY <1>1, <1>4, <2>7 DEF LinkLstat, Step
    <3>3. Exists(f)
      BY <1>1, <2>7 DEF LinkLstat, AtPc, StageOf
    <3> QED
      BY <1>4, <1>6, <2>1, <2>2, <3>1, <3>2, <3>3
  <2>8. CASE HardlinkSame(t)
    <3>1. s.pc = "link_same" /\ Exists(f)
      BY <1>1, <2>8 DEF HardlinkSame, AtPc, StageOf
    <3> PICK r : /\ th'[t] = r
                 /\ r \in {Return(t, "true"), [s EXCEPT !.pc = "link_link"]}
      BY <1>1, <2>8 DEF HardlinkSame, Step
    <3>2. /\ r.op = s.op /\ r.path = f /\ r.key = k /\ r.dest = s.dest
          /\ r.pc = "unlock" => r.ret = "true"
      BY DEF ThreadState, Return
    <3>3. s.dest = f => Exists(k)
      BY <1>1, <3>1 DEF SoundAt
    <3> QED
      BY <1>4, <1>6, <2>1, <2>2, <3>1, <3>2, <3>3
  <2> QED
    BY <1>9, <2>4, <2>5, <2>6, <2>7, <2>8
<1> QED
  BY <1>5, <1>8, <1>9

\* Where a thread comes from that is about to read its file.
LEMMA BeforeRead ==
  ASSUME Typed, NEW t \in Threads, Proceed(t), ~Die("aborted"),
         th'[t].pc \in {"gc_read", "link_lock", "link_read"}
  PROVE  th[t].pc \in {"break_rename", "link_lock"}
<1> DEFINE Ahead == {"gc_read", "link_lock", "link_read"}
<1> PICK s \in ThreadState : s = th[t]
  BY DEF Typed, TypeOK
<1>1. th \in [Threads -> ThreadState]
  BY DEF Typed, TypeOK
<1>2. /\ Idle.pc = "idle"
      /\ \A b : Return(t, b).pc = "unlock"
      /\ \A p : /\ [s EXCEPT !.pc = p].pc = p
               /\ [s EXCEPT !.pc = p, !.from = None].pc = p
               /\ \A k : [s EXCEPT !.key = k, !.pc = p].pc = p
               /\ \A d : [s EXCEPT !.dest = d, !.pc = p].pc = p
               /\ [s EXCEPT !.pc = p, !.ret = "false"].pc = p
      /\ Return(t, "true").pc = "unlock" /\ Return(t, "false").pc = "unlock"
      /\ [s EXCEPT !.pc = "break_copy"].pc = "break_copy"
      /\ [s EXCEPT !.pc = "gc_unlink"].pc = "gc_unlink"
      /\ [s EXCEPT !.pc = "gc_lstat"].pc = "gc_lstat"
      /\ [s EXCEPT !.pc = "link_link"].pc = "link_link"
      /\ [s EXCEPT !.pc = "link_rename"].pc = "link_rename"
      /\ [s EXCEPT !.pc = "unlink_file", !.ret = "false"].pc = "unlink_file"
  BY DEF ThreadState, Idle, Return
<1>3. /\ AfterGc(t).pc \in {"idle", "unlock"}
      /\ AfterUnlock(t).pc \in {"idle", "open_fd"}
  BY <1>2 DEF AfterGc, AfterUnlock
<1>4. CASE LockTake(t) \/ LockSpin(t) \/ Unlock(t)
  <2>1. CASE LockTake(t)
    <3>1. th'[t].pc = AfterLock[s.pc] /\ s.pc \in {"break_lock", "link_lock"}
      BY <1>1, <1>2, <2>1 DEF LockTake, Step
    <3> QED
      BY <3>1 DEF AfterLock
  <2>2. CASE LockSpin(t)
    <3>1. [s EXCEPT !.errno = "EEXIST"].pc = s.pc
      BY DEF ThreadState
    <3> QED
      BY <1>1, <2>2, <3>1 DEF LockSpin, Step
  <2>3. CASE Unlock(t)
    BY <1>1, <1>3, <2>3 DEF Unlock, Host
  <2> QED
    BY <1>4, <2>1, <2>2, <2>3
<1>5. CASE \/ BreakStat(t) \/ BreakCopy(t) \/ BreakCopyFails(t) \/ BreakCopyShort(t)
           \/ BreakRename(t) \/ BreakRenameFails(t)
  <2>1. CASE BreakStat(t)
    <3>1. th'[t] \in {Return(t, "true"), Return(t, "false"), [s EXCEPT !.pc = "break_copy"]}
      BY <1>1, <2>1 DEF BreakStat, Step
    <3> QED
      BY <1>2, <3>1
  <2>2. CASE BreakCopy(t) \/ BreakCopyFails(t) \/ BreakRenameFails(t)
    BY <1>1, <1>2, <2>2 DEF BreakCopy, BreakCopyFails, BreakRenameFails, Host
  <2>3. CASE BreakRename(t)
    BY <2>3 DEF BreakRename, AtPc
  <2>4. CASE BreakCopyShort(t)
    <3> PICK b : th' = [th EXCEPT ![t] = Return(t, b)]
      BY <2>4 DEF BreakCopyShort, Host
    <3> QED
      BY <1>1, <1>2
  <2> QED
    BY <1>5, <2>1, <2>2, <2>3, <2>4
<1>6. CASE OpenFd(t)
  BY <1>1, <1>2, <1>6 DEF OpenFd, Host
<1>7. CASE GetRepoItemPath(t) \/ GcLstat(t) \/ GcUnlink(t) \/ UnlinkFile(t)
  <2>1. CASE GetRepoItemPath(t)
    <3> PICK k, p : /\ th'[t] = [s EXCEPT !.key = k, !.pc = p]
                   /\ p \in {"gc_lstat", "unlink_file"}
      BY <1>1, <2>1 DEF GetRepoItemPath, Abort, Step
    <3> QED
      BY <1>2
  <2>2. CASE GcLstat(t)
    <3>1. th'[t] \in {AfterGc(t), [s EXCEPT !.pc = "gc_unlink"]}
      BY <1>1, <2>2 DEF GcLstat, Step
    <3> QED
      BY <1>2, <1>3, <3>1
  <2>3. CASE GcUnlink(t) \/ UnlinkFile(t)
    BY <1>1, <1>2, <1>3, <2>3 DEF GcUnlink, UnlinkFile, Host
  <2> QED
    BY <1>7, <2>1, <2>2, <2>3
<1>8. CASE LinkRead(t) \/ LinkLstat(t) \/ HardlinkSame(t)
  <2>1. CASE LinkRead(t)
    <3> PICK k : th'[t] = [s EXCEPT !.key = k, !.pc = "link_lstat"]
      BY <1>1, <2>1 DEF LinkRead, Abort, Step
    <3> QED
      BY <1>2
  <2>2. CASE LinkLstat(t)
    <3> PICK d : th'[t] = [s EXCEPT !.dest = d, !.pc = "link_same"]
      BY <1>1, <2>2 DEF LinkLstat, Step
    <3> QED
      BY <1>2
  <2>3. CASE HardlinkSame(t)
    <3>1. th'[t] \in {Return(t, "true"), [s EXCEPT !.pc = "link_link"]}
      BY <1>1, <2>3 DEF HardlinkSame, Step
    <3> QED
      BY <1>2, <3>1
  <2> QED
    BY <1>8, <2>1, <2>2, <2>3
<1>9. CASE HardlinkLink(t) \/ HardlinkRename(t) \/ HardlinkFails(t)
  <2>1. th'[t] \in {Return(t, "true"), Return(t, "false"), [s EXCEPT !.pc = "link_rename"]}
    BY <1>1, <1>9 DEF HardlinkLink, HardlinkRename, HardlinkFails, Host
  <2> QED
    BY <1>2, <2>1
<1>10. CASE HostFails(t)
  <2>1. th'[t] \in {Idle, Return(t, "false"), [s EXCEPT !.pc = "gc_lstat"],
                    [s EXCEPT !.pc = "unlink_file", !.ret = "false"]}
    BY <1>1, <1>10, HostFailsCases DEF Step
  <2> QED
    BY <1>2, <2>1
<1> QED
  BY <1>1, <1>4, <1>5, <1>6, <1>7, <1>8, <1>9, <1>10 DEF Proceed, TempFails, Abort

LEMMA ProceedSound ==
  ASSUME ~IoErrors, ~ShortCopies, AloneInv, Typed', Sound, NEW t \in Threads, Proceed(t)
  PROVE  Sound'
<1>1. /\ phase' = phase /\ ~Die("aborted") /\ todo' = todo /\ NoAbort'
      /\ Typed /\ Serial /\ th[t].pc # "idle" /\ LocalsOf(th[t]) /\ th[t] \in ThreadState
  BY NeverDies, ProceedThread DEF AloneInv, Inv, Sound, NoAbort, Typed, TypeOK, LocalsOK
<1>2. Frame(t) /\ Outcome(t)
  BY <1>1, ProceedAlone
<1> PICK r : /\ th' = [th EXCEPT ![t] = r]
             /\ r = Idle \/ (r.op = th[t].op /\ r.path = th[t].path)
  BY <1>1, ProceedThread
<1>3. th'[t] = r /\ \A u \in Threads \ {t} : th'[u] = th[u]
  BY <1>1 DEF Typed, TypeOK
<1>4. \A f \in Files : f # Path(t) /\ Exists(f) => Exists(f)'
  BY <1>2 DEF Frame, Kept, Exists
<1>5. ASSUME NEW u \in Threads, NEW f \in todo'[u] PROVE Exists(f)'
  <2>1. f \in todo[u] /\ f \in Files /\ f # Path(t) /\ Exists(f)
    BY <1>1, <1>5 DEF Typed, TypeOK, Serial, JobsApart, Path, Sound
  <2> QED
    BY <1>4, <2>1
<1>6. th[t].op # "none"
  BY <1>1 DEF LocalsOf, BreakPcs, LinkPcs, ThreadState, Pcs
<1>7. ASSUME NEW u \in Threads \ {t} PROVE SoundAt(th[u])'
  <2> PICK s \in ThreadState : s = th[u]
    BY <1>1 DEF Typed, TypeOK
  <2>1. SoundAt(s) /\ LocalsOf(s)
    BY <1>1 DEF Sound, Typed, LocalsOK
  <2>2. s.pc # "idle" => s.path \in Files /\ s.path # Path(t)
    BY <1>1, <2>1 DEF LocalsOf, Serial, PathsApart, Path
  <2>3. ASSUME s.op = "startup", Exists(s.key) PROVE Exists(s.key)'
    <3>1. phase = "hardlink"
      BY <2>1, <2>3 DEF SoundAt
    <3>2. th[t].op = "startup"
      BY <1>1, <1>6, <3>1 DEF Serial, PhasesApart, Opening, Sound, SoundAt, ThreadState, Ops
    <3>3. s.key \in Contents
      BY DEF ThreadState
    <3> QED
      BY <2>3, <3>2, <3>3, JobSound
  <2>4. s.pc # "idle" /\ Exists(s.path) => Exists(s.path)'
    BY <1>4, <2>2
  <2>5. th'[u] = s
    BY <1>3
  <2> QED
    BY <1>1, <2>1, <2>3, <2>4, <2>5 DEF SoundAt
<1>8. SoundAt(th[t])'
  <2>1. CASE th[t].op = "startup"
    BY <2>1, JobSound
  <2>2. CASE th[t].op # "startup"
    <3>1. r.op # "startup" /\ (r.op \in {"unlink", "release"} => phase = "mounted")
      <4>1. SoundAt(th[t])
        BY DEF Sound
      <4> QED
        BY <2>2, <4>1 DEF Idle, SoundAt
    <3>2. ASSUME r.pc \in {"gc_read", "link_lock", "link_read"} PROVE Exists(r.path)'
      <4>1. th[t].pc \in {"break_rename", "link_lock"}
        BY <1>1, <1>3, <3>2, BeforeRead
      <4>2. Exists(th[t].path) /\ th[t].path \in Files
        BY <1>1, <4>1 DEF AloneInv, Stages, Stage, StageOf, Sound, SoundAt, LocalsOf
      <4>3. r.path = th[t].path
        BY <3>2 DEF Idle
      <4> PICK f \in Files : f = th[t].path
        BY <4>2
      <4>4. Content(f)' # None
        <5>1. f \in Names /\ Content(f) # None
          BY <1>1, <4>2, ExistsContent, Distinct
        <5>2. ~Unlinked(t) /\ (Opened(t) => Content(f)' # None)
          <6>1. ~Unlinked(t)
            BY <4>1 DEF Unlinked
          <6>2. Opened(t) => Content(f)' = Content(f)
            BY <5>1 DEF Opened, Path
          <6> QED
            BY <5>1, <6>1, <6>2
        <5> QED
          BY <1>2, <5>1, <5>2 DEF Outcome, Silent
      <4> QED
        BY <1>1, <4>3, <4>4, ExistsContent, Distinct
    <3>3. SoundAt(r)'
      BY <1>1, <3>1, <3>2 DEF SoundAt
    <3> QED
      BY <1>3, <3>3
  <2> QED
    BY <2>1, <2>2
<1> QED
  BY <1>1, <1>5, <1>7, <1>8 DEF Sound

\* Thread u is put into state r by a client's request.
Joins(u, r) ==
  /\ th'[u] = r
  /\ r.op # "startup"
  /\ r.pc \in {"gc_read", "link_lock", "link_read"} => Exists(r.path)'

\* Steps of clients: a thread that begins finds its file, and no file that
\* somebody works on goes away.
LEMMA ClientSound ==
  ASSUME AloneInv, Sound, phase = "mounted", UNCHANGED <<phase, todo>>,
         \A u \in Threads :
           \/ /\ th'[u] = th[u]
              /\ th[u].pc # "idle" /\ Exists(th[u].path) => Exists(th[u].path)'
           \/ \E r : Joins(u, r)
  PROVE  Sound'
<1>1. todo = NoJobs /\ NoAbort'
  BY DEF AloneInv, Serial, PhasesApart, NoAbort
<1>2. ASSUME NEW u \in Threads PROVE SoundAt(th[u])'
  <2>1. SoundAt(th[u]) /\ th[u].op # "startup"
    BY DEF Sound, SoundAt
  <2>2. CASE /\ th'[u] = th[u]
             /\ th[u].pc # "idle" /\ Exists(th[u].path) => Exists(th[u].path)'
    BY <2>1, <2>2, SoundKept
  <2>3. CASE \E r : Joins(u, r)
    BY <2>3 DEF Joins, SoundAt
  <2> QED
    BY <2>2, <2>3
<1> QED
  BY <1>1, <1>2 DEF Sound, NoJobs

\* Steps after which no thread runs and no job has work left.
LEMMA IdleSound ==
  ASSUME \A u \in Threads : th'[u].pc = "idle" /\ th'[u].op = "none",
         \A u \in Threads : \A f \in todo'[u] : Exists(f)', NoAbort'
  PROVE  Sound'
BY DEF Sound, SoundAt

LEMMA StartSound ==
  ASSUME Discipline, AloneInv, Sound, NEW t \in Threads, NEW f \in Files,
         Unlink(t, f) \/ \E h \in Handles : Open(t, f, h) \/ Create(t, f, h)
  PROVE  Sound'
<1>1. th \in [Threads -> ThreadState]
  BY DEF AloneInv, Inv, Typed, TypeOK
<1>2. phase = "mounted" /\ UNCHANGED <<host, phase, todo>>
  BY DEF Unlink, Open, Create, StartBreak, ExclusiveOk, Admit
<1>3. \E r : /\ th' = [th EXCEPT ![t] = r]
             /\ r.op # "startup" /\ r.pc \in {"unlink_read", "break_lock"}
  <2>1. CASE Unlink(t, f)
    <3> PICK r : r = [Idle EXCEPT !.pc = "unlink_read", !.op = "unlink", !.path = f]
      OBVIOUS
    <3>1. r.pc = "unlink_read" /\ r.op = "unlink"
      BY DEF Idle
    <3> QED
      BY <2>1, <3>1 DEF Unlink, Step
  <2>2. ASSUME NEW h \in Handles, Open(t, f, h) \/ Create(t, f, h)
        PROVE  \E r : /\ th' = [th EXCEPT ![t] = r]
                     /\ r.op # "startup" /\ r.pc \in {"unlink_read", "break_lock"}
    <3>1. PICK o \in Opening : StartBreak(t, o, f, h)
      BY <2>2 DEF Open, Create, Opening
    <3> PICK i, r : r = BreakStart(o, f, h, i) /\ th' = [th EXCEPT ![t] = r]
      BY <3>1, StartBreakStarts
    <3>2. r.pc = "break_lock" /\ r.op # "startup"
      BY BreakStartFields DEF Opening
    <3> QED
      BY <3>2
  <2> QED
    BY <2>1, <2>2
<1>4. \A n : Exists(n) => Exists(n)'
  BY <1>2 DEF host, Exists
<1> QED
  BY <1>1, <1>2, <1>3, <1>4, ClientSound DEF Joins

LEMMA ReleaseSound ==
  ASSUME AloneInv, Sound, NEW t \in Threads, NEW h \in Handles, Release(t, h)
  PROVE  Sound'
<1>1. th \in [Threads -> ThreadState] /\ fh[h] \in Handle
  BY DEF AloneInv, Inv, Typed, TypeOK, Release
<1>2. phase = "mounted" /\ UNCHANGED <<dir, phase, todo>>
  BY DEF Release, Host
<1> PICK f \in Files : f = fh[h].path
  BY <1>1 DEF Handle
<1>3. fh[h].access = "w" => Exists(f)
  BY <1>1, Distinct DEF AloneInv, Writers, WriterAt, Release, Exists, Handle
<1> PICK r : r = IF fh[h].access = "w"
                 THEN [Idle EXCEPT !.pc = "link_lock", !.op = "release", !.path = f]
                 ELSE Idle
  OBVIOUS
<1>4. /\ r.op # "startup"
      /\ r.pc # "idle" => r.path = f /\ fh[h].access = "w"
      /\ r.pc \in {"idle", "link_lock"}
  BY DEF Idle
<1>5. th' = [th EXCEPT ![t] = r]
  BY DEF Release, Host
<1>6. \A n : Exists(n) => Exists(n)'
  BY <1>2 DEF Exists
<1> QED
  BY <1>1, <1>2, <1>3, <1>4, <1>5, <1>6, ClientSound DEF Joins

LEMMA PassSound ==
  ASSUME Discipline, AloneInv, Typed', Sound,
         \/ \E f \in Files, h \in Handles : OpenRead(f, h) \/ CreateRead(f, h)
         \/ \E h \in Handles, c \in Contents : Write(h, c)
         \/ \E f, g \in Files : Rename(f, g) \/ Link(f, g)
  PROVE  Sound'
<1>1. Typed
  BY DEF AloneInv, Inv
<1>2. phase = "mounted" /\ UNCHANGED <<th, phase, todo>>
  BY DEF OpenRead, CreateRead, Write, Rename, Link, ExclusiveOk, Admit, Host
<1>3. ASSUME NEW u \in Threads, th[u].pc # "idle", Exists(th[u].path)
      PROVE  Exists(th[u].path)'
  <2> PICK e \in Files : e = th[u].path
    BY <1>1, <1>3 DEF Typed, LocalsOK, LocalsOf
  <2>1. CASE \/ \E f \in Files, h \in Handles : OpenRead(f, h)
             \/ \E h \in Handles, c \in Contents : Write(h, c)
    <3>1. dir' = dir
      BY <2>1 DEF OpenRead, Write, Host
    <3> QED
      BY <1>2, <1>3, <3>1 DEF Exists
  <2>2. ASSUME NEW f \in Files, NEW g \in Files, Rename(f, g) \/ Link(f, g)
        PROVE  Exists(e)'
    <3>1. e # f /\ e # g
      BY <2>2, NotBusy DEF Rename, Link, ExclusiveOk
    <3>2. Content(e)' = Content(e)
      BY <2>2, <3>1, RenameAlone, LinkFileAlone DEF Silent
    <3>3. e \in Names /\ Exists(e)
      BY <1>3, Distinct
    <3> QED
      BY <1>1, <3>2, <3>3, ExistsContent
  <2>3. ASSUME NEW f \in Files, NEW h \in Handles, CreateRead(f, h)
        PROVE  Exists(e)'
    <3>1. e # f /\ Content(e)' = Content(e)
      BY <1>3, <2>3, NotBusy, CreateReadAlone DEF CreateRead, ExclusiveOk
    <3>2. e \in Names /\ Exists(e)
      BY <1>3, Distinct
    <3> QED
      BY <1>1, <3>1, <3>2, ExistsContent
  <2>4. th'[u].path = e
    BY <1>2
  <2> QED
    BY <2>1, <2>2, <2>3, <2>4 DEF Exists
<1> QED
  BY <1>2, <1>3, ClientSound

LEMMA MainSound ==
  ASSUME AloneInv, Sound, GcTree \/ HardlinkTree \/ FuseMain \/ Kill \/ Restart
  PROVE  Sound'
<1>1. \A u \in Threads : th'[u].pc = "idle" /\ th'[u].op = "none"
  <2>1. CASE Kill
    <3>1. th' = AllIdle
      BY <2>1 DEF Kill, Die, Host
    <3> QED
      BY <3>1 DEF AllIdle, Idle
  <2>2. CASE GcTree \/ HardlinkTree \/ FuseMain \/ Restart
    <3>1. th' = th /\ \A u \in Threads : th[u].pc = "idle"
      BY <2>2 DEF GcTree, HardlinkTree, FuseMain, Restart, Host, AloneInv, Inv, Stopped,
                  StoppedPhases, AllIdle, Idle
    <3> QED
      BY <3>1 DEF AloneInv, Inv, Typed, LocalsOK, LocalsOf
  <2> QED
    BY <2>1, <2>2
<1>2. NoAbort'
  BY DEF GcTree, HardlinkTree, FuseMain, Kill, Die, Restart, NoAbort
<1>3. ASSUME NEW u \in Threads, NEW f \in todo'[u] PROVE Exists(f)'
  <2>1. CASE HardlinkTree
    <3>1. SoleLink(f) /\ dir' = dir
      BY <1>3, <2>1 DEF HardlinkTree, host
    <3> QED
      BY <3>1 DEF SoleLink, Exists
  <2>2. CASE GcTree \/ FuseMain \/ Kill \/ Restart
    <3>1. todo' = NoJobs
      BY <2>2 DEF GcTree, FuseMain, Kill, Die, Restart, AloneInv, Serial, PhasesApart
    <3> QED
      BY <1>3, <3>1 DEF NoJobs
  <2> QED
    BY <2>1, <2>2
<1> QED
  BY <1>1, <1>2, <1>3, IdleSound

LEMMA NextTaskSound ==
  ASSUME AloneInv, Sound, NEW t \in Threads, NEW f \in Files, NextTask(t, f)
  PROVE  Sound'
<1>1. th \in [Threads -> ThreadState] /\ todo \in [Threads -> SUBSET Files]
  BY DEF AloneInv, Inv, Typed, TypeOK
<1>2. /\ phase = "hardlink" /\ phase' = phase /\ dir' = dir /\ Exists(f)
      /\ \A u \in Threads : todo'[u] \subseteq todo[u]
  BY <1>1 DEF NextTask, Sound, host
<1>3. \A n : Exists(n)' <=> Exists(n)
  BY <1>2 DEF Exists
<1> PICK r : r = [Idle EXCEPT !.pc = "link_lock", !.op = "startup", !.path = f]
  OBVIOUS
<1>4. r.pc = "link_lock" /\ r.op = "startup" /\ r.path = f
  BY DEF Idle
<1>5. \A u \in Threads : th'[u] = IF u = t THEN r ELSE th[u]
  BY <1>1 DEF NextTask, Step
<1>6. ASSUME NEW u \in Threads PROVE SoundAt(th[u])'
  <2>1. CASE u = t
    BY <1>2, <1>3, <1>4, <1>5, <2>1 DEF SoundAt
  <2>2. CASE u # t
    <3>1. SoundAt(th[u]) /\ th'[u] = th[u]
      BY <1>5, <2>2 DEF Sound
    <3> QED
      BY <1>2, <1>3, <3>1, SoundKept
  <2> QED
    BY <2>1, <2>2
<1> QED
  BY <1>2, <1>3, <1>6 DEF Sound, NoAbort

LEMMA NextSound ==
  ASSUME Discipline, ~IoErrors, AloneInv, Typed', Sound, [Next]_vars
  PROVE  Sound'
<1>1. CASE Startup
  BY <1>1, MainSound, NextTaskSound DEF Startup
<1>2. CASE Client
  <2>1. ~\E f \in Files : Truncate(f)
    BY DEF Truncate, Discipline
  <2> QED
    BY <1>2, <2>1, StartSound, ReleaseSound, PassSound DEF Client
<1>3. CASE \E t \in Threads : Proceed(t)
  BY <1>3, ProceedSound DEF Discipline
<1>4. CASE Kill \/ Restart
  BY <1>4, MainSound
<1>5. CASE UNCHANGED vars
  BY <1>5 DEF vars, Sound, SoundAt, Exists, NoAbort
<1> QED
  BY <1>1, <1>2, <1>3, <1>4, <1>5 DEF Next

\* The daemon hits none of its abort() calls and none of its asserts: what it
\* reads is there when it reads it, and what it links when it links it.  The
\* asserts do fail when the host refuses a call (HostFails, HardlinkFails,
\* TempFails), and when clients share a path.
THEOREM NeverAborts == Discipline /\ ~IoErrors /\ Spec => []NoAbort
<1>1. Init => Inv /\ Alone /\ Sound
  <2>1. Init => Sound
    BY DEF Init, Sound, SoundAt, AllIdle, Idle, NoJobs, NoAbort
  <2> QED
    BY <2>1, InitAlone DEF AloneInv, Alone
<1>2. Discipline /\ ~IoErrors /\ Inv /\ Alone /\ Sound /\ [Next]_vars
        => (Inv /\ Alone /\ Sound)'
  <2> SUFFICES ASSUME Discipline, ~IoErrors, Inv, Alone, Sound, [Next]_vars
               PROVE  (Inv /\ Alone /\ Sound)'
    OBVIOUS
  <2>1. AloneInv
    BY DEF AloneInv, Alone
  <2>2. Inv' /\ Alone'
    BY <2>1, NextInv, NextAlone
  <2> QED
    BY <2>1, <2>2, NextSound DEF Inv
<1>3. CASE Discipline /\ ~IoErrors
  <2>1. Inv /\ Alone /\ Sound /\ [Next]_vars => (Inv /\ Alone /\ Sound)'
    BY <1>2, <1>3
  <2>2. Sound => NoAbort
    BY DEF Sound
  <2> QED
    BY <1>1, <2>1, <2>2, PTL DEF Spec
<1>4. CASE ~(Discipline /\ ~IoErrors)
  BY <1>4
<1> QED
  BY <1>3, <1>4

-----------------------------------------------------------------------------
(***************************************************************************)
(* What cowfs leaves behind when clients use one path at a time, no call   *)
(* of the host fails and the daemon was never killed: no temporary name,   *)
(* no repository item without a user file (unless clients rename files),   *)
(* and, when one thread runs the handlers, no two inodes of equal content. *)
(***************************************************************************)

\* Names n and m may be links to one inode; no other name is a link to it.
OnlyLinks(n, m) == \A k \in Names \ {n, m} : dir[k] = dir[n] => dir[n] = None

\* What thread t knows of its file between the lock and the rename of
\* HardlinkOneFile, and of the result of its functions.
LinkedOf(s, t) ==
  LET tmp == <<s.dest, "of", t>>
  IN /\ s.pc \in {"link_lock", "link_read", "link_lstat", "link_same", "link_link"} =>
          Single(s.path)
     /\ s.pc = "link_rename" /\ s.dest = s.path => Single(s.path)
     /\ s.pc = "link_rename" /\ s.dest # s.path =>
          dir[tmp] = dir[s.path] /\ OnlyLinks(s.path, tmp)
     /\ s.pc # "unlock" => s.ret = "true"

Linked(t) == LinkedOf(th[t], t)

\* Thread t in state s is about to rename its temporary name n.
OwnsTmp(s, t, n) ==
  \/ s.pc = "break_rename" /\ n = <<s.path, "mb", t>>
  \/ s.pc = "link_rename" /\ n = <<s.dest, "of", t>>

TmpOwned == \A n \in TmpNames : Exists(n) => OwnsTmp(th[n[3]], n[3], n)

Tidy ==
  /\ phase # "killed"
  /\ \A t \in Threads : Linked(t)
  /\ \A t \in Threads : \A f \in todo[t] : Single(f)
  /\ TmpOwned

-----------------------------------------------------------------------------
(* The steps of a running handler when no call of the host fails: thread t  *)
(* goes from state s to state r.                                            *)

\* Only the names of S change.
Elsewhere(S) == \A n \in Names \ S : dir'[n] = dir[n] /\ Content(n)' = Content(n)

\* Name n gets an inode that no name had.
Fresh(n) == dir'[n] # None /\ \A k \in Names : dir[k] # dir'[n]

SameCall(s, r) == r.op = s.op /\ r.path = s.path
SameLocals(s, r) == SameCall(s, r) /\ r.key = s.key /\ r.dest = s.dest /\ r.ret = s.ret

\* GarbageCollectOneRepoFile returns.
GcReturns(s, r) ==
  IF s.op = "unlink" THEN r = Idle ELSE SameCall(s, r) /\ r.pc = "unlock" /\ r.ret = "true"

Locking(s, r) ==
  /\ \/ s.pc = "break_lock" /\ r.pc \in {"break_lock", "break_stat"}
     \/ s.pc = "link_lock" /\ r.pc \in {"link_lock", "link_read"}
  /\ SameLocals(s, r) /\ fh' = fh /\ Elsewhere({})

Unlocking(s, r) ==
  /\ s.pc = "unlock"
  /\ IF s.op \in Opening /\ s.ret = "true" THEN r.pc = "open_fd" /\ SameLocals(s, r) ELSE r = Idle
  /\ fh' = fh /\ Elsewhere({})

Looking(s, r) ==
  /\ s.pc = "break_stat" /\ SameCall(s, r)
  /\ \/ r.pc = "break_copy" /\ SameLocals(s, r)
     \/ r.pc = "unlock" /\ (Exists(s.path) => r.ret = "true")
  /\ fh' = fh /\ Elsewhere({})

Copying(t, s, r) ==
  LET mb == <<s.path, "mb", t>>
  IN /\ s.pc = "break_copy" /\ r.pc = "break_rename" /\ SameLocals(s, r) /\ fh' = fh
     /\ Elsewhere({mb}) /\ Fresh(mb) /\ Exists(s.path)

Replacing(t, s, r) ==
  LET mb == <<s.path, "mb", t>>
  IN /\ s.pc = "break_rename" /\ r.pc = "gc_read" /\ SameLocals(s, r) /\ fh' = fh
     /\ Elsewhere({mb, s.path}) /\ Exists(mb) /\ dir'[s.path] = dir[mb] /\ dir'[mb] = None
     /\ Content(s.path)' = Content(s.path)

GetsHandle(s) ==
  \E i \in Inodes :
    fh' = [fh EXCEPT ![s.handle] = [path |-> s.path, ino |-> i, access |-> "w"]]

Opens(s, r) ==
  /\ s.pc = "open_fd" /\ r = Idle
  /\ \/ ~Exists(s.path) /\ s.op = "open" /\ fh' = fh /\ Elsewhere({})
     \/ /\ GetsHandle(s)
        /\ \/ Exists(s.path) /\ Elsewhere({})
           \/ Elsewhere({s.path}) /\ Fresh(s.path) /\ ~Exists(s.path)

Reading(s, r) ==
  /\ \/ s.pc = "gc_read" /\ r.pc = "gc_lstat"
     \/ s.pc = "unlink_read" /\ r.pc = "unlink_file"
     \/ s.pc = "link_read" /\ r.pc = "link_lstat"
  /\ SameCall(s, r) /\ r.ret = s.ret /\ r.key = Content(s.path) /\ Exists(s.path)
  /\ fh' = fh /\ Elsewhere({})

Checking(s, r) ==
  /\ s.pc = "gc_lstat" /\ fh' = fh /\ Elsewhere({})
  /\ \/ SoleLink(s.key) /\ r.pc = "gc_unlink" /\ SameLocals(s, r)
     \/ ~SoleLink(s.key) /\ GcReturns(s, r)

Collecting(s, r) ==
  /\ s.pc = "gc_unlink" /\ GcReturns(s, r) /\ fh' = fh
  /\ Elsewhere({s.key}) /\ dir'[s.key] = None

Unlinking(s, r) ==
  /\ s.pc = "unlink_file" /\ r.pc = "gc_lstat" /\ SameLocals(s, r) /\ fh' = fh
  /\ Elsewhere({s.path}) /\ dir'[s.path] = None

Choosing(s, r) ==
  /\ s.pc = "link_lstat" /\ r.pc = "link_same" /\ fh' = fh /\ Elsewhere({})
  /\ SameCall(s, r) /\ r.key = s.key /\ r.ret = s.ret
  /\ r.dest = IF Exists(s.key) THEN s.path ELSE s.key

Comparing(s, r) ==
  /\ s.pc = "link_same" /\ r.pc = "link_link" /\ SameLocals(s, r) /\ fh' = fh /\ Elsewhere({})

Linking(t, s, r) ==
  LET tmp == <<s.dest, "of", t>>
      src == IF s.dest = s.path THEN s.key ELSE s.path
  IN /\ s.pc = "link_link" /\ SameCall(s, r) /\ fh' = fh
     /\ Elsewhere({tmp}) /\ dir'[tmp] = dir[src]
     /\ IF Exists(src) THEN r.pc = "link_rename" /\ SameLocals(s, r) ELSE r.pc = "unlock"

Installing(t, s, r) ==
  LET tmp == <<s.dest, "of", t>>
  IN /\ s.pc = "link_rename" /\ r.pc = "unlock" /\ SameCall(s, r) /\ fh' = fh
     /\ Elsewhere({tmp, s.dest}) /\ Exists(tmp) /\ dir'[s.dest] = dir[tmp] /\ dir'[tmp] = None
     /\ Content(s.dest)' = s.key

Moves(t, s, r) ==
  \/ Locking(s, r) \/ Unlocking(s, r) \/ Looking(s, r) \/ Copying(t, s, r)
  \/ Replacing(t, s, r) \/ Opens(s, r) \/ Reading(s, r) \/ Checking(s, r)
  \/ Collecting(s, r) \/ Unlinking(s, r) \/ Choosing(s, r) \/ Comparing(s, r)
  \/ Linking(t, s, r) \/ Installing(t, s, r)

Moved(t) ==
  \E s, r \in ThreadState :
    s = th[t] /\ th' = [th EXCEPT ![t] = r] /\ LocalsOf(s) /\ StageOf(s, t) /\ Moves(t, s, r)

LEMMA KeptElsewhere ==
  ASSUME NEW S, \A n \in Names \ S : Kept(n)
  PROVE  Elsewhere(S)
BY DEF Kept, Elsewhere

\* The state a step puts its thread into.
LEMMA Reaches ==
  ASSUME Typed, Typed', NEW t \in Threads, NEW r, th' = [th EXCEPT ![t] = r]
  PROVE  r \in ThreadState /\ th'[t] = r /\ \A u \in Threads \ {t} : th'[u] = th[u]
BY DEF Typed, TypeOK

LEMMA MovesLock ==
  ASSUME AloneInv, Typed', NEW t \in Threads,
         LockTake(t) \/ LockSpin(t) \/ (Unlock(t) /\ ~Die("aborted"))
  PROVE  Moved(t)
<1> PICK s \in ThreadState : s = th[t]
  BY DEF AloneInv, Inv, Typed, TypeOK
<1>1. Typed /\ LocalsOf(s) /\ StageOf(s, t)
  BY DEF AloneInv, Inv, Typed, LocalsOK, Stages, Stage
<1>2. Elsewhere({}) /\ fh' = fh
  <2>1. \A n \in Names : Kept(n)
    BY <1>1, HostSame DEF LockTake, LockSpin, Unlock
  <2> QED
    BY <2>1, KeptElsewhere DEF LockTake, LockSpin, Unlock, Host
<1>3. CASE LockTake(t)
  <2> PICK r : r = [s EXCEPT !.pc = AfterLock[s.pc]]
    OBVIOUS
  <2>1. r.pc = AfterLock[s.pc] /\ SameLocals(s, r)
    BY DEF ThreadState, SameLocals, SameCall
  <2>2. \/ s.pc = "break_lock" /\ r.pc = "break_stat"
        \/ s.pc = "link_lock" /\ r.pc = "link_read"
    <3>1. s.pc \in {"break_lock", "link_lock"}
      BY <1>3 DEF LockTake
    <3> QED
      BY <2>1, <3>1 DEF AfterLock
  <2>3. th' = [th EXCEPT ![t] = r]
    BY <1>3 DEF LockTake, Step
  <2>4. Locking(s, r)
    BY <1>2, <2>1, <2>2 DEF Locking
  <2> QED
    BY <1>1, <2>3, <2>4, Reaches DEF Moved, Moves
<1>4. CASE LockSpin(t)
  <2> PICK r : r = [s EXCEPT !.errno = "EEXIST"]
    OBVIOUS
  <2>1. r.pc = s.pc /\ SameLocals(s, r)
    BY DEF ThreadState, SameLocals, SameCall
  <2>2. s.pc \in {"break_lock", "link_lock"} /\ th' = [th EXCEPT ![t] = r]
    BY <1>4 DEF LockSpin, Step
  <2>3. Locking(s, r)
    BY <1>2, <2>1, <2>2 DEF Locking
  <2> QED
    BY <1>1, <2>2, <2>3, Reaches DEF Moved, Moves
<1>5. CASE Unlock(t) /\ ~Die("aborted")
  <2> PICK q, r : /\ q = [s EXCEPT !.pc = "open_fd", !.from = None]
                  /\ r = IF s.op \in Opening /\ s.ret = "true" THEN q ELSE Idle
    OBVIOUS
  <2>1. q.pc = "open_fd" /\ SameLocals(s, q)
    BY DEF ThreadState, SameLocals, SameCall
  <2>2. s.pc = "unlock" /\ th' = [th EXCEPT ![t] = r]
    BY <1>5 DEF Unlock, AtPc, Host, AfterUnlock, Opening
  <2>3. Unlocking(s, r)
    BY <1>2, <2>1, <2>2 DEF Unlocking
  <2> QED
    BY <1>1, <2>2, <2>3, Reaches DEF Moved, Moves
<1> QED
  BY <1>3, <1>4, <1>5

LEMMA MovesBreak ==
  ASSUME ~IoErrors, AloneInv, Typed', NEW t \in Threads,
         BreakStat(t) \/ BreakCopy(t) \/ BreakCopyFails(t) \/ BreakRename(t) \/ BreakRenameFails(t)
  PROVE  Moved(t)
<1> PICK s \in ThreadState : s = th[t]
  BY DEF AloneInv, Inv, Typed, TypeOK
<1>1. Typed /\ LocalsOf(s) /\ StageOf(s, t)
  BY DEF AloneInv, Inv, Typed, LocalsOK, Stages, Stage
<1>2. s.pc \in {"break_stat", "break_copy", "break_rename"} /\ s.path \in Files
  BY <1>1 DEF BreakStat, BreakCopy, BreakCopyFails, BreakRename, BreakRenameFails, AtPc,
              LocalsOf, BreakPcs
<1> PICK f \in Files : f = s.path
  BY <1>2
<1> PICK m \in TmpNames : m = <<f, "mb", t>>
  BY DEF TmpNames
<1>3. m \in Names /\ f \in Names /\ f # m /\ BreakTmp(t) = m /\ Path(t) = f
  BY Distinct DEF BreakTmp, Path
<1>4. CASE BreakStat(t)
  <2>1. Elsewhere({}) /\ fh' = fh
    <3>1. \A n \in Names : Kept(n)
      BY <1>1, <1>4, HostSame DEF BreakStat
    <3> QED
      BY <1>4, <3>1, KeptElsewhere DEF BreakStat
  <2>2. s.pc = "break_stat" /\ s.from = dir[f]
    BY <1>1, <1>4 DEF StageOf, BreakStat, AtPc
  <2> PICK q, y, n : /\ q = [s EXCEPT !.pc = "break_copy"]
                     /\ y = Return(t, "true") /\ n = Return(t, "false")
    OBVIOUS
  <2>3. /\ q.pc = "break_copy" /\ SameLocals(s, q)
        /\ y.pc = "unlock" /\ y.ret = "true" /\ SameCall(s, y)
        /\ n.pc = "unlock" /\ SameCall(s, n)
    BY DEF ThreadState, SameLocals, SameCall, Return
  <2> PICK r : /\ th' = [th EXCEPT ![t] = r]
               /\ \/ r = q \/ r = y
                  \/ r = n /\ s.from = None
    BY <1>4 DEF BreakStat, Step
  <2>4. Looking(s, r)
    BY <2>1, <2>2, <2>3 DEF Looking, Exists, SameLocals
  <2> QED
    BY <1>1, <2>4, Reaches DEF Moved, Moves
<1>5. CASE BreakCopy(t)
  <2>1. s.pc = "break_copy" /\ s.from = dir[f] /\ s.from \in Inodes
    BY <1>1, <1>5 DEF StageOf, LocalsOf, BreakCopy, AtPc
  <2> PICK r : r = [s EXCEPT !.pc = "break_rename", !.from = None]
    OBVIOUS
  <2>2. r.pc = "break_rename" /\ SameLocals(s, r)
    BY DEF ThreadState, SameLocals, SameCall
  <2>3. PICK i \in Inodes, c \in [Inodes -> Contents] :
          /\ ~Live(i, dir, fh, th) /\ \A j \in Inodes \ {i} : c[j] = ino[j]
          /\ Host([dir EXCEPT ![m] = i], c, fh, [th EXCEPT ![t] = r])
    <3>1. PICK i \in Inodes : /\ ~Live(i, dir, fh, th)
                              /\ Host([dir EXCEPT ![m] = i], [ino EXCEPT ![i] = ino[s.from]],
                                      fh, [th EXCEPT ![t] = r])
      BY <1>3, <1>5 DEF BreakCopy, NextInode
    <3>2. ino \in [Inodes -> Contents]
      BY <1>1 DEF Typed, TypeOK
    <3>3. PICK c \in [Inodes -> Contents] : c = [ino EXCEPT ![i] = ino[s.from]]
      BY <2>1, <3>2
    <3>4. \A j \in Inodes \ {i} : c[j] = ino[j]
      BY <3>2, <3>3
    <3> QED
      BY <3>1, <3>3, <3>4
  <2>4. (\A n \in Names \ {m} : Kept(n)) /\ dir'[m] = i
    BY <1>1, <1>3, <2>3, HostNew
  <2>5. Elsewhere({m}) /\ Fresh(m)
    BY <2>3, <2>4, KeptElsewhere, Distinct DEF Fresh, Live
  <2>6. Exists(f) /\ th' = [th EXCEPT ![t] = r] /\ fh' = fh
    BY <2>1, <2>3, Distinct DEF Exists, Host
  <2>7. Copying(t, s, r)
    BY <2>1, <2>2, <2>5, <2>6 DEF Copying
  <2> QED
    BY <1>1, <2>6, <2>7, Reaches DEF Moved, Moves
<1>6. CASE BreakRename(t)
  <2>1. /\ s.pc = "break_rename" /\ Exists(f) /\ Exists(m) /\ Single(m)
        /\ Content(m) = Content(f)
    BY <1>1, <1>6 DEF StageOf, BreakRename, AtPc
  <2> PICK r : r = [s EXCEPT !.pc = "gc_read"]
    OBVIOUS
  <2>2. r.pc = "gc_read" /\ SameLocals(s, r)
    BY DEF ThreadState, SameLocals, SameCall
  <2>3. Host(RenameEntry(m, f), ino, fh, [th EXCEPT ![t] = r])
    BY <1>3, <1>6 DEF BreakRename
  <2>4. dir[m] # dir[f]
    BY <1>3, <2>1 DEF Single, Exists
  <2>5. /\ \A n \in Names \ {m, f} : Kept(n)
        /\ dir'[f] = dir[m] /\ Content(f)' = Content(f) /\ Content(m)' = None
    BY <1>1, <1>3, <2>1, <2>3, <2>4, HostRename
  <2>6. dir'[m] = None
    BY <1>1, <1>3, <2>5, ExistsContent DEF Exists
  <2>7. Elsewhere({m, f}) /\ th' = [th EXCEPT ![t] = r] /\ fh' = fh
    BY <2>3, <2>5, KeptElsewhere DEF Host
  <2>8. Replacing(t, s, r)
    BY <2>1, <2>2, <2>5, <2>6, <2>7 DEF Replacing
  <2> QED
    BY <1>1, <2>7, <2>8, Reaches DEF Moved, Moves
<1> QED
  BY <1>4, <1>5, <1>6 DEF BreakCopyFails, BreakRenameFails

LEMMA MovesOpen ==
  ASSUME ~IoErrors, AloneInv, Typed', NEW t \in Threads, OpenFd(t)
  PROVE  Moved(t)
<1> PICK s \in ThreadState : s = th[t]
  BY DEF AloneInv, Inv, Typed, TypeOK
<1>1. Typed /\ LocalsOf(s) /\ StageOf(s, t) /\ s.pc = "open_fd"
  BY DEF AloneInv, Inv, Typed, LocalsOK, Stages, Stage, OpenFd, AtPc
<1> PICK f \in Files : f = s.path
  BY <1>1 DEF LocalsOf
<1>2. f \in Names /\ Path(t) = f /\ th' = [th EXCEPT ![t] = Idle]
  BY Distinct DEF Path, OpenFd, Host
<1> DEFINE Got(i) == [fh EXCEPT ![s.handle] = [path |-> f, ino |-> i, access |-> "w"]]
<1>3. ASSUME NEW h, Host(dir, ino, h, [th EXCEPT ![t] = Idle]),
             \/ Exists(f) /\ dir[f] \in Inodes /\ h = Got(dir[f])
             \/ ~Exists(f) /\ s.op = "open" /\ h = fh
      PROVE  Moved(t)
  <2>1. \A n \in Names : Kept(n)
    BY <1>1, <1>3, HostSame
  <2>2. Elsewhere({}) /\ fh' = h
    BY <1>3, <2>1, KeptElsewhere DEF Host
  <2>3. Opens(s, Idle)
    BY <1>1, <1>3, <2>2 DEF Opens, GetsHandle
  <2> QED
    BY <1>1, <1>2, <2>3, Reaches DEF Moved, Moves
<1>4. ASSUME ~Exists(f), NEW i \in Inodes, NextInode(i),
             Host([dir EXCEPT ![f] = i], [ino EXCEPT ![i] = Empty], Got(i), [th EXCEPT ![t] = Idle])
      PROVE  Moved(t)
  <2>1. ino \in [Inodes -> Contents] /\ Empty \in Contents
    BY <1>1, ConstantsAssumption DEF Typed, TypeOK
  <2> PICK c \in [Inodes -> Contents] : c = [ino EXCEPT ![i] = Empty]
    BY <2>1
  <2>2. \A j \in Inodes \ {i} : c[j] = ino[j]
    BY <2>1
  <2> PICK h, q : Host([dir EXCEPT ![f] = i], c, h, q)
    BY <1>4
  <2>3. (\A n \in Names \ {f} : Kept(n)) /\ dir'[f] = i /\ ~Live(i, dir, fh, th)
    BY <1>1, <1>2, <1>4, <2>2, HostNew DEF NextInode
  <2>4. Elsewhere({f}) /\ Fresh(f)
    BY <2>3, KeptElsewhere, Distinct DEF Fresh, Live
  <2>5. fh' = Got(i)
    BY <1>4 DEF Host
  <2>6. Opens(s, Idle)
    BY <1>1, <1>4, <2>4, <2>5 DEF Opens, GetsHandle
  <2> QED
    BY <1>1, <1>2, <2>6, Reaches DEF Moved, Moves
<1>5. Exists(f) => dir[f] \in Inodes
  BY <1>1, <1>2 DEF Typed, TypeOK, Exists
<1> QED
  BY <1>2, <1>3, <1>4, <1>5 DEF OpenFd, NextInode

LEMMA MovesGc ==
  ASSUME AloneInv, Typed', NEW t \in Threads, Linked(t),
         \/ GetRepoItemPath(t) /\ ~Abort
         \/ GcLstat(t) \/ GcUnlink(t) \/ UnlinkFile(t)
  PROVE  Moved(t)
<1> PICK s \in ThreadState : s = th[t]
  BY DEF AloneInv, Inv, Typed, TypeOK
<1>1. Typed /\ LocalsOf(s) /\ StageOf(s, t)
  BY DEF AloneInv, Inv, Typed, LocalsOK, Stages, Stage
<1>2. s.pc \in {"gc_read", "unlink_read", "unlink_file", "gc_lstat", "gc_unlink"}
  BY DEF GetRepoItemPath, GcLstat, GcUnlink, UnlinkFile, AtPc
<1> PICK f \in Files : f = s.path
  BY <1>1, <1>2 DEF LocalsOf
<1>3. f \in Names /\ s.key \in Names /\ Path(t) = f
  BY Distinct DEF ThreadState, Path
<1>4. GcReturns(s, AfterGc(t))
  <2> PICK r : r = Return(t, "true")
    OBVIOUS
  <2>1. r.pc = "unlock" /\ r.ret = "true" /\ SameCall(s, r)
    BY DEF ThreadState, Return, SameCall
  <2> QED
    BY <2>1 DEF GcReturns, AfterGc
<1>5. CASE GetRepoItemPath(t) /\ ~Abort
  <2>1. \A n \in Names : Kept(n)
    BY <1>1, <1>5, HostSame DEF GetRepoItemPath
  <2> PICK p, c : c = ino[dir[f]] /\ p = IF s.pc = "gc_read" THEN "gc_lstat" ELSE "unlink_file"
    OBVIOUS
  <2> PICK r : r = [s EXCEPT !.key = c, !.pc = p]
    OBVIOUS
  <2>2. r.pc = p /\ SameCall(s, r) /\ r.key = c /\ r.ret = s.ret
    BY DEF ThreadState, SameCall
  <2>3. Exists(f) /\ th' = [th EXCEPT ![t] = r] /\ fh' = fh /\ s.pc \in {"gc_read", "unlink_read"}
    BY <1>3, <1>5 DEF GetRepoItemPath, Step
  <2>4. c = Content(f)
    BY <2>3 DEF Content
  <2>5. Reading(s, r)
    BY <2>1, <2>2, <2>3, <2>4, KeptElsewhere DEF Reading
  <2> QED
    BY <1>1, <2>3, <2>5, Reaches DEF Moved, Moves
<1>6. CASE GcLstat(t)
  <2>1. s.pc = "gc_lstat" /\ s.ret = "true" /\ fh' = fh
    BY <1>6 DEF GcLstat, AtPc, Linked, LinkedOf
  <2>2. \A n \in Names : Kept(n)
    BY <1>1, <1>6, HostSame DEF GcLstat
  <2> PICK q : q = [s EXCEPT !.pc = "gc_unlink"]
    OBVIOUS
  <2>3. q.pc = "gc_unlink" /\ SameLocals(s, q)
    BY DEF ThreadState, SameLocals, SameCall
  <2> PICK r : /\ th' = [th EXCEPT ![t] = r]
               /\ r = IF SoleLink(s.key) THEN q ELSE AfterGc(t)
    BY <1>6, <2>1 DEF GcLstat, Step
  <2>4. Checking(s, r)
    BY <1>4, <2>1, <2>2, <2>3, KeptElsewhere DEF Checking
  <2> QED
    BY <1>1, <2>4, Reaches DEF Moved, Moves
<1>7. CASE GcUnlink(t)
  <2>1. s.pc = "gc_unlink" /\ th' = [th EXCEPT ![t] = AfterGc(t)] /\ fh' = fh
    BY <1>7 DEF GcUnlink, AtPc, Host
  <2>2. (\A n \in Names \ {s.key} : Kept(n)) /\ Content(s.key)' = None
    BY <1>1, <1>3, <1>7, HostRemove DEF GcUnlink
  <2>3. dir'[s.key] = None
    BY <1>1, <1>3, <2>2, ExistsContent DEF Exists
  <2>4. Collecting(s, AfterGc(t))
    BY <1>4, <2>1, <2>2, <2>3, KeptElsewhere DEF Collecting
  <2> QED
    BY <1>1, <2>1, <2>4, Reaches DEF Moved, Moves
<1>8. CASE UnlinkFile(t)
  <2> PICK r : r = [s EXCEPT !.pc = "gc_lstat"]
    OBVIOUS
  <2>1. r.pc = "gc_lstat" /\ SameLocals(s, r)
    BY DEF ThreadState, SameLocals, SameCall
  <2>2. s.pc = "unlink_file" /\ th' = [th EXCEPT ![t] = r] /\ fh' = fh
    BY <1>8 DEF UnlinkFile, AtPc, Host
  <2>3. (\A n \in Names \ {f} : Kept(n)) /\ Content(f)' = None
    BY <1>1, <1>3, <1>8, HostRemove DEF UnlinkFile
  <2>4. dir'[f] = None
    BY <1>1, <1>3, <2>3, ExistsContent DEF Exists
  <2>5. Unlinking(s, r)
    BY <2>1, <2>2, <2>3, <2>4, KeptElsewhere DEF Unlinking
  <2> QED
    BY <1>1, <2>2, <2>5, Reaches DEF Moved, Moves
<1> QED
  BY <1>5, <1>6, <1>7, <1>8

LEMMA MovesLink ==
  ASSUME AloneInv, Typed', NEW t \in Threads, Linked(t),
         \/ LinkRead(t) /\ ~Abort
         \/ LinkLstat(t) \/ HardlinkSame(t) \/ HardlinkLink(t) \/ HardlinkRename(t)
  PROVE  Moved(t)
<1> PICK s \in ThreadState : s = th[t]
  BY DEF AloneInv, Inv, Typed, TypeOK
<1>1. Typed /\ LocalsOf(s) /\ StageOf(s, t) /\ LinkedOf(s, t)
  BY DEF AloneInv, Inv, Typed, LocalsOK, Stages, Stage, Linked
<1>2. s.pc \in LinkPcs
  BY DEF LinkRead, LinkLstat, HardlinkSame, HardlinkLink, HardlinkRename, AtPc, LinkPcs
<1> PICK f \in Files, k \in Contents : f = s.path /\ k = s.key
  BY <1>1, <1>2 DEF LocalsOf, LinkPcs, ThreadState
<1>3. f \in Names /\ k \in Names /\ f # k /\ Path(t) = f
  BY Distinct DEF Path
<1>4. ASSUME s.pc \in {"link_same", "link_link", "link_rename"}
      PROVE  /\ s.dest \in {f, k} /\ Exists(f)
             /\ LinkTmp(t) = <<s.dest, "of", t>> /\ LinkTmp(t) \in Names
             /\ LinkTmp(t) \notin {f, k}
             /\ LinkSource(t) = IF s.dest = f THEN k ELSE f
  <2>1. s.dest \in {f, k} /\ Exists(f)
    BY <1>1, <1>4 DEF LocalsOf, StageOf
  <2>2. LinkTmp(t) = <<s.dest, "of", t>> /\ LinkTmp(t) \in TmpNames
    BY <2>1 DEF LinkTmp, TmpNames
  <2> QED
    BY <1>3, <2>1, <2>2, Distinct DEF LinkSource
<1>5. CASE LinkRead(t) /\ ~Abort
  <2>1. \A n \in Names : Kept(n)
    BY <1>1, <1>5, HostSame DEF LinkRead
  <2> PICK c : c = ino[dir[f]]
    OBVIOUS
  <2> PICK r : r = [s EXCEPT !.key = c, !.pc = "link_lstat"]
    OBVIOUS
  <2>2. r.pc = "link_lstat" /\ SameCall(s, r) /\ r.key = c /\ r.ret = s.ret
    BY DEF ThreadState, SameCall
  <2>3. Exists(f) /\ th' = [th EXCEPT ![t] = r] /\ fh' = fh /\ s.pc = "link_read"
    BY <1>3, <1>5 DEF LinkRead, Step, AtPc
  <2>4. c = Content(f)
    BY <2>3 DEF Content
  <2>5. Reading(s, r)
    BY <2>1, <2>2, <2>3, <2>4, KeptElsewhere DEF Reading
  <2> QED
    BY <1>1, <2>3, <2>5, Reaches DEF Moved, Moves
<1>6. CASE LinkLstat(t)
  <2>1. \A n \in Names : Kept(n)
    BY <1>1, <1>6, HostSame DEF LinkLstat
  <2> PICK d : d = IF Exists(k) THEN f ELSE k
    OBVIOUS
  <2> PICK r : r = [s EXCEPT !.dest = d, !.pc = "link_same"]
    OBVIOUS
  <2>2. r.pc = "link_same" /\ SameCall(s, r) /\ r.key = s.key /\ r.ret = s.ret /\ r.dest = d
    BY DEF ThreadState, SameCall
  <2>3. th' = [th EXCEPT ![t] = r] /\ fh' = fh /\ s.pc = "link_lstat"
    BY <1>3, <1>6 DEF LinkLstat, Step, AtPc
  <2>4. Choosing(s, r)
    BY <2>1, <2>2, <2>3, KeptElsewhere DEF Choosing
  <2> QED
    BY <1>1, <2>3, <2>4, Reaches DEF Moved, Moves
<1>7. CASE HardlinkSame(t)
  <2>1. \A n \in Names : Kept(n)
    BY <1>1, <1>7, HostSame DEF HardlinkSame
  <2>2. s.pc = "link_same" /\ fh' = fh
    BY <1>7 DEF HardlinkSame, AtPc
  <2>3. dir[LinkSource(t)] # dir[s.dest]
    BY <1>1, <1>3, <1>4, <2>2 DEF LinkedOf, Single, Exists
  <2> PICK r : r = [s EXCEPT !.pc = "link_link"]
    OBVIOUS
  <2>4. r.pc = "link_link" /\ SameLocals(s, r)
    BY DEF ThreadState, SameLocals, SameCall
  <2>5. th' = [th EXCEPT ![t] = r]
    BY <1>7, <2>3 DEF HardlinkSame, Step
  <2>6. Comparing(s, r)
    BY <2>1, <2>2, <2>4, KeptElsewhere DEF Comparing
  <2> QED
    BY <1>1, <2>5, <2>6, Reaches DEF Moved, Moves
<1>8. CASE HardlinkLink(t)
  <2>1. s.pc = "link_link"
    BY <1>8 DEF HardlinkLink, AtPc
  <2> PICK m \in Names, src \in Names : m = LinkTmp(t) /\ src = LinkSource(t)
    BY <1>3, <1>4, <2>1
  <2>2. /\ m = <<s.dest, "of", t>> /\ src = (IF s.dest = f THEN k ELSE f) /\ m # src
    BY <1>4, <2>1
  <2>3. /\ \A n \in Names \ {m, src} : Kept(n)
        /\ dir'[src] = dir[src] /\ Content(src)' = Content(src) /\ dir'[m] = dir[src]
    BY <1>1, <1>8, <2>2, HostLink DEF HardlinkLink
  <2>4. Elsewhere({m}) /\ fh' = fh
    BY <1>8, <2>3 DEF Elsewhere, Kept, HardlinkLink, Host
  <2> PICK q, n : q = [s EXCEPT !.pc = "link_rename"] /\ n = Return(t, "false")
    OBVIOUS
  <2>5. q.pc = "link_rename" /\ SameLocals(s, q) /\ n.pc = "unlock" /\ SameCall(s, n)
    BY DEF ThreadState, SameLocals, SameCall, Return
  <2> PICK r : r = IF Exists(src) THEN q ELSE n
    OBVIOUS
  <2>6. th' = [th EXCEPT ![t] = r]
    BY <1>8 DEF HardlinkLink, Host
  <2>7. Linking(t, s, r)
    BY <2>1, <2>2, <2>3, <2>4, <2>5 DEF Linking, SameLocals
  <2> QED
    BY <1>1, <2>6, <2>7, Reaches DEF Moved, Moves
<1>9. CASE HardlinkRename(t)
  <2>1. s.pc = "link_rename"
    BY <1>9 DEF HardlinkRename, AtPc
  <2> PICK m \in Names, d \in {f, k} : m = LinkTmp(t) /\ d = s.dest
    BY <1>4, <2>1
  <2>2. /\ m = <<s.dest, "of", t>> /\ d \in Names \ {m} /\ Exists(m) /\ Exists(f) /\ m # f
        /\ Content(m) = k
    BY <1>1, <1>3, <1>4, <2>1 DEF StageOf
  <2>3. dir[m] # dir[d]
    <3>1. CASE d = f
      <4>1. Single(f)
        BY <1>1, <2>1, <3>1 DEF LinkedOf
      <4> QED
        BY <2>2, <3>1, <4>1 DEF Single, Exists
    <3>2. CASE d # f
      <4>1. dir[m] = dir[f] /\ OnlyLinks(f, m)
        BY <1>1, <2>1, <2>2, <3>2 DEF LinkedOf
      <4> QED
        BY <1>3, <2>2, <3>2, <4>1 DEF OnlyLinks, Exists
    <3> QED
      BY <3>1, <3>2
  <2>4. /\ \A n \in Names \ {m, d} : Kept(n)
        /\ dir'[d] = dir[m] /\ Content(d)' = k /\ Content(m)' = None
    BY <1>1, <1>9, <2>2, <2>3, HostRename DEF HardlinkRename
  <2>5. dir'[m] = None
    BY <1>1, <2>4, ExistsContent DEF Exists
  <2> PICK r : r = Return(t, "true")
    OBVIOUS
  <2>6. r.pc = "unlock" /\ SameCall(s, r)
    BY DEF ThreadState, Return, SameCall
  <2>7. th' = [th EXCEPT ![t] = r] /\ fh' = fh /\ Elsewhere({m, d})
    BY <1>9, <2>4, KeptElsewhere DEF HardlinkRename, Host
  <2>8. Installing(t, s, r)
    BY <2>1, <2>2, <2>4, <2>5, <2>6, <2>7 DEF Installing
  <2> QED
    BY <1>1, <2>7, <2>8, Reaches DEF Moved, Moves
<1> QED
  BY <1>5, <1>6, <1>7, <1>8, <1>9

LEMMA ProceedMoves ==
  ASSUME ~IoErrors, ~ShortCopies, AloneInv, Sound, Typed', NEW t \in Threads, Linked(t),
         Proceed(t)
  PROVE  Moved(t) /\ Frame(t) /\ UNCHANGED <<phase, todo>>
<1>1. ~Die("aborted") /\ UNCHANGED <<phase, todo>>
  BY NeverDies, ProceedThread DEF AloneInv, Inv
<1>2. Frame(t)
  BY <1>1, ProceedAlone
<1>3. /\ ~Abort /\ ~BreakCopyFails(t) /\ ~BreakCopyShort(t) /\ ~BreakRenameFails(t)
      /\ ~HardlinkFails(t) /\ ~TempFails(t) /\ ~HostFails(t)
  BY <1>1 DEF Abort, BreakCopyFails, BreakCopyShort, BreakRenameFails, HardlinkFails, TempFails,
              HostFails
<1> QED
  BY <1>1, <1>2, <1>3, MovesLock, MovesBreak, MovesOpen, MovesGc, MovesLink DEF Proceed

-----------------------------------------------------------------------------
(* A running handler keeps the directory tidy.                              *)

\* A name that gets another inode gets a new one, or that of a name of S.
Grows(S) ==
  \A n \in Names :
    dir'[n] \notin {None, dir[n]} =>
      (\A k \in Names : dir[k] # dir'[n]) \/ \E k \in S : dir[k] = dir'[n]

\* The names thread t works with.
Mine(t, s) == {s.path} \cup Contents \cup {n \in TmpNames : n[3] = t}

LEMMA OnlyLinksKept ==
  ASSUME NEW S \in SUBSET Names, Grows(S), NEW n \in Names \ S, NEW m \in Names \ S, OnlyLinks(n, m),
         dir'[n] = dir[n]
  PROVE  OnlyLinks(n, m)'
<1> SUFFICES ASSUME NEW k \in Names \ {n, m}, dir'[k] = dir[n], dir[n] # None PROVE FALSE
  BY DEF OnlyLinks
<1>1. dir[k] # dir[n]
  BY DEF OnlyLinks
<1>2. PICK j \in S : dir[j] = dir[n]
  BY <1>1 DEF Grows
<1> QED
  BY <1>2 DEF OnlyLinks, Grows

LEMMA MoveGrows ==
  ASSUME NEW t \in Threads, NEW s \in ThreadState, NEW r, LocalsOf(s), Moves(t, s, r)
  PROVE  Grows(Mine(t, s))
<1>1. CASE Locking(s, r) \/ Unlocking(s, r) \/ Looking(s, r) \/ Reading(s, r)
             \/ Checking(s, r) \/ Choosing(s, r) \/ Comparing(s, r)
  <2>1. Elsewhere({})
    BY <1>1 DEF Locking, Unlocking, Looking, Reading, Checking, Choosing, Comparing
  <2> QED
    BY <2>1 DEF Elsewhere, Grows
<1>2. CASE Copying(t, s, r)
  BY <1>2 DEF Copying, Elsewhere, Grows, Fresh
<1>3. CASE Opens(s, r)
  BY <1>3 DEF Opens, Elsewhere, Grows, Fresh
<1>4. CASE Collecting(s, r) \/ Unlinking(s, r)
  BY <1>4 DEF Collecting, Unlinking, Elsewhere, Grows
<1>5. CASE Replacing(t, s, r)
  <2>1. s.path \in Files
    BY <1>5 DEF Replacing, LocalsOf
  <2> PICK m : m = <<s.path, "mb", t>>
    OBVIOUS
  <2>2. m \in Mine(t, s)
    BY <2>1 DEF Mine, TmpNames
  <2> QED
    BY <1>5, <2>2 DEF Replacing, Elsewhere, Grows
<1>6. CASE Linking(t, s, r)
  <2>1. s.path \in Mine(t, s) /\ s.key \in Mine(t, s)
    BY DEF Mine, ThreadState
  <2> QED
    BY <1>6, <2>1 DEF Linking, Elsewhere, Grows
<1>7. CASE Installing(t, s, r)
  <2>1. s.dest \in Files \cup Contents
    BY <1>7 DEF Installing, LocalsOf, ThreadState
  <2> PICK m : m = <<s.dest, "of", t>>
    OBVIOUS
  <2>2. m \in Mine(t, s)
    BY <2>1 DEF Mine, TmpNames
  <2> QED
    BY <1>7, <2>2 DEF Installing, Elsewhere, Grows
<1> QED
  BY <1>1, <1>2, <1>3, <1>4, <1>5, <1>6, <1>7 DEF Moves

LEMMA MoveLinked ==
  ASSUME NEW t \in Threads, NEW s \in ThreadState, NEW r \in ThreadState,
         LocalsOf(s), StageOf(s, t), LinkedOf(s, t), Moves(t, s, r)
  PROVE  LinkedOf(r, t)'
<1>1. s.pc # "idle" /\ s.path \in Files /\ s.path \in Names /\ s.key \in Names /\ s.key # s.path
  <2>1. s.pc # "idle"
    BY DEF Moves, Locking, Unlocking, Looking, Copying, Replacing, Opens, Reading, Checking,
           Collecting, Unlinking, Choosing, Comparing, Linking, Installing
  <2> QED
    BY <2>1, Distinct DEF LocalsOf, ThreadState
<1>2. LinkedOf(Idle, t)'
  BY DEF LinkedOf, Idle
<1>3. Elsewhere({}) /\ Single(s.path) => \A f \in Names : f = s.path => Single(f)'
  BY DEF Elsewhere, Single
<1>4. CASE Locking(s, r) \/ Looking(s, r) \/ Reading(s, r) \/ Choosing(s, r) \/ Comparing(s, r)
  <2>1. Elsewhere({}) /\ r.path = s.path
    BY <1>4 DEF Locking, Looking, Reading, Choosing, Comparing, SameLocals, SameCall
  <2>2. /\ r.pc \in {"link_lock", "link_read", "link_lstat", "link_same", "link_link"} =>
             s.pc \in {"link_lock", "link_read", "link_lstat", "link_same"}
        /\ r.pc # "link_rename"
        /\ r.pc # "unlock" => r.ret = "true"
    BY <1>4 DEF Locking, Looking, Reading, Choosing, Comparing, SameLocals, LinkedOf
  <2>3. r.pc \in {"link_lock", "link_read", "link_lstat", "link_same", "link_link"} => Single(r.path)'
    BY <1>1, <1>3, <2>1, <2>2 DEF LinkedOf
  <2> QED
    BY <2>2, <2>3 DEF LinkedOf
<1>5. CASE Unlocking(s, r) \/ Checking(s, r) \/ Collecting(s, r) \/ Opens(s, r)
  <2>1. r = Idle \/ r.pc = "unlock" \/ (r.pc \in {"open_fd", "gc_unlink"} /\ r.ret = "true")
    BY <1>5 DEF Unlocking, Checking, Collecting, Opens, GcReturns, SameLocals, LinkedOf
  <2> QED
    BY <1>2, <2>1 DEF LinkedOf
<1>6. CASE Copying(t, s, r) \/ Replacing(t, s, r) \/ Unlinking(s, r) \/ Installing(t, s, r)
  <2>1. r.pc \in {"break_rename", "gc_read", "gc_lstat", "unlock"} /\ (r.pc # "unlock" => r.ret = "true")
    BY <1>6 DEF Copying, Replacing, Unlinking, Installing, SameLocals, LinkedOf
  <2> QED
    BY <2>1 DEF LinkedOf
<1>7. CASE Linking(t, s, r)
  <2>1. /\ s.pc = "link_link" /\ Single(s.path) /\ Exists(s.path) /\ s.dest \in {s.path, s.key}
        /\ s.ret = "true"
    BY <1>7 DEF Linking, LinkedOf, StageOf, LocalsOf
  <2> PICK f \in Files, d \in Files \cup Contents : f = s.path /\ d = s.dest
    BY <1>1, <2>1 DEF ThreadState
  <2> PICK m \in TmpNames : m = <<d, "of", t>>
    BY DEF TmpNames
  <2>2. m \in Names /\ f \in Names /\ m # f /\ m # s.key
    BY <1>1, Distinct DEF ThreadState
  <2>3. Elsewhere({m}) /\ dir'[m] = dir[IF d = f THEN s.key ELSE f]
    BY <1>7 DEF Linking
  <2>4. r.pc = "unlock" \/ (r.pc = "link_rename" /\ r.path = f /\ r.dest = d /\ r.ret = "true")
    BY <1>7, <2>1 DEF Linking, SameLocals, SameCall
  <2>5. d = f => Single(f)'
    BY <1>1, <2>1, <2>2, <2>3 DEF Elsewhere, Single, Exists
  <2>6. d # f => dir'[m] = dir'[f] /\ OnlyLinks(f, m)'
    BY <1>1, <2>1, <2>2, <2>3 DEF Elsewhere, Single, OnlyLinks, Exists
  <2> QED
    BY <2>4, <2>5, <2>6 DEF LinkedOf
<1> QED
  BY <1>4, <1>5, <1>6, <1>7 DEF Moves

LEMMA MoveTmp ==
  ASSUME NEW t \in Threads, NEW s \in ThreadState, NEW r \in ThreadState, LocalsOf(s),
         Moves(t, s, r), \A n \in TmpNames : n[3] = t /\ Exists(n) => OwnsTmp(s, t, n),
         NEW m \in TmpNames, m[3] = t, Exists(m)'
  PROVE  OwnsTmp(r, t, m)
<1>1. m \in Names /\ m \notin Files /\ m \notin Contents
  BY Distinct
<1>2. CASE Locking(s, r) \/ Unlocking(s, r) \/ Looking(s, r) \/ Reading(s, r)
             \/ Checking(s, r) \/ Choosing(s, r) \/ Comparing(s, r) \/ Opens(s, r)
             \/ Collecting(s, r) \/ Unlinking(s, r)
  <2>1. s.pc \notin {"idle", "break_rename", "link_rename"}
    BY <1>2 DEF Locking, Unlocking, Looking, Reading, Checking, Choosing, Comparing, Opens,
                Collecting, Unlinking
  <2>2. Elsewhere({}) \/ Elsewhere({s.path}) \/ Elsewhere({s.key})
    BY <1>2 DEF Locking, Unlocking, Looking, Reading, Checking, Choosing, Comparing, Opens,
                Collecting, Unlinking
  <2>3. s.path \in Files /\ s.key \in Contents
    BY <2>1 DEF LocalsOf, ThreadState
  <2>4. Exists(m)
    BY <1>1, <2>2, <2>3 DEF Elsewhere, Exists
  <2> QED
    BY <2>1, <2>4 DEF OwnsTmp
<1>3. CASE Copying(t, s, r)
  <2>1. /\ s.pc = "break_copy" /\ r.pc = "break_rename" /\ r.path = s.path
        /\ Elsewhere({<<s.path, "mb", t>>})
    BY <1>3 DEF Copying, SameLocals, SameCall
  <2>2. ~Exists(m)
    BY <2>1 DEF OwnsTmp
  <2>3. m = <<s.path, "mb", t>>
    BY <1>1, <2>1, <2>2 DEF Elsewhere, Exists
  <2> QED
    BY <2>1, <2>3 DEF OwnsTmp
<1>4. CASE Replacing(t, s, r)
  <2>1. /\ s.pc = "break_rename" /\ Elsewhere({<<s.path, "mb", t>>, s.path})
        /\ dir'[<<s.path, "mb", t>>] = None /\ s.path \in Files
    BY <1>4 DEF Replacing, LocalsOf
  <2>2. m # <<s.path, "mb", t>>
    BY <2>1 DEF Exists
  <2>3. Exists(m)
    BY <1>1, <2>1, <2>2 DEF Elsewhere, Exists
  <2> QED
    BY <2>1, <2>2, <2>3 DEF OwnsTmp
<1>5. CASE Linking(t, s, r)
  <2> PICK n, src : n = <<s.dest, "of", t>> /\ src = IF s.dest = s.path THEN s.key ELSE s.path
    OBVIOUS
  <2>1. /\ s.pc = "link_link" /\ Elsewhere({n}) /\ dir'[n] = dir[src]
        /\ Exists(src) => r.pc = "link_rename" /\ r.dest = s.dest
    BY <1>5 DEF Linking, SameLocals
  <2>2. ~Exists(m)
    BY <2>1 DEF OwnsTmp
  <2>3. m = n
    BY <1>1, <2>1, <2>2 DEF Elsewhere, Exists
  <2>4. Exists(src)
    BY <2>1, <2>3 DEF Exists
  <2> QED
    BY <2>1, <2>3, <2>4 DEF OwnsTmp
<1>6. CASE Installing(t, s, r)
  <2> PICK n : n = <<s.dest, "of", t>>
    OBVIOUS
  <2>1. /\ s.pc = "link_rename" /\ Elsewhere({n, s.dest}) /\ dir'[n] = None
        /\ s.dest \in Files \cup Contents
    BY <1>6 DEF Installing, LocalsOf, ThreadState
  <2>2. m # n
    BY <2>1 DEF Exists
  <2>3. Exists(m)
    BY <1>1, <2>1, <2>2 DEF Elsewhere, Exists
  <2> QED
    BY <2>1, <2>2, <2>3 DEF OwnsTmp
<1> QED
  BY <1>2, <1>3, <1>4, <1>5, <1>6 DEF Moves

\* A thread that takes no step, when the names of others change.
LEMMA LinkedKept ==
  ASSUME Typed, NEW u \in Threads, Linked(u), Stage(u), th'[u] = th[u],
         NEW S \in SUBSET Names, Grows(S),
         \A n \in TmpNames : n[3] = u => Kept(n) /\ n \notin S,
         th[u].pc # "idle" => th[u].path \notin S /\ Kept(th[u].path)
  PROVE  Linked(u)'
<1> PICK s \in ThreadState : s = th[u]
  BY DEF Typed, TypeOK
<1>1. LinkedOf(s, u) /\ LocalsOf(s)
  BY DEF Typed, LocalsOK, Linked
<1>2. CASE s.pc = "idle"
  BY <1>1, <1>2 DEF Linked, LinkedOf
<1>3. CASE s.pc # "idle"
  <2>1. s.path \in Files /\ s.path \in Names \ S /\ Kept(s.path)
    BY <1>1, <1>3, Distinct DEF LocalsOf
  <2>2. ASSUME s.pc = "link_rename", s.dest # s.path
        PROVE  (dir[<<s.dest, "of", u>>] = dir[s.path] /\ OnlyLinks(s.path, <<s.dest, "of", u>>))'
    <3> PICK m : m = <<s.dest, "of", u>>
      OBVIOUS
    <3>1. m \in TmpNames /\ m[3] = u
      BY <1>1, <2>2 DEF LocalsOf, TmpNames, ThreadState
    <3>2. m \in Names \ S /\ dir'[m] = dir[m] /\ dir'[s.path] = dir[s.path]
      BY <2>1, <3>1, Distinct DEF Kept
    <3>3. dir[m] = dir[s.path] /\ OnlyLinks(s.path, m)
      BY <1>1, <2>2 DEF LinkedOf
    <3>4. OnlyLinks(s.path, m)'
      BY <2>1, <3>2, <3>3, OnlyLinksKept
    <3> QED
      BY <3>2, <3>3, <3>4
  <2>3. Single(s.path) => Single(s.path)'
    BY <2>1 DEF Kept
  <2>4. LinkedOf(s, u)'
    BY <1>1, <2>2, <2>3 DEF LinkedOf
  <2> QED
    BY <2>4 DEF Linked
<1> QED
  BY <1>2, <1>3

LEMMA ProceedTidy ==
  ASSUME ~IoErrors, ~ShortCopies, AloneInv, Sound, Tidy, Typed', NEW t \in Threads, Proceed(t)
  PROVE  Tidy'
<1>1. /\ Typed /\ Serial /\ Stages /\ th[t].pc # "idle" /\ Moved(t) /\ Frame(t)
      /\ UNCHANGED <<phase, todo>>
  BY ProceedMoves, ProceedThread, NeverDies DEF AloneInv, Inv, Tidy
<1> PICK s \in ThreadState, r \in ThreadState :
      s = th[t] /\ th' = [th EXCEPT ![t] = r] /\ LocalsOf(s) /\ StageOf(s, t) /\ Moves(t, s, r)
  BY <1>1 DEF Moved
<1>2. th'[t] = r /\ \A u \in Threads \ {t} : th'[u] = th[u]
  BY <1>1, Reaches
<1>3. s.path \in Files
  BY <1>1 DEF LocalsOf
<1>4. Linked(t)'
  <2>1. LinkedOf(r, t)'
    BY MoveLinked DEF Tidy, Linked
  <2> QED
    BY <1>2, <2>1 DEF Linked
<1>5. ASSUME NEW u \in Threads \ {t} PROVE Linked(u)'
  <2>1. Mine(t, s) \in SUBSET Names /\ Grows(Mine(t, s))
    BY <1>3, Distinct, MoveGrows DEF Mine
  <2>2. \A n \in TmpNames : n[3] = u => Kept(n) /\ n \notin Mine(t, s)
    BY <1>1, <1>3, Distinct DEF Mine, Frame
  <2>3. th[u].pc # "idle" => th[u].path \in Files \ {s.path}
    BY <1>1 DEF Typed, LocalsOK, LocalsOf, Serial, PathsApart
  <2>4. th[u].pc # "idle" => th[u].path \notin Mine(t, s) /\ Kept(th[u].path)
    BY <1>1, <2>3, Distinct DEF Mine, Frame, Path
  <2> QED
    BY <1>1, <1>2, <2>1, <2>2, <2>4, LinkedKept DEF Tidy, Stages
<1>6. ASSUME NEW u \in Threads, NEW f \in todo'[u] PROVE Single(f)'
  <2>1. f \in todo[u] /\ f \in Files /\ f # s.path
    BY <1>1, <1>6 DEF Typed, TypeOK, Serial, JobsApart
  <2> QED
    BY <1>1, <2>1 DEF Tidy, Frame, Kept, Path
<1>7. TmpOwned'
  <2> SUFFICES ASSUME NEW m \in TmpNames, Exists(m)' PROVE OwnsTmp(th'[m[3]], m[3], m)
    BY DEF TmpOwned
  <2>1. m[3] \in Threads
    BY DEF TmpNames
  <2>2. CASE m[3] = t
    <3>1. \A n \in TmpNames : n[3] = t /\ Exists(n) => OwnsTmp(s, t, n)
      BY DEF Tidy, TmpOwned
    <3> QED
      BY <1>2, <2>2, <3>1, MoveTmp
  <2>3. CASE m[3] # t
    <3>1. Exists(m)
      BY <1>1, <2>3 DEF Frame, Kept, Exists
    <3> QED
      BY <1>2, <2>1, <2>3, <3>1 DEF Tidy, TmpOwned
  <2> QED
    BY <2>2, <2>3
<1> QED
  BY <1>1, <1>4, <1>5, <1>6, <1>7 DEF Tidy

-----------------------------------------------------------------------------
(* The calls of clients that cowfs passes on to the host, while no handler  *)
(* and no handle has the paths they change.                                 *)

FreePath(f) ==
  /\ \A h \in Handles : fh[h] # None => fh[h].path # f
  /\ \A t \in Threads : th[t].path # f

FileOpened ==
  \E f \in Files, h \in Handles :
    /\ fh[h] = None
    /\ \E i : fh' = [fh EXCEPT ![h] = [path |-> f, ino |-> i, access |-> "r"]]
    /\ Elsewhere({})

FileMade ==
  \E f \in Files, h \in Handles :
    /\ FreePath(f) /\ fh[h] = None
    /\ \E i : fh' = [fh EXCEPT ![h] = [path |-> f, ino |-> i, access |-> "r"]]
    /\ ~Exists(f) /\ Elsewhere({f}) /\ Fresh(f) /\ Content(f)' = Empty

FileWritten ==
  \E f \in Files, h \in Handles :
    /\ fh[h] # None /\ fh[h].access = "w" /\ fh[h].path = f /\ fh' = fh
    /\ Elsewhere({f}) /\ dir'[f] = dir[f]

FileLinked ==
  \E f, g \in Files :
    /\ FreePath(f) /\ FreePath(g) /\ fh' = fh
    /\ Exists(f) /\ ~Exists(g)
    /\ Elsewhere({g}) /\ dir'[g] = dir[f] /\ Content(g)' = Content(f)

FileRenamed ==
  \E f, g \in Files :
    /\ "rename" \in ClientOps /\ FreePath(f) /\ FreePath(g) /\ fh' = fh
    /\ f # g /\ Exists(f)
    /\ Elsewhere({f, g}) /\ dir'[g] = dir[f] /\ Content(g)' = Content(f) /\ dir'[f] = None

Passed ==
  /\ phase = "mounted" /\ UNCHANGED <<th, phase, todo>>
  /\ \/ FileOpened \/ FileMade \/ FileWritten \/ FileLinked \/ FileRenamed
     \/ Elsewhere({}) /\ fh' = fh

LEMMA PassMoves ==
  ASSUME Discipline, AloneInv, Typed',
         \/ \E f \in Files, h \in Handles : OpenRead(f, h) \/ CreateRead(f, h)
         \/ \E h \in Handles, c \in Contents : Write(h, c)
         \/ \E f, g \in Files : Rename(f, g) \/ Link(f, g)
  PROVE  Passed
<1>1. /\ Typed /\ Writers
      /\ ino \in [Inodes -> Contents] /\ dir \in [Names -> Inodes \cup {None}]
      /\ fh \in [Handles -> Handle \cup {None}]
  BY DEF AloneInv, Inv, Typed, TypeOK
<1>2. phase = "mounted" /\ UNCHANGED <<th, phase, todo>>
  BY DEF OpenRead, CreateRead, Write, Rename, Link, ExclusiveOk, Admit, Host
<1>3. ASSUME NEW f \in Files, NEW h \in Handles, OpenRead(f, h) PROVE Passed
  <2>1. \A n \in Names : Kept(n)
    BY <1>1, <1>3, HostSame DEF OpenRead
  <2>2. fh[h] = None /\ \E i : fh' = [fh EXCEPT ![h] = [path |-> f, ino |-> i, access |-> "r"]]
    BY <1>3 DEF OpenRead, FreeHandle, Host
  <2>3. FileOpened
    BY <2>1, <2>2, KeptElsewhere DEF FileOpened
  <2> QED
    BY <1>2, <2>3 DEF Passed
<1>4. ASSUME NEW h \in Handles, NEW c \in Contents, Write(h, c) PROVE Passed
  <2>1. fh[h] # None /\ fh[h].access = "w" /\ fh[h] \in Handle /\ fh' = fh /\ dir' = dir
    BY <1>1, <1>4 DEF Write, Host
  <2> PICK f \in Files, i \in Inodes : f = fh[h].path /\ i = fh[h].ino
    BY <2>1 DEF Handle
  <2>2. dir[f] = i /\ Single(f) /\ f \in Names
    BY <1>1, <2>1, Distinct DEF Writers, WriterAt
  <2>3. PICK x \in [Inodes -> Contents] : x = [ino EXCEPT ![i] = c]
    BY <1>1
  <2>4. x[i] = c /\ \A j \in Inodes \ {i} : x[j] = ino[j]
    BY <1>1, <2>3
  <2>5. Host(dir, x, fh, th)
    BY <1>4, <2>3 DEF Write
  <2>6. \A n \in Names : Content(n)' = IF dir[n] = None THEN None ELSE x[dir[n]]
    BY <1>1, <2>5, HostContent
  <2>7. ASSUME NEW n \in Names \ {f} PROVE Content(n)' = Content(n)
    <3>1. dir[n] # i
      BY <2>2, Distinct DEF Single
    <3> QED
      BY <1>1, <2>4, <2>6, <3>1 DEF Content, Exists
  <2>8. FileWritten
    BY <2>1, <2>7 DEF FileWritten, Elsewhere
  <2> QED
    BY <1>2, <2>8 DEF Passed
<1>5. ASSUME NEW f \in Files, NEW g \in Files, Link(f, g) PROVE Passed
  <2>1. Exists(f) /\ ~Exists(g) /\ Admit(f) /\ Admit(g) /\ fh' = fh
    BY <1>5 DEF Link, Host, ExclusiveOk
  <2>2. FreePath(f) /\ FreePath(g)
    BY <2>1, NotBusy DEF FreePath
  <2>3. g \in Names /\ f \in Names \ {g}
    BY <2>1, Distinct
  <2>4. /\ \A n \in Names \ {g, f} : Kept(n)
        /\ dir'[f] = dir[f] /\ Content(f)' = Content(f)
        /\ dir'[g] = dir[f] /\ Content(g)' = Content(f)
    BY <1>1, <1>5, <2>3, HostLink DEF Link
  <2>5. Elsewhere({g})
    BY <2>4 DEF Elsewhere, Kept
  <2>6. FileLinked
    BY <2>1, <2>2, <2>4, <2>5 DEF FileLinked
  <2> QED
    BY <1>2, <2>6 DEF Passed
<1>6. ASSUME NEW f \in Files, NEW g \in Files, Rename(f, g) PROVE Passed
  <2>1. /\ "rename" \in ClientOps /\ f # g /\ Exists(f) /\ Admit(f) /\ Admit(g) /\ fh' = fh
        /\ f \in Names /\ g \in Names \ {f}
    BY <1>6, Distinct DEF Rename, Host, ExclusiveOk
  <2>2. FreePath(f) /\ FreePath(g)
    BY <2>1, NotBusy DEF FreePath
  <2>3. CASE dir[f] = dir[g]
    <3>1. Host(dir, ino, fh, th)
      BY <1>6, <2>3 DEF Rename, RenameEntry
    <3>2. Elsewhere({})
      BY <1>1, <3>1, HostSame, KeptElsewhere
    <3> QED
      BY <1>2, <2>1, <3>2 DEF Passed
  <2>4. CASE dir[f] # dir[g]
    <3>1. /\ \A n \in Names \ {f, g} : Kept(n)
          /\ dir'[g] = dir[f] /\ Content(g)' = Content(f) /\ Content(f)' = None
      BY <1>1, <1>6, <2>1, <2>4, HostRename DEF Rename
    <3>2. dir'[f] = None
      BY <1>1, <2>1, <3>1, ExistsContent DEF Exists
    <3>3. FileRenamed
      BY <2>1, <2>2, <3>1, <3>2, KeptElsewhere DEF FileRenamed
    <3> QED
      BY <1>2, <3>3 DEF Passed
  <2> QED
    BY <2>3, <2>4
<1>7. ASSUME NEW f \in Files, NEW h \in Handles, CreateRead(f, h) PROVE Passed
  <2>1. Admit(f) /\ ~Exists(f) /\ FreeHandle(h) /\ f \in Names
    BY <1>7, Distinct DEF CreateRead, ExclusiveOk
  <2>2. FreePath(f) /\ fh[h] = None
    BY <2>1, NotBusy DEF FreePath, FreeHandle
  <2> PICK i \in Inodes :
        /\ ~Live(i, dir, fh, th)
        /\ Host([dir EXCEPT ![f] = i], [ino EXCEPT ![i] = Empty],
                [fh EXCEPT ![h] = [path |-> f, ino |-> i, access |-> "r"]], th)
    BY <1>7 DEF CreateRead, NextInode
  <2> PICK c \in [Inodes -> Contents] : c = [ino EXCEPT ![i] = Empty]
    BY <1>1, ConstantsAssumption
  <2>3. c[i] = Empty /\ \A j \in Inodes \ {i} : c[j] = ino[j]
    BY <1>1
  <2> PICK k : k = [fh EXCEPT ![h] = [path |-> f, ino |-> i, access |-> "r"]]
    OBVIOUS
  <2>4. Host([dir EXCEPT ![f] = i], c, k, th)
    OBVIOUS
  <2>5. (\A n \in Names \ {f} : Kept(n)) /\ dir'[f] = i /\ Content(f)' = Empty
    BY <1>1, <2>1, <2>3, <2>4, HostNew
  <2>6. Elsewhere({f}) /\ Fresh(f)
    BY <2>1, <2>5, KeptElsewhere, Distinct DEF Fresh, Live
  <2>7. fh' = [fh EXCEPT ![h] = [path |-> f, ino |-> i, access |-> "r"]]
    BY <2>4 DEF Host
  <2>8. FileMade
    BY <2>1, <2>2, <2>5, <2>6, <2>7 DEF FileMade
  <2> QED
    BY <1>2, <2>8 DEF Passed
<1> QED
  BY <1>3, <1>4, <1>5, <1>6, <1>7

\* Only the user files of M change.
PassKeeps(M) ==
  /\ \A n \in Names \ M : Kept(n)
  /\ Grows(M)
  /\ \A u \in Threads : th[u].pc # "idle" => th[u].path \notin M

LEMMA PassFiles ==
  ASSUME AloneInv, Passed
  PROVE  \E M \in SUBSET Files : PassKeeps(M)
<1>1. Serial
  BY DEF AloneInv
<1>2. ASSUME Elsewhere({}) PROVE PassKeeps({})
  BY <1>2 DEF Elsewhere, Kept, Single, Grows, PassKeeps
<1>3. CASE FileOpened \/ Elsewhere({})
  BY <1>2, <1>3 DEF FileOpened
<1>4. CASE FileWritten
  <2> PICK f \in Files, h \in Handles :
        /\ fh[h] # None /\ fh[h].path = f
        /\ Elsewhere({f}) /\ dir'[f] = dir[f]
    BY <1>4 DEF FileWritten
  <2>1. (\A n \in Names \ {f} : Kept(n)) /\ Grows({f})
    BY DEF Elsewhere, Kept, Single, Grows
  <2>2. \A u \in Threads : th[u].pc # "idle" => th[u].path \notin {f}
    BY <1>1 DEF Serial, PathsApart
  <2> QED
    BY <2>1, <2>2 DEF PassKeeps
<1>5. CASE FileLinked
  <2> PICK f \in Files, g \in Files :
        /\ FreePath(f) /\ FreePath(g) /\ Exists(f) /\ ~Exists(g)
        /\ Elsewhere({g}) /\ dir'[g] = dir[f]
    BY <1>5 DEF FileLinked
  <2>1. \A n \in Names \ {f, g} : Kept(n)
    BY Distinct DEF Elsewhere, Kept, Single, Exists
  <2>2. Grows({f, g})
    BY DEF Elsewhere, Grows
  <2> QED
    BY <2>1, <2>2 DEF FreePath, PassKeeps
<1>6. CASE FileRenamed
  <2> PICK f \in Files, g \in Files :
        /\ FreePath(f) /\ FreePath(g) /\ Exists(f) /\ f # g
        /\ Elsewhere({f, g}) /\ dir'[g] = dir[f] /\ dir'[f] = None
    BY <1>6 DEF FileRenamed
  <2>1. \A n \in Names \ {f, g} : Kept(n)
    BY Distinct DEF Elsewhere, Kept, Single, Exists
  <2>2. Grows({f, g})
    BY DEF Elsewhere, Grows
  <2> QED
    BY <2>1, <2>2 DEF FreePath, PassKeeps
<1>7. CASE FileMade
  <2> PICK f \in Files : FreePath(f) /\ Elsewhere({f}) /\ Fresh(f)
    BY <1>7 DEF FileMade
  <2>1. \A n \in Names \ {f} : Kept(n)
    BY Distinct DEF Elsewhere, Fresh, Kept, Single
  <2>2. Grows({f})
    BY DEF Elsewhere, Fresh, Grows
  <2> QED
    BY <2>1, <2>2 DEF FreePath, PassKeeps
<1> QED
  BY <1>3, <1>4, <1>5, <1>6, <1>7 DEF Passed

LEMMA PassTidy ==
  ASSUME AloneInv, Tidy, Passed
  PROVE  Tidy'
<1>1. Typed /\ Stages /\ todo = NoJobs
  BY DEF AloneInv, Inv, Passed, Serial, PhasesApart
<1> PICK M \in SUBSET Files : PassKeeps(M)
  BY PassFiles
<1>2. /\ \A n \in Names \ M : Kept(n)
      /\ Grows(M)
      /\ \A u \in Threads : th[u].pc # "idle" => th[u].path \notin M
  BY DEF PassKeeps
<1>3. UNCHANGED <<th, phase, todo>>
  BY DEF Passed
<1>4. \A n \in TmpNames : Kept(n) /\ n \notin M
  BY <1>2, Distinct
<1>5. ASSUME NEW u \in Threads PROVE Linked(u)'
  <2>1. th[u].pc # "idle" => th[u].path \in Names
    BY <1>1, Distinct DEF Typed, LocalsOK, LocalsOf
  <2>2. M \in SUBSET Names
    BY Distinct
  <2> QED
    BY <1>1, <1>2, <1>3, <1>4, <2>1, <2>2, LinkedKept DEF Tidy, Stages
<1>6. TmpOwned'
  BY <1>3, <1>4 DEF Tidy, TmpOwned, Kept, Exists
<1> QED
  BY <1>1, <1>3, <1>5, <1>6 DEF Tidy, NoJobs

-----------------------------------------------------------------------------
(* A thread begins: a request of a client, or the next file of a job.       *)

BeginsRequest(r) ==
  /\ FreePath(r.path) /\ fh' = fh /\ todo' = todo
  /\ \/ r.pc = "break_lock" /\ r.op = "open" /\ Exists(r.path)
     \/ r.pc = "break_lock" /\ r.op = "create" /\ ~Exists(r.path)
     \/ r.pc = "unlink_read" /\ r.op = "unlink"

BeginsRelease(r) ==
  /\ todo' = todo
  /\ \E h \in Handles :
       /\ fh[h] # None /\ fh' = [fh EXCEPT ![h] = None]
       /\ IF fh[h].access = "w"
          THEN r.pc = "link_lock" /\ r.op = "release" /\ r.path = fh[h].path /\ Single(r.path)
          ELSE r = Idle

BeginsTask(t, r) ==
  /\ r.pc = "link_lock" /\ r.op = "startup" /\ fh' = fh
  /\ r.path \in todo[t] /\ todo' = [todo EXCEPT ![t] = @ \ {r.path}]

Begun(t) ==
  /\ phase' = phase /\ th[t] = Idle /\ Elsewhere({})
  /\ \E r \in ThreadState :
       /\ th' = [th EXCEPT ![t] = r] /\ r.ret = "true"
       /\ r.path \in Files \/ r = Idle
       /\ BeginsRequest(r) \/ BeginsRelease(r) \/ BeginsTask(t, r)

LEMMA RequestBegins ==
  ASSUME Discipline, AloneInv, Typed', NEW t \in Threads, NEW f \in Files,
         Unlink(t, f) \/ \E h \in Handles : Open(t, f, h) \/ Create(t, f, h)
  PROVE  Begun(t)
<1>1. Typed /\ Admit(f) /\ th[t] = Idle /\ UNCHANGED <<host, fh, phase, todo>>
  BY DEF Unlink, Open, Create, StartBreak, ExclusiveOk, AloneInv, Inv
<1>2. FreePath(f)
  BY <1>1, NotBusy DEF FreePath
<1>3. Elsewhere({})
  BY <1>1, HostSame, KeptElsewhere
<1>4. \E r : /\ th' = [th EXCEPT ![t] = r] /\ r.ret = "true" /\ r.path = f
             /\ \/ r.pc = "break_lock" /\ r.op = "open" /\ Exists(f)
                \/ r.pc = "break_lock" /\ r.op = "create" /\ ~Exists(f)
                \/ r.pc = "unlink_read" /\ r.op = "unlink"
  <2>1. CASE Unlink(t, f)
    <3> PICK r : r = [Idle EXCEPT !.pc = "unlink_read", !.op = "unlink", !.path = f]
      OBVIOUS
    <3>1. r.pc = "unlink_read" /\ r.op = "unlink" /\ r.path = f /\ r.ret = "true"
      BY DEF Idle
    <3> QED
      BY <2>1, <3>1 DEF Unlink, Step
  <2>2. ASSUME NEW h \in Handles, NEW o \in Opening, StartBreak(t, o, f, h)
        PROVE  \E r : /\ th' = [th EXCEPT ![t] = r] /\ r.ret = "true" /\ r.path = f
                     /\ r.pc = "break_lock" /\ r.op = o
    <3> PICK i : th' = [th EXCEPT ![t] = BreakStart(o, f, h, i)]
      BY <2>2, StartBreakStarts
    <3> PICK r : r = BreakStart(o, f, h, i)
      OBVIOUS
    <3>1. r.pc = "break_lock" /\ r.op = o /\ r.path = f
      BY BreakStartFields
    <3>2. r.ret = "true"
      BY DEF BreakStart, Idle
    <3> QED
      BY <3>1, <3>2
  <2>3. ASSUME NEW h \in Handles, Open(t, f, h) PROVE StartBreak(t, "open", f, h) /\ Exists(f)
    BY <2>3 DEF Open, Discipline
  <2>4. ASSUME NEW h \in Handles, Create(t, f, h) PROVE StartBreak(t, "create", f, h) /\ ~Exists(f)
    BY <2>4 DEF Create
  <2> QED
    BY <2>1, <2>2, <2>3, <2>4 DEF Opening
<1> PICK r : /\ th' = [th EXCEPT ![t] = r] /\ r.ret = "true" /\ r.path = f
             /\ \/ r.pc = "break_lock" /\ r.op = "open" /\ Exists(f)
                \/ r.pc = "break_lock" /\ r.op = "create" /\ ~Exists(f)
                \/ r.pc = "unlink_read" /\ r.op = "unlink"
  BY <1>4
<1>5. r \in ThreadState
  BY <1>1, Reaches
<1>6. BeginsRequest(r)
  BY <1>1, <1>2 DEF BeginsRequest
<1> QED
  BY <1>1, <1>3, <1>5, <1>6 DEF Begun

LEMMA ReleaseBegins ==
  ASSUME AloneInv, Typed', NEW t \in Threads, NEW h \in Handles, Release(t, h)
  PROVE  Begun(t)
<1>1. /\ Typed /\ Writers /\ fh[h] \in Handle /\ fh[h] # None /\ th[t] = Idle
      /\ UNCHANGED <<phase, todo>> /\ fh' = [fh EXCEPT ![h] = None]
  BY DEF Release, Host, AloneInv, Inv, Typed, TypeOK
<1>2. Elsewhere({})
  BY <1>1, HostSame, KeptElsewhere DEF Release
<1> PICK f \in Files : f = fh[h].path
  BY <1>1 DEF Handle
<1> PICK r : r = IF fh[h].access = "w"
                 THEN [Idle EXCEPT !.pc = "link_lock", !.op = "release", !.path = f]
                 ELSE Idle
  OBVIOUS
<1>3. /\ fh[h].access # "w" => r = Idle
      /\ fh[h].access = "w" => r.pc = "link_lock" /\ r.op = "release" /\ r.path = f
      /\ r.ret = "true"
  BY DEF Idle
<1>4. fh[h].access = "w" => Single(f)
  BY <1>1 DEF Writers, WriterAt
<1>5. th' = [th EXCEPT ![t] = r]
  BY DEF Release, Host
<1>6. r \in ThreadState
  BY <1>1, <1>5, Reaches
<1>7. BeginsRelease(r)
  BY <1>1, <1>3, <1>4 DEF BeginsRelease
<1> QED
  BY <1>1, <1>2, <1>3, <1>5, <1>6, <1>7 DEF Begun

LEMMA TaskBegins ==
  ASSUME AloneInv, Typed', NEW t \in Threads, NEW f \in Files, NextTask(t, f)
  PROVE  Begun(t)
<1>1. /\ Typed /\ f \in todo[t] /\ th[t] = Idle /\ UNCHANGED <<phase, fh, host>>
      /\ todo' = [todo EXCEPT ![t] = @ \ {f}]
  BY DEF NextTask, AloneInv, Inv
<1>2. Elsewhere({})
  BY <1>1, HostSame, KeptElsewhere
<1> PICK r : r = [Idle EXCEPT !.pc = "link_lock", !.op = "startup", !.path = f]
  OBVIOUS
<1>3. r.pc = "link_lock" /\ r.op = "startup" /\ r.path = f /\ r.ret = "true"
  BY DEF Idle
<1>4. th' = [th EXCEPT ![t] = r]
  BY DEF NextTask, Step
<1>5. r \in ThreadState
  BY <1>1, <1>4, Reaches
<1>6. BeginsTask(t, r)
  BY <1>1, <1>3 DEF BeginsTask
<1> QED
  BY <1>1, <1>2, <1>3, <1>4, <1>5, <1>6 DEF Begun

LEMMA BegunTidy ==
  ASSUME AloneInv, Tidy, Typed', NEW t \in Threads, Begun(t)
  PROVE  Tidy'
<1> PICK r \in ThreadState :
      /\ th' = [th EXCEPT ![t] = r] /\ r.ret = "true"
      /\ BeginsRequest(r) \/ BeginsRelease(r) \/ BeginsTask(t, r)
  BY DEF Begun
<1>1. Typed /\ Stages /\ phase' = phase /\ th[t] = Idle /\ Elsewhere({})
  BY DEF Begun, AloneInv, Inv
<1>2. (\A n \in Names : Kept(n)) /\ Grows({})
  BY <1>1 DEF Elsewhere, Kept, Single, Grows
<1>3. th'[t] = r /\ \A u \in Threads \ {t} : th'[u] = th[u]
  BY <1>1, Reaches
<1>4. \A u \in Threads : todo'[u] \in SUBSET todo[u]
  BY <1>1 DEF BeginsRequest, BeginsRelease, BeginsTask, Typed, TypeOK
<1>5. Linked(t)'
  <2>1. r.pc = "link_lock" => r.path \in Files /\ Single(r.path)
    <3>1. CASE BeginsRequest(r)
      BY <3>1 DEF BeginsRequest
    <3>2. CASE BeginsRelease(r)
      <4> PICK h \in Handles : /\ fh[h] # None
                               /\ IF fh[h].access = "w" THEN r.path = fh[h].path /\ Single(r.path)
                                                        ELSE r = Idle
        BY <3>2 DEF BeginsRelease
      <4>1. fh[h].path \in Files
        BY <1>1 DEF Typed, TypeOK, Handle
      <4> QED
        BY <4>1 DEF Idle
    <3>3. CASE BeginsTask(t, r)
      BY <1>1, <3>3 DEF BeginsTask, Tidy, Typed, TypeOK
    <3> QED
      BY <3>1, <3>2, <3>3
  <2>2. r.pc \in {"idle", "break_lock", "unlink_read", "link_lock"}
    BY DEF BeginsRequest, BeginsRelease, BeginsTask, Idle
  <2>3. r.pc = "link_lock" => Single(r.path)'
    BY <1>2, <2>1, Distinct DEF Kept
  <2>4. LinkedOf(r, t)'
    BY <2>2, <2>3 DEF LinkedOf
  <2> QED
    BY <1>3, <2>4 DEF Linked
<1>6. ASSUME NEW u \in Threads \ {t} PROVE Linked(u)'
  <2>1. th[u].pc # "idle" => th[u].path \in Names
    BY <1>1, Distinct DEF Typed, LocalsOK, LocalsOf
  <2> QED
    BY <1>1, <1>2, <1>3, <2>1, LinkedKept, Distinct DEF Tidy, Stages
<1>7. ASSUME NEW u \in Threads, NEW f \in todo'[u] PROVE Single(f)'
  BY <1>1, <1>2, <1>4, Distinct DEF Tidy, Kept, Typed, TypeOK
<1>8. TmpOwned'
  <2> SUFFICES ASSUME NEW m \in TmpNames, Exists(m)' PROVE OwnsTmp(th'[m[3]], m[3], m)
    BY DEF TmpOwned
  <2>1. m[3] \in Threads /\ OwnsTmp(th[m[3]], m[3], m)
    BY <1>2, Distinct DEF TmpNames, Kept, Exists, Tidy, TmpOwned
  <2> QED
    BY <1>1, <1>3, <2>1 DEF OwnsTmp, Idle
<1> QED
  BY <1>1, <1>5, <1>6, <1>7, <1>8 DEF Tidy

-----------------------------------------------------------------------------
(* main().                                                                  *)

\* GcTree has removed the names of the repository that were sole links.
Swept ==
  \A n \in Names :
    /\ dir'[n] = IF InRepo(n) /\ SoleLink(n) THEN None ELSE dir[n]
    /\ Content(n)' = IF dir'[n] = None THEN None ELSE Content(n)

LEMMA GcTreeSweeps ==
  ASSUME AloneInv, GcTree
  PROVE  Swept
<1>1. /\ dir \in [Names -> Inodes \cup {None}] /\ ino \in [Inodes -> Contents]
  BY DEF AloneInv, Inv, Typed, TypeOK
<1> PICK d \in [Names -> Inodes \cup {None}] :
      d = [n \in Names |-> IF InRepo(n) /\ SoleLink(n) THEN None ELSE dir[n]]
  BY <1>1
<1>2. Host(d, ino, fh, th)
  BY DEF GcTree
<1>3. \A n \in Names : dir'[n] = d[n] /\ Content(n)' = IF d[n] = None THEN None ELSE ino[d[n]]
  BY <1>1, <1>2, HostContent
<1>4. \A n \in Names : d[n] = IF InRepo(n) /\ SoleLink(n) THEN None ELSE dir[n]
  OBVIOUS
<1> QED
  BY <1>3, <1>4 DEF Swept, Content, Exists

LEMMA MainStops ==
  ASSUME AloneInv, GcTree \/ HardlinkTree \/ FuseMain
  PROVE  th' = th /\ fh' = fh /\ \A u \in Threads : th[u].pc = "idle"
BY DEF GcTree, HardlinkTree, FuseMain, Host, AloneInv, Inv, Stopped, StoppedPhases, AllIdle, Idle

LEMMA IdleTidy ==
  ASSUME AloneInv, Tidy, NEW u \in Threads, th[u].pc = "idle", NEW m \in TmpNames, m[3] = u
  PROVE  ~Exists(m)
BY DEF Tidy, TmpOwned, OwnsTmp

LEMMA MainTidy ==
  ASSUME AloneInv, Tidy, GcTree \/ HardlinkTree \/ FuseMain
  PROVE  Tidy'
<1>1. /\ Typed /\ Serial /\ th' = th /\ \A u \in Threads : th[u].pc = "idle"
  BY MainStops DEF AloneInv, Inv
<1>2. \A m \in TmpNames : ~Exists(m)
  BY <1>1, IdleTidy DEF TmpNames
<1>3. \A u \in Threads : Linked(u)'
  BY <1>1 DEF Tidy, Linked, LinkedOf
<1>4. TmpOwned'
  <2>1. CASE GcTree
    <3>1. \A m \in TmpNames : dir'[m] = None
      BY <1>2, <2>1, GcTreeSweeps, Distinct DEF Swept, Exists
    <3> QED
      BY <3>1 DEF TmpOwned, Exists
  <2>2. CASE HardlinkTree \/ FuseMain
    <3>1. dir' = dir
      BY <2>2 DEF HardlinkTree, FuseMain, host
    <3> QED
      BY <1>2, <3>1 DEF TmpOwned, Exists
  <2> QED
    BY <2>1, <2>2
<1>5. ASSUME NEW u \in Threads, NEW f \in todo'[u] PROVE Single(f)'
  <2>1. CASE HardlinkTree
    <3>1. SoleLink(f) /\ dir' = dir
      BY <1>5, <2>1 DEF HardlinkTree, host
    <3> QED
      BY <3>1 DEF SoleLink, Single
  <2>2. CASE GcTree \/ FuseMain
    <3>1. todo' = NoJobs
      BY <1>1, <2>2 DEF GcTree, FuseMain, Serial, PhasesApart
    <3> QED
      BY <1>5, <3>1 DEF NoJobs
  <2> QED
    BY <2>1, <2>2
<1>6. phase' # "killed"
  BY DEF GcTree, HardlinkTree, FuseMain
<1> QED
  BY <1>3, <1>4, <1>5, <1>6 DEF Tidy

-----------------------------------------------------------------------------
(* Every step of a daemon that was not killed is one of these.              *)

LEMMA UncutSteps ==
  ASSUME Discipline, AloneInv, Sound, Tidy, Typed', [Next]_vars, kills = 0, kills' = 0
  PROVE  \/ \E t \in Threads : Proceed(t)
         \/ Passed
         \/ \E t \in Threads : Begun(t)
         \/ GcTree \/ HardlinkTree \/ FuseMain
         \/ UNCHANGED vars
<1>1. ~Kill /\ ~Restart
  BY DEF Kill, Restart, Tidy, Sound, NoAbort
<1>2. ~\E f \in Files : Truncate(f)
  BY DEF Truncate, Discipline
<1> QED
  BY <1>1, <1>2, PassMoves, RequestBegins, ReleaseBegins, TaskBegins DEF Next, Startup, Client

LEMMA NextTidy ==
  ASSUME Discipline, ~IoErrors, AloneInv, Sound, Tidy, Typed', [Next]_vars, kills = 0, kills' = 0
  PROVE  Tidy'
<1>1. CASE UNCHANGED vars
  BY <1>1 DEF vars, Tidy, Linked, LinkedOf, Single, OnlyLinks, TmpOwned, Exists
<1> QED
  BY <1>1, UncutSteps, ProceedTidy, PassTidy, BegunTidy, MainTidy DEF Discipline

TidyInv == kills = 0 => Tidy

LEMMA KillsGrow ==
  ASSUME Typed, [Next]_vars
  PROVE  kills' = 0 => kills = 0
<1>1. kills \in Nat
  BY ConstantsAssumption DEF Typed, TypeOK
<1>2. CASE Kill
  BY <1>1, <1>2 DEF Kill
<1>3. CASE Startup \/ Restart \/ UNCHANGED vars
  BY <1>3 DEF Startup, GcTree, HardlinkTree, FuseMain, NextTask, Restart, vars
<1>4. CASE Client
  BY <1>4 DEF Client, Open, Create, StartBreak, Release, Unlink, OpenRead, CreateRead, Write,
              Truncate, Rename, Link
<1>5. CASE \E t \in Threads : Proceed(t)
  BY <1>5 DEF Proceed, LockTake, LockSpin, Unlock, BreakStat, BreakCopy, BreakCopyFails,
              BreakRename, BreakRenameFails, OpenFd, GetRepoItemPath, GcLstat, GcUnlink,
              UnlinkFile, LinkRead, LinkLstat, HardlinkSame, HardlinkLink, HardlinkRename,
              HardlinkFails, TempFails, HostFails, BreakCopyShort, Abort
<1> QED
  BY <1>2, <1>3, <1>4, <1>5 DEF Next

LEMMA InitTidy == Init => Sound /\ Tidy
<1> SUFFICES ASSUME Init PROVE Sound /\ Tidy
  OBVIOUS
<1>1. \A t \in Threads : th[t] = Idle /\ todo[t] = {}
  BY DEF Init, AllIdle, NoJobs
<1>2. phase = "gc" /\ \A m \in TmpNames : ~Exists(m)
  BY Distinct DEF Init, Exists
<1>3. \A t \in Threads : SoundAt(th[t]) /\ Linked(t)
  BY <1>1 DEF SoundAt, Linked, LinkedOf, Idle
<1> QED
  BY <1>1, <1>2, <1>3 DEF Sound, NoAbort, Tidy, TmpOwned

\* What the three theorems share.
LEMMA AlwaysTidy ==
  Discipline /\ ~IoErrors /\ Spec => [](Inv /\ Alone /\ Sound /\ TidyInv)
<1>1. Init => Inv /\ Alone /\ Sound /\ TidyInv
  BY InitAlone, InitTidy DEF AloneInv, Alone, TidyInv
<1>2. Discipline /\ ~IoErrors /\ Inv /\ Alone /\ Sound /\ TidyInv /\ [Next]_vars
        => (Inv /\ Alone /\ Sound /\ TidyInv)'
  <2> SUFFICES ASSUME Discipline, ~IoErrors, Inv, Alone, Sound, TidyInv, [Next]_vars
               PROVE  (Inv /\ Alone /\ Sound /\ TidyInv)'
    OBVIOUS
  <2>1. AloneInv
    BY DEF AloneInv, Alone
  <2>2. Inv' /\ Alone' /\ Typed /\ Typed'
    BY <2>1, NextInv, NextAlone DEF Inv
  <2>3. Sound'
    BY <2>1, <2>2, NextSound
  <2>4. TidyInv'
    BY <2>1, <2>2, KillsGrow, NextTidy DEF TidyInv
  <2> QED
    BY <2>2, <2>3, <2>4
<1>3. CASE Discipline /\ ~IoErrors
  <2>1. Inv /\ Alone /\ Sound /\ TidyInv /\ [Next]_vars => (Inv /\ Alone /\ Sound /\ TidyInv)'
    BY <1>2, <1>3
  <2> QED
    BY <1>1, <2>1, PTL DEF Spec
<1>4. CASE ~(Discipline /\ ~IoErrors)
  BY <1>4
<1> QED
  BY <1>3, <1>4

\* cowfs_test.sh:69 "Make sure temp files don't remain": between the handlers
\* no temporary name is left of a copy or of a link, whatever ran at the same
\* time; a temporary name belongs to a thread that is about to rename it.
\* (A failed or short copy does leave its temporary name behind.)
THEOREM NoTempStays == Discipline /\ ~IoErrors /\ Spec => [](kills = 0 => NoTempLeft)
<1>1. Inv /\ Alone /\ Sound /\ TidyInv => (kills = 0 => NoTempLeft)
  <2> SUFFICES ASSUME Inv, Alone, TidyInv, kills = 0, Quiet, NEW n \in TmpNames
               PROVE  ~Exists(n)
    BY DEF NoTempLeft
  <2>1. n[3] \in Threads /\ th[n[3]].pc = "idle"
    BY DEF TmpNames, Quiet, AllIdle, Idle
  <2> QED
    BY <2>1, IdleTidy DEF TidyInv, AloneInv, Alone
<1> QED
  BY <1>1, AlwaysTidy, PTL

-----------------------------------------------------------------------------
(* The garbage of the repository.                                           *)

\* Thread t in state s will look at item c, and remove it if it is garbage;
\* or it is about to make its file a link of it.
OwesTo(s, t, c) ==
  \/ s.pc = "gc_read" /\ Content(s.path) = c
  \/ s.pc \in {"gc_lstat", "gc_unlink"} /\ s.key = c
  \/ s.pc = "link_rename" /\ s.dest = s.path /\ dir[<<s.dest, "of", t>>] = dir[c]

Owes(t, c) == OwesTo(th[t], t, c)

Used(c) == \E f \in Files : dir[f] = dir[c]

\* The item Unlink will look at is that of its file.
KnowsItem(t) == th[t].pc = "unlink_file" => th[t].key = Content(th[t].path)

Debts ==
  /\ \A c \in Contents : Exists(c) => Used(c) \/ \E t \in Threads : Owes(t, c)
  /\ \A t \in Threads : KnowsItem(t)

\* A thread that takes no step, when its file and its temporary names stay.
LEMMA OwesKept ==
  ASSUME Typed, NEW u \in Threads, th'[u] = th[u],
         \A n \in TmpNames : n[3] = u => dir'[n] = dir[n],
         th[u].pc # "idle" => \A f \in Files : f = th[u].path => Content(f)' = Content(f)
  PROVE  /\ KnowsItem(u) => KnowsItem(u)'
         /\ \A c \in Contents : Owes(u, c) /\ dir'[c] = dir[c] => Owes(u, c)'
<1> PICK s \in ThreadState : s = th[u]
  BY DEF Typed, TypeOK
<1>1. LocalsOf(s)
  BY DEF Typed, LocalsOK
<1>2. s.pc # "idle" => s.path \in Files /\ Content(s.path)' = Content(s.path)
  BY <1>1 DEF LocalsOf
<1>3. KnowsItem(u) => KnowsItem(u)'
  BY <1>2 DEF KnowsItem
<1>4. ASSUME NEW c \in Contents, Owes(u, c), dir'[c] = dir[c] PROVE OwesTo(s, u, c)'
  <2>1. s.pc = "link_rename" => dir'[<<s.dest, "of", u>>] = dir[<<s.dest, "of", u>>]
    BY <1>1 DEF LocalsOf, ThreadState, TmpNames
  <2> QED
    BY <1>2, <1>4, <2>1 DEF Owes, OwesTo
<1> QED
  BY <1>3, <1>4 DEF Owes

\* An item that is no sole link is a link to a user file, or will be.
LEMMA SharedItem ==
  ASSUME Typed, Stages, Items, Tidy, NEW c \in Contents, Exists(c), ~SoleLink(c)
  PROVE  Used(c) \/ \E t \in Threads : th[t].pc = "link_rename" /\ Owes(t, c)
<1>1. PICK m \in Names : m # c /\ dir[m] = dir[c]
  BY DEF SoleLink
<1>2. CASE m \in Files
  BY <1>1, <1>2 DEF Used
<1>3. CASE m \in Contents
  <2>1. Content(m) = Content(c) /\ Content(c) # None /\ Content(m) # None
    BY <1>1, ContentOrNone, Distinct DEF Content, Exists
  <2> QED
    BY <1>1, <1>3, <2>1 DEF Items
<1>4. CASE m \in TmpNames
  <2> PICK t \in Threads, s \in ThreadState : t = m[3] /\ s = th[t]
    BY <1>4 DEF TmpNames, Typed, TypeOK
  <2>1. OwnsTmp(s, t, m) /\ LocalsOf(s) /\ StageOf(s, t) /\ LinkedOf(s, t)
    BY <1>1, <1>4 DEF Tidy, TmpOwned, Exists, Typed, LocalsOK, Stages, Stage, Linked
  <2>2. c \in Names /\ m \in Names
    BY Distinct
  <2>3. s.pc = "link_rename" /\ m = <<s.dest, "of", t>>
    BY <1>1, <2>1, <2>2 DEF OwnsTmp, StageOf, Single, Exists
  <2>4. CASE s.dest = s.path
    BY <1>1, <2>3, <2>4 DEF Owes, OwesTo
  <2>5. CASE s.dest # s.path
    BY <1>1, <2>1, <2>3, <2>5 DEF LinkedOf, LocalsOf, Used
  <2> QED
    BY <2>4, <2>5
<1> QED
  BY <1>1, <1>2, <1>3, <1>4 DEF Names

\* The step of a thread pays its debt, or keeps it.
LEMMA MovePays ==
  ASSUME Typed, Stages, Items, Tidy,
         NEW t \in Threads, NEW s \in ThreadState, NEW r \in ThreadState,
         s = th[t], th'[t] = r, LocalsOf(s), StageOf(s, t), Moves(t, s, r), LinkedOf(s, t),
         NEW c \in Contents, Exists(c), dir'[c] = dir[c], Owes(t, c)
  PROVE  \/ Owes(t, c)' \/ Used(c)'
         \/ \E u \in Threads : th[u].pc = "link_rename" /\ Owes(u, c) /\ s.pc = "gc_lstat" /\ Elsewhere({})
<1>1. OwesTo(s, t, c) /\ c \in Names
  BY Distinct DEF Owes
<1>2. CASE s.pc = "gc_read"
  <2>1. Reading(s, r)
    BY <1>2 DEF Moves, Locking, Unlocking, Looking, Copying, Replacing, Opens, Checking,
                Collecting, Unlinking, Choosing, Comparing, Linking, Installing
  <2>2. r.pc = "gc_lstat" /\ r.key = c
    BY <1>1, <1>2, <2>1 DEF Reading, OwesTo
  <2>3. OwesTo(r, t, c)'
    BY <2>2 DEF OwesTo
  <2> QED
    BY <2>3 DEF Owes
<1>3. CASE s.pc = "gc_lstat"
  <2>1. Checking(s, r) /\ s.key = c
    BY <1>1, <1>3 DEF OwesTo, Moves, Locking, Unlocking, Looking, Copying, Replacing, Opens, Reading,
                Collecting, Unlinking, Choosing, Comparing, Linking, Installing
  <2>2. CASE SoleLink(c)
    <3>1. r.pc = "gc_unlink" /\ r.key = c
      BY <2>1, <2>2 DEF Checking, SameLocals
    <3>2. OwesTo(r, t, c)'
      BY <3>1 DEF OwesTo
    <3> QED
      BY <3>2 DEF Owes
  <2>3. CASE ~SoleLink(c)
    <3>1. Elsewhere({})
      BY <2>1 DEF Checking
    <3>2. Used(c) => Used(c)'
      BY <3>1, <1>1, Distinct DEF Elsewhere, Used
    <3> QED
      BY <1>3, <2>3, <3>1, <3>2, SharedItem
  <2> QED
    BY <2>2, <2>3
<1>4. CASE s.pc = "gc_unlink"
  <2>1. Collecting(s, r) /\ s.key = c
    BY <1>1, <1>4 DEF OwesTo, Moves, Locking, Unlocking, Looking, Copying, Replacing, Opens, Reading,
                Checking, Unlinking, Choosing, Comparing, Linking, Installing
  <2> QED
    BY <2>1 DEF Collecting, Exists
<1>5. CASE s.pc = "link_rename"
  <2>1. Installing(t, s, r) /\ s.dest = s.path /\ s.path \in Files
    BY <1>1, <1>5 DEF OwesTo, LocalsOf, Moves, Locking, Unlocking, Looking, Copying, Replacing, Opens,
                Reading, Checking, Collecting, Unlinking, Choosing, Comparing, Linking
  <2>2. dir'[s.path] = dir[<<s.dest, "of", t>>]
    BY <2>1 DEF Installing
  <2> QED
    BY <1>1, <1>5, <2>1, <2>2 DEF OwesTo, Used
<1> QED
  BY <1>1, <1>2, <1>3, <1>4, <1>5 DEF OwesTo

\* The file of thread t was the last one of an item: the thread takes on the
\* debt.
LEMMA MoveUses ==
  ASSUME Typed, Serial, Items, NEW t \in Threads, NEW s \in ThreadState, NEW r \in ThreadState,
         s = th[t], th'[t] = r, LocalsOf(s), StageOf(s, t), Moves(t, s, r), LinkedOf(s, t),
         KnowsItem(t), NEW c \in Contents, Exists(c), dir'[c] = dir[c],
         NEW f \in Files, dir[f] = dir[c], dir'[f] # dir[f]
  PROVE  Owes(t, c)'
<1>1. /\ f \in Names /\ c \in Names /\ c # f /\ f \notin TmpNames /\ f \notin Contents
      /\ Exists(f) /\ Content(f) = c
  <2>1. Content(c) = c
    BY ContentOrNone, Distinct DEF Items
  <2> QED
    BY <2>1, Distinct DEF Exists, Content
<1>2. s.pc \notin {"idle"} /\ s.path \in Files
  BY DEF LocalsOf, Moves, Locking, Unlocking, Looking, Copying, Replacing, Opens, Reading, Checking,
         Collecting, Unlinking, Choosing, Comparing, Linking, Installing
<1>4. CASE Locking(s, r) \/ Unlocking(s, r) \/ Looking(s, r) \/ Reading(s, r)
             \/ Checking(s, r) \/ Choosing(s, r) \/ Comparing(s, r)
  <2>1. Elsewhere({})
    BY <1>4 DEF Locking, Unlocking, Looking, Reading, Checking, Choosing, Comparing
  <2> QED
    BY <1>1, <2>1 DEF Elsewhere
<1>5. CASE Copying(t, s, r) \/ Linking(t, s, r)
  <2>1. \E n \in {<<s.path, "mb", t>>, <<s.dest, "of", t>>} : Elsewhere({n}) /\ n \in TmpNames
    BY <1>2, <1>5 DEF Copying, Linking, LocalsOf, ThreadState, TmpNames
  <2> QED
    BY <1>1, <2>1 DEF Elsewhere
<1>6. CASE Opens(s, r)
  BY <1>1, <1>6 DEF Opens, Elsewhere
<1>7. CASE Collecting(s, r)
  BY <1>1, <1>7 DEF Collecting, Elsewhere, ThreadState
<1>8. CASE Replacing(t, s, r)
  <2>1. <<s.path, "mb", t>> \in TmpNames
    BY <1>2 DEF TmpNames
  <2>2. f = s.path
    BY <1>1, <1>8, <2>1 DEF Replacing, Elsewhere
  <2>3. r.pc = "gc_read" /\ r.path = f /\ Content(f)' = c
    BY <1>1, <1>8, <2>2 DEF Replacing, SameLocals, SameCall
  <2>4. OwesTo(r, t, c)'
    BY <2>3 DEF OwesTo
  <2> QED
    BY <2>4 DEF Owes
<1>9. CASE Unlinking(s, r)
  <2>1. f = s.path /\ r.pc = "gc_lstat" /\ r.key = s.key /\ s.pc = "unlink_file"
    BY <1>1, <1>9 DEF Unlinking, Elsewhere, SameLocals
  <2>2. r.key = c
    BY <1>1, <2>1 DEF KnowsItem
  <2>3. OwesTo(r, t, c)'
    BY <2>1, <2>2 DEF OwesTo
  <2> QED
    BY <2>3 DEF Owes
<1>10. CASE Installing(t, s, r)
  <2>1. s.dest \in {s.path, s.key} /\ s.pc = "link_rename" /\ <<s.dest, "of", t>> \in TmpNames
    BY <1>2, <1>10 DEF Installing, LocalsOf, ThreadState, TmpNames
  <2>2. f = s.path /\ s.dest = s.path
    BY <1>1, <1>10, <2>1 DEF Installing, Elsewhere, ThreadState
  <2>3. Single(f)
    BY <2>1, <2>2 DEF LinkedOf
  <2> QED
    BY <1>1, <2>3 DEF Single, Exists
<1> QED
  BY <1>4, <1>5, <1>6, <1>7, <1>8, <1>9, <1>10 DEF Moves

\* A new item is made from a user file.
LEMMA MoveNewItem ==
  ASSUME NEW t \in Threads, NEW s \in ThreadState, NEW r \in ThreadState,
         LocalsOf(s), StageOf(s, t), Moves(t, s, r), LinkedOf(s, t),
         NEW c \in Contents, dir'[c] \notin {None, dir[c]}
  PROVE  Used(c)'
<1>1. c \in Names /\ c \notin Files /\ c \notin TmpNames
  BY Distinct
<1>2. s.pc \notin {"idle"} /\ s.path \in Files
  BY DEF LocalsOf, Moves, Locking, Unlocking, Looking, Copying, Replacing, Opens, Reading, Checking,
         Collecting, Unlinking, Choosing, Comparing, Linking, Installing
<1>3. CASE Locking(s, r) \/ Unlocking(s, r) \/ Looking(s, r) \/ Reading(s, r)
             \/ Checking(s, r) \/ Choosing(s, r) \/ Comparing(s, r) \/ Opens(s, r) \/ Unlinking(s, r)
  <2>1. Elsewhere({}) \/ Elsewhere({s.path})
    BY <1>3 DEF Locking, Unlocking, Looking, Reading, Checking, Choosing, Comparing, Opens, Unlinking
  <2> QED
    BY <1>1, <1>2, <2>1 DEF Elsewhere
<1>4. CASE Copying(t, s, r) \/ Linking(t, s, r)
  <2>1. \E n \in {<<s.path, "mb", t>>, <<s.dest, "of", t>>} : Elsewhere({n}) /\ n \in TmpNames
    BY <1>2, <1>4 DEF Copying, Linking, LocalsOf, ThreadState, TmpNames
  <2> QED
    BY <1>1, <2>1 DEF Elsewhere
<1>5. CASE Collecting(s, r)
  BY <1>1, <1>5 DEF Collecting, Elsewhere
<1>6. CASE Replacing(t, s, r)
  <2>1. <<s.path, "mb", t>> \in TmpNames
    BY <1>2 DEF TmpNames
  <2> QED
    BY <1>1, <1>2, <1>6, <2>1 DEF Replacing, Elsewhere
<1>7. CASE Installing(t, s, r)
  <2>1. s.dest \in {s.path, s.key} /\ s.pc = "link_rename" /\ <<s.dest, "of", t>> \in TmpNames
    BY <1>2, <1>7 DEF Installing, LocalsOf, ThreadState, TmpNames
  <2>2. s.dest = c /\ s.dest # s.path
    BY <1>1, <1>2, <1>7, <2>1 DEF Installing, Elsewhere
  <2>3. dir'[c] = dir[s.path]
    BY <1>7, <2>1, <2>2 DEF Installing, LinkedOf
  <2>4. dir'[s.path] = dir[s.path]
    BY <1>1, <1>2, <1>7, <2>1, <2>2, Distinct DEF Installing, Elsewhere
  <2> QED
    BY <1>2, <2>3, <2>4 DEF Used
<1> QED
  BY <1>3, <1>4, <1>5, <1>6, <1>7 DEF Moves

\* Who is to remove the name of a file learns what the file contains.
LEMMA MoveKnows ==
  ASSUME Typed, NEW t \in Threads, NEW s \in ThreadState, NEW r \in ThreadState,
         th'[t] = r, LocalsOf(s), Moves(t, s, r)
  PROVE  KnowsItem(t)'
<1> SUFFICES ASSUME r.pc = "unlink_file" PROVE r.key = Content(r.path)'
  BY DEF KnowsItem
<1>1. Reading(s, r) /\ s.pc = "unlink_read"
  BY DEF Moves, Locking, Unlocking, Looking, Copying, Replacing, Opens, Reading, Checking,
         Collecting, Unlinking, Choosing, Comparing, Linking, Installing, GcReturns, Idle
<1>2. s.path \in Names /\ r.path = s.path /\ r.key = Content(s.path) /\ Elsewhere({})
  BY <1>1, Distinct DEF Reading, SameCall, LocalsOf
<1> QED
  BY <1>2 DEF Elsewhere

LEMMA ProceedDebts ==
  ASSUME ~IoErrors, ~ShortCopies, AloneInv, Sound, Tidy, Debts, Typed', NEW t \in Threads, Proceed(t)
  PROVE  Debts'
<1>1. /\ Typed /\ Serial /\ Stages /\ Items /\ th[t].pc # "idle" /\ Moved(t) /\ Frame(t)
  BY ProceedMoves, ProceedThread, NeverDies DEF AloneInv, Inv, Tidy
<1> PICK s \in ThreadState, r \in ThreadState :
      s = th[t] /\ th' = [th EXCEPT ![t] = r] /\ LocalsOf(s) /\ StageOf(s, t) /\ Moves(t, s, r)
  BY <1>1 DEF Moved
<1>2. th'[t] = r /\ (\A u \in Threads \ {t} : th'[u] = th[u]) /\ LinkedOf(s, t) /\ s.path \in Files
  BY <1>1, Reaches DEF Tidy, Linked, LocalsOf
<1>3. ASSUME NEW u \in Threads \ {t}
      PROVE  /\ KnowsItem(u)'
             /\ \A c \in Contents : Owes(u, c) /\ dir'[c] = dir[c] => Owes(u, c)'
  <2>1. \A n \in TmpNames : n[3] = u => dir'[n] = dir[n]
    BY <1>1 DEF Frame, Kept
  <2>2. th[u].pc # "idle" => \A f \in Files : f = th[u].path => Content(f)' = Content(f)
    BY <1>1 DEF Serial, PathsApart, Frame, Kept, Path
  <2> QED
    BY <1>1, <1>2, <2>1, <2>2, OwesKept DEF Debts
<1>4. KnowsItem(t)'
  BY <1>1, <1>2, MoveKnows
<1>5. ASSUME NEW c \in Contents, Exists(c)'
      PROVE  Used(c)' \/ \E u \in Threads : Owes(u, c)'
  <2>1. CASE dir'[c] # dir[c]
    BY <1>2, <1>5, <2>1, MoveNewItem DEF Exists
  <2>2. CASE dir'[c] = dir[c]
    <3>1. Exists(c)
      BY <1>5, <2>2 DEF Exists
    <3>2. CASE Used(c)
      <4> PICK f \in Files : dir[f] = dir[c]
        BY <3>2 DEF Used
      <4>1. CASE dir'[f] = dir[f]
        BY <2>2, <4>1 DEF Used
      <4>2. CASE dir'[f] # dir[f]
        <5>1. Owes(t, c)'
          BY <1>1, <1>2, <2>2, <3>1, <4>2, MoveUses DEF Debts
        <5> QED
          BY <5>1
      <4> QED
        BY <4>1, <4>2
    <3>3. ASSUME NEW u \in Threads \ {t}, Owes(u, c) PROVE Owes(u, c)'
      BY <1>3, <2>2, <3>3
    <3>4. CASE Owes(t, c)
      <4>1. \/ Owes(t, c)' \/ Used(c)'
            \/ \E u \in Threads : th[u].pc = "link_rename" /\ Owes(u, c) /\ s.pc = "gc_lstat"
        BY <1>1, <1>2, <2>2, <3>1, <3>4, MovePays
      <4> QED
        BY <3>3, <4>1
    <3> QED
      BY <3>1, <3>2, <3>3, <3>4 DEF Debts
  <2> QED
    BY <2>1, <2>2
<1> QED
  BY <1>3, <1>4, <1>5 DEF Debts

\* The threads take no step, and no item loses its last file.
LEMMA StillDebts ==
  ASSUME Typed, Debts, th' = th,
         \A c \in Contents : dir'[c] = dir[c] /\ (Exists(c) /\ Used(c) => Used(c)'),
         \A n \in TmpNames : dir'[n] = dir[n],
         \A u \in Threads : th[u].pc # "idle" =>
           \A f \in Files : f = th[u].path => Content(f)' = Content(f)
  PROVE  Debts'
<1>1. ASSUME NEW u \in Threads
      PROVE  KnowsItem(u)' /\ \A c \in Contents : Owes(u, c) /\ dir'[c] = dir[c] => Owes(u, c)'
  <2>1. th'[u] = th[u]
    OBVIOUS
  <2>2. \A n \in TmpNames : n[3] = u => dir'[n] = dir[n]
    OBVIOUS
  <2>3. th[u].pc # "idle" => \A f \in Files : f = th[u].path => Content(f)' = Content(f)
    OBVIOUS
  <2> QED
    BY <2>1, <2>2, <2>3, OwesKept DEF Debts
<1>2. ASSUME NEW c \in Contents, Exists(c)' PROVE Used(c)' \/ \E u \in Threads : Owes(u, c)'
  <2>1. Exists(c) /\ dir'[c] = dir[c]
    BY <1>2 DEF Exists
  <2> QED
    BY <1>1, <2>1 DEF Debts
<1> QED
  BY <1>1, <1>2 DEF Debts

LEMMA PassDebts ==
  ASSUME "rename" \notin ClientOps, AloneInv, Debts, Passed
  PROVE  Debts'
<1>1. Typed /\ Serial /\ th' = th
  BY DEF AloneInv, Inv, Passed
<1>2. /\ \A n \in Contents \cup TmpNames : dir'[n] = dir[n]
      /\ \A f \in Files : Exists(f) => dir'[f] = dir[f]
      /\ \A u \in Threads : th[u].pc # "idle" =>
           \A f \in Files : f = th[u].path => Content(f)' = Content(f)
  <2>1. CASE FileOpened \/ Elsewhere({})
    BY <2>1, Distinct DEF FileOpened, Elsewhere
  <2>2. CASE FileWritten
    <3> PICK f \in Files, h \in Handles :
          fh[h] # None /\ fh[h].path = f /\ Elsewhere({f}) /\ dir'[f] = dir[f]
      BY <2>2 DEF FileWritten
    <3> QED
      BY <1>1, Distinct DEF Elsewhere, Serial, PathsApart
  <2>3. CASE FileLinked
    <3> PICK g \in Files : FreePath(g) /\ ~Exists(g) /\ Elsewhere({g})
      BY <2>3 DEF FileLinked
    <3> QED
      BY Distinct DEF Elsewhere, FreePath, Exists
  <2>4. CASE FileMade
    <3> PICK g \in Files : FreePath(g) /\ ~Exists(g) /\ Elsewhere({g})
      BY <2>4 DEF FileMade
    <3> QED
      BY Distinct DEF Elsewhere, FreePath, Exists
  <2> QED
    BY <2>1, <2>2, <2>3, <2>4 DEF Passed, FileRenamed
<1>3. ASSUME NEW c \in Contents, Exists(c), Used(c) PROVE Used(c)'
  BY <1>2, <1>3 DEF Used, Exists
<1> QED
  BY <1>1, <1>2, <1>3, StillDebts

LEMMA BegunDebts ==
  ASSUME AloneInv, Debts, Typed', NEW t \in Threads, Begun(t)
  PROVE  Debts'
<1> PICK r \in ThreadState : /\ th' = [th EXCEPT ![t] = r]
                             /\ BeginsRequest(r) \/ BeginsRelease(r) \/ BeginsTask(t, r)
  BY DEF Begun
<1>1. Typed /\ th[t] = Idle /\ Elsewhere({})
  BY DEF Begun, AloneInv, Inv
<1>2. th'[t] = r /\ \A u \in Threads \ {t} : th'[u] = th[u]
  BY <1>1, Reaches
<1>3. KnowsItem(t)'
  <2>1. r.pc # "unlink_file"
    BY DEF BeginsRequest, BeginsRelease, BeginsTask, Idle
  <2> QED
    BY <1>2, <2>1 DEF KnowsItem
<1>4. ASSUME NEW u \in Threads \ {t}
      PROVE  KnowsItem(u)' /\ \A c \in Contents : Owes(u, c) /\ dir'[c] = dir[c] => Owes(u, c)'
  <2>1. \A n \in TmpNames : n[3] = u => dir'[n] = dir[n]
    BY <1>1, Distinct DEF Elsewhere
  <2>2. th[u].pc # "idle" => \A f \in Files : f = th[u].path => Content(f)' = Content(f)
    BY <1>1, Distinct DEF Elsewhere
  <2> QED
    BY <1>1, <1>2, <2>1, <2>2, OwesKept DEF Debts
<1>5. ASSUME NEW c \in Contents, Exists(c)' PROVE Used(c)' \/ \E u \in Threads : Owes(u, c)'
  <2>1. dir'[c] = dir[c] /\ \A f \in Files : dir'[f] = dir[f]
    BY <1>1, Distinct DEF Elsewhere
  <2>2. Exists(c) /\ ~Owes(t, c)
    BY <1>1, <1>5, <2>1 DEF Exists, Owes, OwesTo, Idle
  <2> QED
    BY <1>4, <2>1, <2>2 DEF Debts, Used
<1> QED
  BY <1>3, <1>4, <1>5 DEF Debts

\* GcTree collects what earlier runs of the daemon have left.
LEMMA MainDebts ==
  ASSUME AloneInv, Tidy, Debts, GcTree \/ HardlinkTree \/ FuseMain
  PROVE  Debts'
<1>1. /\ Typed /\ Stages /\ Items /\ th' = th /\ \A u \in Threads : th[u].pc = "idle"
  BY MainStops DEF AloneInv, Inv
<1>2. CASE HardlinkTree \/ FuseMain
  <2>1. \A n \in Names : Kept(n)
    BY <1>1, <1>2, HostSame DEF HardlinkTree, FuseMain
  <2>2. \A n \in Names : dir'[n] = dir[n]
    BY <2>1 DEF Kept
  <2>3. \A c \in Contents : dir'[c] = dir[c] /\ (Exists(c) /\ Used(c) => Used(c)')
    BY <2>2, Distinct DEF Used
  <2>4. \A n \in TmpNames : dir'[n] = dir[n]
    BY <2>2, Distinct
  <2> QED
    BY <1>1, <2>3, <2>4, StillDebts
<1>3. CASE GcTree
  <2>1. Swept
    BY <1>3, GcTreeSweeps
  <2>2. ASSUME NEW c \in Contents, Exists(c)' PROVE Used(c)'
    <3>1. Exists(c) /\ ~SoleLink(c) /\ dir'[c] = dir[c]
      BY <2>1, <2>2, Distinct DEF Swept, Exists, InRepo
    <3>2. Used(c)
      BY <1>1, <3>1, SharedItem
    <3>3. PICK f \in Files : dir[f] = dir[c]
      BY <3>2 DEF Used
    <3>4. f \in Names /\ ~InRepo(f)
      BY Distinct DEF InRepo
    <3>5. dir'[f] = dir[f]
      BY <2>1, <3>4 DEF Swept
    <3> QED
      BY <3>1, <3>3, <3>5 DEF Used
  <2>3. \A u \in Threads : KnowsItem(u)'
    BY <1>1 DEF KnowsItem
  <2> QED
    BY <2>2, <2>3 DEF Debts
<1> QED
  BY <1>2, <1>3

LEMMA NextDebts ==
  ASSUME Discipline, ~IoErrors, "rename" \notin ClientOps, AloneInv, Sound, Tidy, Debts, Typed',
         [Next]_vars, kills = 0, kills' = 0
  PROVE  Debts'
<1>1. CASE UNCHANGED vars
  BY <1>1 DEF vars, Debts, KnowsItem, Used, Owes, OwesTo, Exists, Content
<1> QED
  BY <1>1, UncutSteps, ProceedDebts, PassDebts, BegunDebts, MainDebts DEF Discipline

LEMMA InitDebts == Init => Debts
<1> SUFFICES ASSUME Init PROVE Debts
  OBVIOUS
<1>1. \A c \in Contents : ~Exists(c)
  BY Distinct DEF Init, Exists
<1>2. \A t \in Threads : KnowsItem(t)
  BY DEF Init, AllIdle, KnowsItem, Idle
<1> QED
  BY <1>1, <1>2 DEF Debts

DebtsInv == kills = 0 => Debts

\* cowfs.cc:171 "Remove it if so, that we don't need to wait until global GC":
\* although GarbageCollectOneRepoFile looks at an item and removes it in two
\* steps, takes no lock on the repository, and other handlers make items and
\* drop links at the same time, every item no file uses is some thread's to
\* collect.  (rename(2) over a file collects nothing.)
THEOREM NoGarbageStays ==
  Discipline /\ ~IoErrors /\ "rename" \notin ClientOps /\ Spec => [](kills = 0 => NoGarbage)
<1>1. Init => DebtsInv
  BY InitDebts DEF DebtsInv
<1>2. ASSUME Discipline, ~IoErrors, "rename" \notin ClientOps, Inv, Alone, Sound, TidyInv,
             Inv', DebtsInv, [Next]_vars
      PROVE  DebtsInv'
  <2> SUFFICES ASSUME kills' = 0 PROVE Debts'
    BY DEF DebtsInv
  <2>1. AloneInv /\ Typed /\ Typed'
    BY <1>2 DEF AloneInv, Alone, Inv
  <2>2. kills = 0
    BY <1>2, <2>1, KillsGrow
  <2> QED
    BY <1>2, <2>1, <2>2, NextDebts DEF DebtsInv, TidyInv
<1>3. DebtsInv => (kills = 0 => NoGarbage)
  <2> SUFFICES ASSUME DebtsInv, kills = 0, Quiet, NEW c \in Contents, Exists(c)
               PROVE  Used(c)
    BY DEF NoGarbage, Used
  <2>1. \A t \in Threads : ~Owes(t, c)
    BY DEF Quiet, AllIdle, Idle, Owes, OwesTo
  <2> QED
    BY <2>1 DEF DebtsInv, Debts
<1>4. CASE Discipline /\ ~IoErrors /\ "rename" \notin ClientOps
  <2>1. Inv /\ Alone /\ Sound /\ TidyInv /\ Inv' /\ DebtsInv /\ [Next]_vars => DebtsInv'
    BY <1>2, <1>4
  <2>2. Spec => [](Inv /\ Alone /\ Sound /\ TidyInv)
    BY <1>4, AlwaysTidy
  <2> QED
    BY <1>1, <1>3, <2>1, <2>2, PTL DEF Spec
<1>5. CASE ~(Discipline /\ ~IoErrors /\ "rename" \notin ClientOps)
  BY <1>5
<1> QED
  BY <1>4, <1>5

-----------------------------------------------------------------------------
(* With one thread, files of equal content are links to one item.           *)

OneThread == \A t, u \in Threads : t = u

\* File f is a link to the item of its content, or empty.
Settled(f) ==
  Exists(f) /\ Content(f) # Empty => Exists(Content(f)) /\ dir[f] = dir[Content(f)]

\* File f will be deduped: by a job of HardlinkTree, at the release of its
\* handle, or by the handler that is under way.
Waits(f) ==
  \/ phase \in {"gc", "walk"}
  \/ \E t \in Threads : f \in todo[t]
  \/ \E h \in Handles : fh[h] # None /\ fh[h].access = "w" /\ fh[h].path = f

Works(s, f) ==
  s.pc # "idle" /\ s.path = f /\ ~(s.pc = "unlock" /\ s.op \in {"release", "startup"})

Pending(f) == Waits(f) \/ \E t \in Threads : Works(th[t], f)

\* What a thread without company can rely on.
LoneOf(s, t) ==
  LET tmp == <<s.dest, "of", t>>
  IN /\ s.op = "open" => Exists(s.path) /\ (s.pc = "unlock" => s.ret = "true")
     /\ s.op = "create" => ~Exists(s.path)
     /\ s.op = "unlink" /\ s.pc \in {"gc_lstat", "gc_unlink"} => ~Exists(s.path)
     /\ s.pc = "gc_unlink" => Single(s.key)
     /\ s.pc \in {"link_same", "link_link", "link_rename"} => (s.dest = s.path <=> Exists(s.key))
     /\ s.pc = "link_rename" /\ s.dest = s.path => dir[tmp] = dir[s.key]

Loner(t) == LoneOf(th[t], t)

Lone ==
  /\ phase \in {"gc", "walk"} => \A f \in Files : Single(f)
  /\ \A f \in Files : Pending(f) \/ Settled(f)
  /\ \A t \in Threads : Loner(t)

LEMMA MoveLone ==
  ASSUME NEW t \in Threads, NEW s \in ThreadState, NEW r \in ThreadState,
         LocalsOf(s), StageOf(s, t), LoneOf(s, t), Moves(t, s, r)
  PROVE  LoneOf(r, t)'
<1>1. s.pc # "idle" /\ s.path \in Files
  BY DEF LocalsOf, Moves, Locking, Unlocking, Looking, Copying, Replacing, Opens, Reading, Checking,
         Collecting, Unlinking, Choosing, Comparing, Linking, Installing
<1>2. /\ s.path \in Names \ (TmpNames \cup Contents) /\ s.key \in Contents
      /\ s.key \in Names \ (TmpNames \cup Files)
  BY <1>1, Distinct DEF ThreadState
<1>3. LoneOf(Idle, t)'
  BY DEF LoneOf, Idle
<1>4. CASE Locking(s, r) \/ Unlocking(s, r) \/ Looking(s, r) \/ Reading(s, r)
  <2>1. Elsewhere({}) /\ (r = Idle \/ (r.op = s.op /\ r.path = s.path))
    BY <1>4 DEF Locking, Unlocking, Looking, Reading, SameLocals, SameCall
  <2>2. Exists(s.path)' <=> Exists(s.path)
    BY <1>2, <2>1 DEF Elsewhere, Exists
  <2>3. /\ r.pc \notin {"gc_unlink", "link_same", "link_link", "link_rename"}
        /\ r.pc = "gc_lstat" => s.op # "unlink"
        /\ r.op = "open" /\ r.pc = "unlock" => Exists(s.path) /\ r.ret = "true"
    BY <1>4 DEF Locking, Unlocking, Looking, Reading, SameLocals, SameCall, LocalsOf, BreakPcs, LoneOf, Idle
  <2> QED
    BY <1>3, <2>1, <2>2, <2>3 DEF LoneOf
<1>5. CASE Copying(t, s, r) \/ Replacing(t, s, r)
  <2>1. /\ r.pc \in {"break_rename", "gc_read"} /\ r.op = "open" /\ r.path = s.path
        /\ Exists(s.path)
    BY <1>5 DEF Copying, Replacing, SameLocals, SameCall, StageOf, LocalsOf, BreakPcs, LoneOf
  <2>2. <<s.path, "mb", t>> \in TmpNames
    BY <1>1 DEF TmpNames
  <2>3. Exists(s.path)'
    BY <1>2, <1>5, <2>1, <2>2 DEF Copying, Replacing, Elsewhere, Exists
  <2> QED
    BY <2>1, <2>3 DEF LoneOf
<1>6. CASE Opens(s, r)
  BY <1>3, <1>6 DEF Opens
<1>7. CASE Checking(s, r) \/ Collecting(s, r)
  <2>1. /\ Elsewhere({}) \/ Elsewhere({s.key})
        /\ \/ GcReturns(s, r)
           \/ SoleLink(s.key) /\ Elsewhere({}) /\ r.pc = "gc_unlink" /\ SameLocals(s, r)
    BY <1>7 DEF Checking, Collecting
  <2>2. Exists(s.path)' <=> Exists(s.path)
    BY <1>2, <2>1 DEF Elsewhere, Exists
  <2>3. CASE GcReturns(s, r)
    <3>1. r = Idle \/ (r.op = s.op /\ r.path = s.path /\ r.pc = "unlock" /\ r.ret = "true")
      BY <2>3 DEF GcReturns, SameCall
    <3> QED
      BY <1>3, <2>2, <3>1 DEF LoneOf
  <2>4. CASE SoleLink(s.key) /\ Elsewhere({}) /\ r.pc = "gc_unlink" /\ SameLocals(s, r)
    <3>1. Single(s.key)'
      BY <1>2, <2>4 DEF SoleLink, Elsewhere, Single
    <3>2. s.pc \in {"gc_lstat", "gc_unlink"} /\ r.key = s.key /\ r.op = s.op /\ r.path = s.path
      BY <1>7, <2>4 DEF Checking, Collecting, SameLocals, SameCall
    <3> QED
      BY <2>2, <2>4, <3>1, <3>2 DEF LoneOf
  <2> QED
    BY <2>1, <2>3, <2>4
<1>8. CASE Unlinking(s, r)
  <2>1. r.pc = "gc_lstat" /\ r.op = "unlink" /\ r.path = s.path /\ dir'[s.path] = None
    BY <1>8 DEF Unlinking, SameLocals, SameCall, LocalsOf
  <2> QED
    BY <2>1 DEF LoneOf, Exists
<1>9. CASE Choosing(s, r) \/ Comparing(s, r)
  <2>1. /\ Elsewhere({}) /\ r.pc \in {"link_same", "link_link"} /\ r.path = s.path /\ r.key = s.key
        /\ r.op \in {"release", "startup"} /\ (r.dest = s.path <=> Exists(s.key))
    BY <1>2, <1>9 DEF Choosing, Comparing, SameLocals, SameCall, LocalsOf, LinkPcs, LoneOf
  <2>2. Exists(s.key)' <=> Exists(s.key)
    BY <1>2, <2>1 DEF Elsewhere, Exists
  <2> QED
    BY <2>1, <2>2 DEF LoneOf
<1>10. CASE Linking(t, s, r)
  <2>1. /\ s.pc = "link_link" /\ s.dest \in {s.path, s.key} /\ s.op \in {"release", "startup"}
        /\ s.dest = s.path <=> Exists(s.key)
    BY <1>10 DEF Linking, LocalsOf, LinkPcs, LoneOf
  <2> PICK m : m = <<s.dest, "of", t>>
    OBVIOUS
  <2>2. m \in TmpNames
    BY <1>1, <1>2, <2>1 DEF TmpNames
  <2>3. /\ Elsewhere({m}) /\ dir'[m] = dir[IF s.dest = s.path THEN s.key ELSE s.path]
        /\ \/ r.pc = "unlock" /\ r.op = s.op
           \/ r.pc = "link_rename" /\ SameLocals(s, r)
    BY <1>10 DEF Linking, SameCall
  <2>4. dir'[s.key] = dir[s.key]
    BY <1>2, <2>2, <2>3 DEF Elsewhere
  <2>5. CASE r.pc = "unlock" /\ r.op = s.op
    BY <2>1, <2>5 DEF LoneOf
  <2>6. CASE r.pc = "link_rename" /\ SameLocals(s, r)
    <3>1. r.path = s.path /\ r.key = s.key /\ r.dest = s.dest /\ r.op = s.op
      BY <2>6 DEF SameLocals, SameCall
    <3> QED
      BY <2>1, <2>3, <2>4, <2>6, <3>1 DEF LoneOf, Exists
  <2> QED
    BY <2>3, <2>5, <2>6
<1>11. CASE Installing(t, s, r)
  <2>1. r.pc = "unlock" /\ r.op \in {"release", "startup"}
    BY <1>11 DEF Installing, SameCall, LocalsOf, LinkPcs
  <2> QED
    BY <2>1 DEF LoneOf
<1> QED
  BY <1>4, <1>5, <1>6, <1>7, <1>8, <1>9, <1>10, <1>11 DEF Moves

\* Only the garbage collection takes an item away.
LEMMA MoveItem ==
  ASSUME NEW t \in Threads, NEW s \in ThreadState, NEW r \in ThreadState,
         LocalsOf(s), LoneOf(s, t), Moves(t, s, r),
         NEW c \in Contents, Exists(c), dir'[c] # dir[c]
  PROVE  Single(c)
<1>1. s.pc # "idle" /\ s.path \in Files /\ c \in Names /\ c \notin Files /\ c \notin TmpNames
  BY Distinct DEF LocalsOf, Moves, Locking, Unlocking, Looking, Copying, Replacing, Opens, Reading,
         Checking, Collecting, Unlinking, Choosing, Comparing, Linking, Installing
<1>2. CASE Locking(s, r) \/ Unlocking(s, r) \/ Looking(s, r) \/ Reading(s, r)
             \/ Checking(s, r) \/ Choosing(s, r) \/ Comparing(s, r) \/ Opens(s, r) \/ Unlinking(s, r)
  <2>1. Elsewhere({}) \/ Elsewhere({s.path})
    BY <1>2 DEF Locking, Unlocking, Looking, Reading, Checking, Choosing, Comparing, Opens, Unlinking
  <2> QED
    BY <1>1, <2>1 DEF Elsewhere
<1>3. CASE Copying(t, s, r) \/ Replacing(t, s, r)
  <2>1. <<s.path, "mb", t>> \in TmpNames
    BY <1>1 DEF TmpNames
  <2> QED
    BY <1>1, <1>3, <2>1 DEF Copying, Replacing, Elsewhere
<1>4. CASE Collecting(s, r)
  BY <1>1, <1>4 DEF Collecting, Elsewhere, LoneOf
<1>5. CASE Linking(t, s, r) \/ Installing(t, s, r)
  <2>1. /\ s.pc \in {"link_link", "link_rename"} /\ s.dest \in {s.path, s.key}
        /\ s.dest = s.path <=> Exists(s.key)
    BY <1>5 DEF Linking, Installing, LocalsOf, LoneOf
  <2>2. <<s.dest, "of", t>> \in TmpNames
    BY <1>1, <2>1 DEF TmpNames, ThreadState
  <2>3. s.dest # c
    BY <1>1, <2>1
  <2>4. Elsewhere({<<s.dest, "of", t>>}) \/ Elsewhere({<<s.dest, "of", t>>, s.dest})
    BY <1>5 DEF Linking, Installing
  <2> QED
    BY <1>1, <2>2, <2>3, <2>4 DEF Elsewhere
<1> QED
  BY <1>2, <1>3, <1>4, <1>5 DEF Moves

\* A handler works on until its file is deduped, open, or gone.
LEMMA MoveSettles ==
  ASSUME NEW t \in Threads, NEW s \in ThreadState, NEW r \in ThreadState,
         LocalsOf(s), StageOf(s, t), LinkedOf(s, t), LoneOf(s, t), Moves(t, s, r)
  PROVE  \/ Works(r, s.path) \/ Settled(s.path)'
         \/ s.op \in Opening /\ GetsHandle(s)
         \/ ~Works(s, s.path) /\ Elsewhere({})
<1>1. s.path \in Files /\ s.path \in Names /\ s.path \notin TmpNames /\ s.key \in Contents
  BY Distinct DEF ThreadState, LocalsOf, Moves, Locking, Unlocking, Looking, Copying, Replacing, Opens,
         Reading, Checking, Collecting, Unlinking, Choosing, Comparing, Linking, Installing
<1>2. ~Exists(s.path)' => Settled(s.path)'
  BY DEF Settled
<1>3. CASE Opens(s, r)
  BY <1>3 DEF Opens, LoneOf, LocalsOf, BreakPcs, Opening
<1>4. CASE Unlocking(s, r)
  <2>1. Elsewhere({}) /\ s.pc = "unlock"
    BY <1>4 DEF Unlocking
  <2>2. CASE s.op \in Opening /\ s.ret = "true"
    BY <1>4, <2>2 DEF Unlocking, SameLocals, SameCall, Works
  <2>3. CASE s.op \in {"release", "startup"}
    BY <2>1, <2>3 DEF Works
  <2>4. CASE s.op = "create"
    BY <1>1, <1>2, <2>1, <2>4 DEF LoneOf, Elsewhere, Exists
  <2> QED
    BY <2>1, <2>2, <2>3, <2>4 DEF LocalsOf, LoneOf, Opening
<1>5. CASE Checking(s, r) \/ Collecting(s, r)
  <2>1. CASE r.pc = "gc_unlink" /\ SameLocals(s, r)
    BY <2>1 DEF Works, SameLocals, SameCall
  <2>2. CASE s.op = "unlink"
    BY <1>1, <1>2, <1>5, <2>2, Distinct DEF Checking, Collecting, LoneOf, Elsewhere, Exists
  <2>3. CASE s.op \in Opening /\ GcReturns(s, r)
    BY <2>3 DEF GcReturns, SameCall, Works, Opening
  <2> QED
    BY <1>5, <2>1, <2>2, <2>3 DEF Checking, Collecting, LocalsOf, Opening
<1>6. CASE Linking(t, s, r)
  <2>1. Exists(IF s.dest = s.path THEN s.key ELSE s.path) /\ SameCall(s, r)
    BY <1>6 DEF Linking, LoneOf, StageOf
  <2> QED
    BY <1>6, <2>1 DEF Linking, SameCall, Works
<1>7. CASE Installing(t, s, r)
  <2>1. /\ s.pc = "link_rename" /\ s.dest \in {s.path, s.key}
        /\ s.dest = s.path <=> Exists(s.key)
        /\ Content(s.path) = s.key
    BY <1>7 DEF Installing, LocalsOf, LoneOf, StageOf
  <2> PICK m \in TmpNames : m = <<s.dest, "of", t>>
    BY <1>1, <2>1 DEF TmpNames, ThreadState
  <2>2. /\ Elsewhere({m, s.dest}) /\ Exists(m) /\ dir'[s.dest] = dir[m] /\ Content(s.dest)' = s.key
    BY <1>7 DEF Installing
  <2>3. s.key \in Names \ {m, s.path} /\ s.path # m
    BY <1>1, Distinct
  <2>4. CASE s.dest = s.path
    <3>1. dir'[s.key] = dir[s.key] /\ dir[m] = dir[s.key] /\ Exists(s.key)
      BY <2>1, <2>2, <2>3, <2>4 DEF Elsewhere, LoneOf
    <3> QED
      BY <2>2, <2>4, <3>1 DEF Settled, Exists
  <2>5. CASE s.dest # s.path
    <3>1. dir'[s.path] = dir[s.path] /\ Content(s.path)' = s.key /\ dir[m] = dir[s.path] /\ s.dest = s.key
      BY <1>1, <2>1, <2>2, <2>3, <2>5 DEF Elsewhere, LinkedOf
    <3> QED
      BY <2>2, <3>1 DEF Settled, Exists
  <2> QED
    BY <2>4, <2>5
<1>8. CASE Locking(s, r) \/ Looking(s, r) \/ Copying(t, s, r) \/ Replacing(t, s, r) \/ Reading(s, r)
             \/ Unlinking(s, r) \/ Choosing(s, r) \/ Comparing(s, r)
  <2>1. r.path = s.path /\ r.op = s.op /\ r.pc # "idle"
    BY <1>8 DEF Locking, Looking, Copying, Replacing, Reading, Unlinking, Choosing, Comparing,
                SameLocals, SameCall
  <2>2. r.pc = "unlock" => s.op \in Opening
    BY <1>8 DEF Locking, Looking, Copying, Replacing, Reading, Unlinking, Choosing, Comparing,
                LocalsOf, BreakPcs, Opening
  <2> QED
    BY <2>1, <2>2 DEF Works, Opening
<1> QED
  BY <1>3, <1>4, <1>5, <1>6, <1>7, <1>8 DEF Moves

LEMMA MoveHandles ==
  ASSUME NEW t, NEW s, NEW r, Moves(t, s, r)
  PROVE  \/ fh' = fh
         \/ s.pc = "open_fd" /\ GetsHandle(s)
BY DEF Moves, Locking, Unlocking, Looking, Copying, Replacing, Opens, Reading, Checking,
       Collecting, Unlinking, Choosing, Comparing, Linking, Installing

\* A file that stays is still a link to its item if that stays.
LEMMA SettledKept ==
  ASSUME Typed, NEW f \in Files, Settled(f), Exists(f)' => dir'[f] = dir[f],
         Exists(f)' => Content(f)' = Content(f),
         \A c \in Contents : Exists(c) /\ dir[f] = dir[c] => dir'[c] = dir[c]
  PROVE  Settled(f)'
<1> SUFFICES ASSUME Exists(f)', Content(f)' # Empty
             PROVE  (Exists(Content(f)) /\ dir[f] = dir[Content(f)])'
  BY DEF Settled
<1>1. Exists(f) /\ Content(f) # Empty
  BY DEF Exists
<1> PICK c \in Contents : c = Content(f)
  BY <1>1, ContentOrNone, Distinct
<1>2. Exists(c) /\ dir[f] = dir[c]
  BY <1>1 DEF Settled
<1>3. dir'[c] = dir[c] /\ dir'[f] = dir[f] /\ Content(f)' = c
  BY <1>2
<1> QED
  BY <1>2, <1>3 DEF Exists

LEMMA ProceedLone ==
  ASSUME OneThread, ~IoErrors, ~ShortCopies, AloneInv, Sound, Tidy, Lone, Typed', NEW t \in Threads, Proceed(t)
  PROVE  Lone'
<1>1. /\ Typed /\ Serial /\ Stages /\ th[t].pc # "idle" /\ Moved(t) /\ Frame(t)
      /\ UNCHANGED <<phase, todo>> /\ phase \notin {"gc", "walk"}
  BY ProceedMoves, ProceedThread, NeverDies DEF AloneInv, Inv, Tidy, Stopped, StoppedPhases
<1> PICK s \in ThreadState, r \in ThreadState :
      s = th[t] /\ th' = [th EXCEPT ![t] = r] /\ LocalsOf(s) /\ StageOf(s, t) /\ Moves(t, s, r)
  BY <1>1 DEF Moved
<1>2. th'[t] = r /\ LinkedOf(s, t) /\ LoneOf(s, t) /\ s.path \in Files /\ \A u \in Threads : u = t
  BY <1>1, Reaches DEF Tidy, Linked, LocalsOf, Lone, Loner, OneThread
<1>3. LoneOf(r, t)'
  BY <1>2, MoveLone
<1>4. fh \in [Handles -> Handle \cup {None}]
  BY <1>1 DEF Typed, TypeOK
<1>5. ASSUME NEW f \in Files, Waits(f) PROVE Waits(f)'
  <2>1. CASE fh' = fh
    BY <1>1, <1>5, <2>1 DEF Waits
  <2>2. CASE fh' # fh
    <3>1. s.pc = "open_fd" /\ GetsHandle(s)
      BY <2>2, MoveHandles
    <3>2. fh[s.handle] = None
      BY <1>1, <3>1 DEF LocalsOf, BreakPcs, Serial, HandlesApart, Opening
    <3>3. \A h \in Handles : fh[h] # None => fh'[h] = fh[h]
      BY <1>4, <3>1, <3>2 DEF GetsHandle
    <3> QED
      BY <1>1, <1>5, <3>3 DEF Waits
  <2> QED
    BY <2>1, <2>2
<1>6. ASSUME NEW f \in Files, f # s.path, ~Waits(f) PROVE Settled(f)'
  <2>1. Settled(f)
    BY <1>2, <1>6 DEF Lone, Pending, Works
  <2>2. Kept(f)
    BY <1>1, <1>6 DEF Frame, Path
  <2>3. ASSUME NEW c \in Contents, Exists(c), dir[f] = dir[c] PROVE dir'[c] = dir[c]
    BY <1>2, <2>3, MoveItem, Distinct DEF Single, Exists
  <2> QED
    BY <1>1, <2>1, <2>2, <2>3, SettledKept DEF Kept
<1>7. ASSUME ~Waits(s.path) PROVE Pending(s.path)' \/ Settled(s.path)'
  <2>1. CASE Works(r, s.path)
    BY <1>2, <2>1 DEF Pending
  <2>2. CASE s.op \in Opening /\ GetsHandle(s)
    <3>1. s.handle \in Handles
      BY <2>2 DEF LocalsOf, Opening
    <3>2. PICK i \in Inodes : fh'[s.handle] = [path |-> s.path, ino |-> i, access |-> "w"]
      BY <1>4, <2>2, <3>1 DEF GetsHandle
    <3>3. fh'[s.handle] # None
      BY <1>2, <3>2, NoneIsNoHandle DEF Handle
    <3> QED
      BY <3>1, <3>2, <3>3 DEF Pending, Waits
  <2>3. CASE ~Works(s, s.path) /\ Elsewhere({})
    <3>1. Settled(s.path)
      BY <1>2, <1>7, <2>3 DEF Lone, Pending
    <3>2. \A n \in Names : dir'[n] = dir[n] /\ Content(n)' = Content(n)
      BY <2>3 DEF Elsewhere
    <3> QED
      BY <1>1, <1>2, <3>1, <3>2, SettledKept, Distinct
  <2> QED
    BY <1>2, <2>1, <2>2, <2>3, MoveSettles
<1>8. \A f \in Files : Pending(f)' \/ Settled(f)'
  BY <1>5, <1>6, <1>7 DEF Pending
<1>9. \A u \in Threads : Loner(u)'
  BY <1>2, <1>3 DEF Loner
<1> QED
  BY <1>1, <1>8, <1>9 DEF Lone

\* A thread that takes no step, when its file, its item and its temporary
\* name stay.
LEMMA LoneKept ==
  ASSUME Typed, NEW u \in Threads, Loner(u), th'[u] = th[u],
         \A n \in Contents \cup TmpNames : Kept(n),
         th[u].pc # "idle" => \A f \in Files : f = th[u].path => Kept(f)
  PROVE  Loner(u)'
<1> PICK s \in ThreadState : s = th[u]
  BY DEF Typed, TypeOK
<1>1. LocalsOf(s) /\ LoneOf(s, u)
  BY DEF Typed, LocalsOK, Loner
<1>2. CASE s.pc = "idle"
  BY <1>1, <1>2 DEF Loner, LoneOf, LocalsOf
<1>3. CASE s.pc # "idle"
  <2>1. Kept(s.path) /\ Kept(s.key)
    BY <1>1, <1>3 DEF LocalsOf, ThreadState
  <2>2. s.pc = "link_rename" => Kept(<<s.dest, "of", u>>)
    BY <1>1 DEF LocalsOf, ThreadState, TmpNames
  <2>3. LoneOf(s, u)'
    BY <1>1, <2>1, <2>2 DEF LoneOf, Kept, Exists
  <2> QED
    BY <2>3 DEF Loner
<1> QED
  BY <1>2, <1>3

LEMMA PassLone ==
  ASSUME AloneInv, Lone, Passed
  PROVE  Lone'
<1>1. /\ Typed /\ UNCHANGED <<th, phase, todo>> /\ phase = "mounted" /\ todo = NoJobs
      /\ fh \in [Handles -> Handle \cup {None}]
  BY DEF AloneInv, Inv, Typed, TypeOK, Passed, Serial, PhasesApart
<1> PICK M \in SUBSET Files : PassKeeps(M)
  BY PassFiles
<1>2. /\ \A n \in Names \ M : Kept(n)
      /\ \A u \in Threads : th[u].pc # "idle" => th[u].path \notin M
  BY DEF PassKeeps
<1>3. \A c \in Contents \cup TmpNames : Kept(c)
  BY <1>2, Distinct
<1>4. ASSUME NEW u \in Threads PROVE Loner(u)'
  <2>1. th[u].pc # "idle" => \A f \in Files : f = th[u].path => Kept(f)
    BY <1>2, Distinct
  <2> QED
    BY <1>1, <1>3, <2>1, LoneKept DEF Lone
<1>5. fh' = fh \/ \E h \in Handles : fh[h] = None /\ \A k \in Handles \ {h} : fh'[k] = fh[k]
  BY <1>1 DEF Passed, FileOpened, FileMade, FileWritten, FileLinked, FileRenamed
<1>6. ASSUME NEW f \in Files, Pending(f) PROVE Pending(f)'
  BY <1>1, <1>5, <1>6 DEF Pending, Waits
<1>7. ASSUME NEW f \in Files, Settled(f), Exists(f)' => dir'[f] = dir[f] /\ Content(f)' = Content(f)
      PROVE  Settled(f)'
  BY <1>1, <1>3, <1>7, SettledKept DEF Kept
<1>8. ASSUME NEW f \in Files, Settled(f), ~Pending(f) PROVE Pending(f)' \/ Settled(f)'
  <2>1. CASE FileOpened \/ Elsewhere({})
    BY <1>7, <1>8, <2>1, Distinct DEF FileOpened, Elsewhere
  <2>2. CASE FileWritten
    <3> PICK g \in Files, h \in Handles :
          fh[h] # None /\ fh[h].access = "w" /\ fh[h].path = g /\ Elsewhere({g})
      BY <2>2 DEF FileWritten
    <3>1. f # g
      BY <1>8 DEF Pending, Waits
    <3> QED
      BY <1>7, <1>8, <3>1, Distinct DEF Elsewhere
  <2>3. CASE FileLinked \/ FileRenamed
    <3> PICK g \in Files, k \in Files :
          /\ FreePath(g) /\ Exists(g)
          /\ dir'[k] = dir[g] /\ Content(k)' = Content(g)
          /\ \/ Elsewhere({k})
             \/ Elsewhere({g, k}) /\ dir'[g] = None
      BY <2>3 DEF FileLinked, FileRenamed
    <3>1. CASE f = k
      <4>1. Settled(g)
        BY <1>1 DEF Lone, Pending, Waits, Works, NoJobs, FreePath
      <4> PICK c \in Contents : c = Content(g)
        BY <1>1, ContentOrNone, Distinct
      <4>2. c # Empty => Exists(c) /\ dir[g] = dir[c] /\ dir'[c] = dir[c]
        BY <1>3, <4>1 DEF Settled, Kept
      <4> QED
        BY <3>1, <4>2 DEF Settled, Exists
    <3>2. CASE f # k
      <4>1. Exists(f)' => dir'[f] = dir[f] /\ Content(f)' = Content(f)
        BY <3>2, Distinct DEF Elsewhere, Exists
      <4> QED
        BY <1>7, <1>8, <4>1
    <3> QED
      BY <3>1, <3>2
  <2>4. CASE FileMade
    <3> PICK g \in Files : Elsewhere({g}) /\ Content(g)' = Empty
      BY <2>4 DEF FileMade
    <3>1. CASE f = g
      BY <3>1 DEF Settled
    <3>2. CASE f # g
      BY <1>7, <1>8, <3>2, Distinct DEF Elsewhere
    <3> QED
      BY <3>1, <3>2
  <2> QED
    BY <2>1, <2>2, <2>3, <2>4 DEF Passed
<1> QED
  BY <1>1, <1>4, <1>6, <1>8 DEF Lone

LEMMA BegunLone ==
  ASSUME OneThread, AloneInv, Lone, Typed', NEW t \in Threads, Begun(t)
  PROVE  Lone'
<1> PICK r \in ThreadState : /\ th' = [th EXCEPT ![t] = r]
                             /\ r.path \in Files \/ r = Idle
                             /\ BeginsRequest(r) \/ BeginsRelease(r) \/ BeginsTask(t, r)
  BY DEF Begun
<1>1. /\ Typed /\ th[t] = Idle /\ Elsewhere({}) /\ phase' = phase /\ \A u \in Threads : u = t
      /\ fh \in [Handles -> Handle \cup {None}] /\ todo \in [Threads -> SUBSET Files]
  BY DEF Begun, AloneInv, Inv, OneThread, Typed, TypeOK
<1>2. th'[t] = r /\ \A n \in Names : Kept(n) /\ dir'[n] = dir[n]
  BY <1>1, Reaches DEF Elsewhere, Kept, Single
<1>3. Loner(t)'
  <2>1. CASE r = Idle
    BY <1>2, <2>1 DEF Loner, LoneOf, Idle
  <2>2. CASE BeginsRequest(r) /\ r # Idle
    <3>1. Exists(r.path)' <=> Exists(r.path)
      BY <1>2, <2>2, Distinct DEF Exists
    <3>2. LoneOf(r, t)'
      BY <2>2, <3>1 DEF BeginsRequest, LoneOf
    <3> QED
      BY <1>2, <3>2 DEF Loner
  <2>3. CASE (BeginsRelease(r) \/ BeginsTask(t, r)) /\ r # Idle
    <3>1. r.pc = "link_lock" /\ r.op \in {"release", "startup"}
      BY <2>3 DEF BeginsRelease, BeginsTask
    <3>2. LoneOf(r, t)'
      BY <3>1 DEF LoneOf
    <3> QED
      BY <1>2, <3>2 DEF Loner
  <2> QED
    BY <2>1, <2>2, <2>3
<1>4. ASSUME NEW f \in Files, Waits(f), ~Works(r, f) PROVE Waits(f)'
  <2>1. CASE BeginsRequest(r)
    BY <1>1, <1>4, <2>1 DEF BeginsRequest, Waits
  <2>2. CASE BeginsRelease(r)
    <3> PICK h \in Handles :
          /\ fh[h] # None /\ fh' = [fh EXCEPT ![h] = None]
          /\ fh[h].access = "w" => r.pc = "link_lock" /\ r.path = fh[h].path
      BY <2>2 DEF BeginsRelease
    <3>1. fh[h].access = "w" => f # fh[h].path
      BY <1>4 DEF Works
    <3>2. \A k \in Handles \ {h} : fh'[k] = fh[k]
      BY <1>1
    <3> QED
      BY <1>1, <1>4, <2>2, <3>1, <3>2 DEF Waits, BeginsRelease
  <2>3. CASE BeginsTask(t, r)
    <3>1. f # r.path
      BY <1>4, <2>3 DEF BeginsTask, Works
    <3>2. \A u \in Threads : f \in todo[u] => f \in todo'[u]
      BY <1>1, <2>3, <3>1 DEF BeginsTask
    <3> QED
      BY <1>1, <1>4, <2>3, <3>2 DEF BeginsTask, Waits
  <2> QED
    BY <2>1, <2>2, <2>3
<1>5. ASSUME NEW f \in Files, ~Waits(f) PROVE Settled(f)'
  <2>1. Settled(f)
    BY <1>1, <1>5 DEF Lone, Pending, Works, Idle
  <2>2. Kept(f) /\ \A c \in Contents : dir'[c] = dir[c]
    BY <1>2, Distinct
  <2> QED
    BY <1>1, <2>1, <2>2, SettledKept DEF Kept
<1>6. \A f \in Files : Pending(f)' \/ Settled(f)'
  BY <1>2, <1>4, <1>5 DEF Pending
<1>7. phase' \in {"gc", "walk"} => \A f \in Files : Single(f)'
  BY <1>1, <1>2, Distinct DEF Lone, Kept
<1> QED
  BY <1>1, <1>3, <1>6, <1>7 DEF Lone

\* HardlinkTree deals out every file there is: before the first mount no two
\* files share an inode.
LEMMA MainLone ==
  ASSUME AloneInv, Tidy, Lone, GcTree \/ HardlinkTree \/ FuseMain
  PROVE  Lone'
<1>1. Typed /\ th' = th /\ fh' = fh /\ \A u \in Threads : th[u].pc = "idle"
  BY MainStops DEF AloneInv, Inv
<1>2. ASSUME NEW u \in Threads PROVE Loner(u)'
  BY <1>1 DEF Loner, LoneOf, Typed, LocalsOK, LocalsOf
<1>3. CASE GcTree
  <2>1. phase = "gc" /\ phase' = "walk" /\ Swept
    BY <1>3, GcTreeSweeps DEF GcTree
  <2>2. ASSUME NEW f \in Files PROVE Single(f)' /\ Pending(f)'
    <3>1. dir'[f] = dir[f] /\ \A n \in Names : dir'[n] \in {None, dir[n]}
      BY <2>1, Distinct DEF Swept, InRepo
    <3>2. Single(f)
      BY <2>1 DEF Lone
    <3> QED
      BY <2>1, <3>1, <3>2 DEF Single, Pending, Waits
  <2> QED
    BY <1>2, <2>2 DEF Lone
<1>4. CASE HardlinkTree
  <2>1. phase = "walk" /\ phase' = "hardlink" /\ UNCHANGED <<dir, ino>>
    BY <1>4 DEF HardlinkTree, host
  <2>2. ASSUME NEW f \in Files PROVE Pending(f)' \/ Settled(f)'
    <3>1. CASE Exists(f)
      <4>1. SoleLink(f)
        BY <2>1, <3>1, Distinct DEF Lone, Single, SoleLink, Exists
      <4> QED
        BY <1>4, <4>1 DEF HardlinkTree, Pending, Waits
    <3>2. CASE ~Exists(f)
      BY <2>1, <3>2 DEF Settled, Exists
    <3> QED
      BY <3>1, <3>2
  <2> QED
    BY <1>2, <2>1, <2>2 DEF Lone
<1>5. CASE FuseMain
  <2>1. phase = "hardlink" /\ phase' = "mounted" /\ UNCHANGED <<dir, ino, th, fh, todo>>
    BY <1>5 DEF FuseMain, host
  <2>2. \A f \in Files : /\ Pending(f) => Pending(f)'
                         /\ Settled(f) => Settled(f)'
    BY <2>1 DEF Pending, Waits, Settled, Exists, Content
  <2> QED
    BY <1>2, <2>1, <2>2 DEF Lone
<1> QED
  BY <1>3, <1>4, <1>5

LEMMA NextLone ==
  ASSUME Discipline, ~IoErrors, OneThread, AloneInv, Sound, Tidy, Lone, Typed',
         [Next]_vars, kills = 0, kills' = 0
  PROVE  Lone'
<1>1. CASE UNCHANGED vars
  BY <1>1 DEF vars, Lone, Loner, LoneOf, Single, Pending, Waits, Settled, Exists, Content
<1> QED
  BY <1>1, UncutSteps, ProceedLone, PassLone, BegunLone, MainLone DEF Discipline

LEMMA InitLone == Init => Lone
<1> SUFFICES ASSUME Init PROVE Lone
  OBVIOUS
<1>1. FirstInode \in [Files -> Inodes] /\ IsInjective(FirstInode)
  BY EnoughInodes DEF FirstInode
<1>2. \A f, g \in Files : FirstInode[f] = FirstInode[g] => f = g
  BY <1>1 DEF IsInjective
<1>3. PICK present \in SUBSET Files :
        dir = [n \in Names |-> IF n \in present THEN FirstInode[n] ELSE None]
  BY DEF Init
<1>4. \A n \in Names : dir[n] = IF n \in present THEN FirstInode[n] ELSE None
  BY <1>3
<1>5. ASSUME NEW f \in Files PROVE Single(f)
  BY <1>1, <1>2, <1>4, Distinct DEF Single
<1>6. phase = "gc" /\ \A t \in Threads : Loner(t)
  BY DEF Init, AllIdle, Loner, LoneOf, Idle
<1> QED
  BY <1>5, <1>6 DEF Lone, Pending, Waits

LoneInv == kills = 0 => Lone

\* cowfs.cc:4 "hard-links same file based on content": when one thread runs
\* the handlers, files of equal content that nobody has open are links to one
\* inode whenever no handler runs; a release finds the item, or makes one, and
\* the garbage collection removes no item that a file uses.  Empty files are
\* apart: Create with O_RDONLY makes a file whose release dedupes nothing.
\* (Of two threads that find no item each installs its own file; the file of
\* the first then has an inode to itself.)
THEOREM EqualFilesAreOne ==
  Discipline /\ ~IoErrors /\ OneThread /\ Spec => [](kills = 0 => Deduped)
<1>1. Init => LoneInv
  BY InitLone DEF LoneInv
<1>2. ASSUME Discipline, ~IoErrors, OneThread, Inv, Alone, Sound, TidyInv, Inv', LoneInv, [Next]_vars
      PROVE  LoneInv'
  <2> SUFFICES ASSUME kills' = 0 PROVE Lone'
    BY DEF LoneInv
  <2>1. AloneInv /\ Typed /\ Typed'
    BY <1>2 DEF AloneInv, Alone, Inv
  <2>2. kills = 0
    BY <1>2, <2>1, KillsGrow
  <2> QED
    BY <1>2, <2>1, <2>2, NextLone DEF LoneInv, TidyInv
<1>3. Inv /\ Alone /\ LoneInv => (kills = 0 => Deduped)
  <2> SUFFICES ASSUME Alone, LoneInv, kills = 0, Quiet
               PROVE  \A f, g \in Files :
                        /\ Exists(f) /\ Exists(g) /\ ~OpenOn(f) /\ ~OpenOn(g)
                        /\ Content(f) = Content(g) /\ Content(f) # Empty
                        => dir[f] = dir[g]
    BY DEF Deduped
  <2>1. ASSUME NEW f \in Files, Exists(f), ~OpenOn(f), Content(f) # Empty
        PROVE  dir[f] = dir[Content(f)]
    <3>1. todo = NoJobs /\ phase = "mounted" /\ \A t \in Threads : th[t].pc = "idle"
      BY DEF Alone, Serial, PhasesApart, Quiet, AllIdle, Idle
    <3>2. ~Pending(f)
      BY <2>1, <3>1 DEF Pending, Waits, Works, NoJobs, OpenOn
    <3> QED
      BY <2>1, <3>2 DEF LoneInv, Lone, Settled
  <2> QED
    BY <2>1
<1>4. CASE Discipline /\ ~IoErrors /\ OneThread
  <2>1. Inv /\ Alone /\ Sound /\ TidyInv /\ Inv' /\ LoneInv /\ [Next]_vars => LoneInv'
    BY <1>2, <1>4
  <2>2. Spec => [](Inv /\ Alone /\ Sound /\ TidyInv)
    BY <1>4, AlwaysTidy
  <2> QED
    BY <1>1, <1>3, <2>1, <2>2, PTL DEF Spec
<1>5. CASE ~(Discipline /\ ~IoErrors /\ OneThread)
  BY <1>5
<1> QED
  BY <1>4, <1>5
=============================================================================
