------------------------------- MODULE CowFs -------------------------------
(***************************************************************************)
(* cowfs: a FUSE file system that keeps files of equal content as hard     *)
(* links to one inode (the "repository" item of that content) and breaks   *)
(* the link before a file is opened for writing (cowfs.cc).                *)
(*                                                                         *)
(* One step of a thread is one system call of the handler it runs on the   *)
(* host directory.  The handlers of libfuse run in parallel; the only      *)
(* synchronisation of cowfs is the lock of a path, made of mkdir(2) and    *)
(* rmdir(2) (scoped_fileutil.cc).                                          *)
(*                                                                         *)
(* Abstractions:                                                           *)
(*  - a content is a value; the SHA-1 name of a repository item is the     *)
(*    content itself (no collisions);                                      *)
(*  - one directory holds every name: user files, repository items and     *)
(*    temporary names;                                                     *)
(*  - a write replaces the whole content of the inode;                     *)
(*  - modes, owners and times are left out;                                *)
(*  - a temporary name left behind in the user's directory is not taken up *)
(*    by the next HardlinkTree (it is a name the user never made).         *)
(***************************************************************************)
EXTENDS Naturals, FiniteSets, Functions

CONSTANTS
  Files,       \* user visible names
  Contents,    \* what a file may contain; also the names in the repository
  Empty,       \* the content of a new file
  None,        \* no file, no inode, no handle
  Threads,     \* daemon threads: jobs of HardlinkTree, workers of libfuse
  Handles,     \* bound on the handles open at once
  Inodes,      \* the inodes of the host file system: without a free one no
               \*   file can be created
  ClientOps,   \* the operations clients use besides open, create and write
  SharedPaths, \* may clients use one path in several operations at once?
  IoErrors,    \* may a call of the host fail, and say so in errno?
  ShortCopies, \* may sendfile(2) move less than the file, which sets no errno?
  MaxKills     \* bound on how often the daemon is killed

TmpNames == (Files \cup Contents) \X {"mb", "of"} \X Threads
Names == Files \cup Contents \cup TmpNames
AllOps == {"read", "unlink", "rename", "link", "truncate"}

ASSUME ConstantsAssumption ==
  /\ Files \cap Contents = {}
  /\ (Files \cup Contents) \cap TmpNames = {}
  /\ Empty \in Contents
  /\ None \notin Names \cup Inodes \cup Handles
  /\ Inodes \subseteq Nat
  /\ ClientOps \subseteq AllOps
  /\ SharedPaths \in BOOLEAN
  /\ IoErrors \in BOOLEAN /\ ShortCopies \in BOOLEAN
  /\ MaxKills \in Nat

\* An inode for every file of the first mount.
ASSUME EnoughInodes == \E m \in [Files -> Inodes] : IsInjective(m)

VARIABLES
  dir,      \* dir[n]: the inode of name n, or None
  ino,      \* ino[i]: what inode i contains
  lockdir,  \* the paths whose <path>.lock directory exists
  phase,    \* where main() is
  todo,     \* todo[t]: files job t of HardlinkTree has still to link
  th,       \* th[t]: the handler thread t runs, and its local variables
  fh,       \* fh[h]: the CowFileHandle a client holds, or None
  kills     \* how often the daemon was killed

host == <<dir, ino>>
vars == <<dir, ino, lockdir, phase, todo, th, fh, kills>>

-----------------------------------------------------------------------------
(* Threads and handles *)

Pcs == {"idle", "break_lock", "break_stat", "break_copy", "break_rename",
        "gc_read", "gc_lstat", "gc_unlink", "open_fd", "unlink_read",
        "unlink_file", "link_lock", "link_read", "link_lstat", "link_same",
        "link_link", "link_rename", "unlock"}
Ops == {"none", "open", "create", "release", "unlink", "startup"}

\* pc     the next system call
\* op     the handler, path its relative_path
\* handle the handle the client gets when open or create succeeds
\* from   the inode of from_fd in MaybeBreakHardlink
\* key    the content that was read, which names the repository item
\* dest   the argument "to" of HardlinkOneFile
\* errno  errno as MaybeBreakHardlink finds it
\* ret    what the bool function under way returns
ThreadState ==
  [pc : Pcs, op : Ops, path : Files \cup {None}, handle : Handles \cup {None},
   from : Inodes \cup {None}, key : Contents, dest : Files \cup Contents \cup {None},
   errno : {"0", "ENOENT", "EEXIST"}, ret : {"true", "false"}]

Idle == [pc |-> "idle", op |-> "none", path |-> None, handle |-> None,
         from |-> None, key |-> Empty, dest |-> None, errno |-> "0", ret |-> "true"]

Handle == [path : Files, ino : Inodes, access : {"r", "w"}]

ASSUME NoneIsNoHandle == None \notin Handle

NoHandles == [h \in Handles |-> None]
AllIdle == [t \in Threads |-> Idle]
NoJobs == [t \in Threads |-> {}]

-----------------------------------------------------------------------------
(* The host file system *)

Exists(n) == dir[n] # None

\* fstat(2) reports st_nlink > 1 for inode i.
Shared(i) == \E m, n \in Names : m # n /\ dir[m] = i /\ dir[n] = i

\* lstat(2) succeeds on name n and reports st_nlink = 1.
SoleLink(n) == Exists(n) /\ \A m \in Names : dir[m] = dir[n] => m = n

\* rename(2): nothing happens when both names are links to one inode.
RenameEntry(from, to) ==
  IF dir[from] = dir[to] THEN dir
  ELSE [dir EXCEPT ![to] = dir[from], ![from] = None]

UnlinkEntry(n) == [dir EXCEPT ![n] = None]

Live(i, d, h, s) ==
  \/ \E n \in Names : d[n] = i
  \/ \E k \in Handles : h[k] # None /\ h[k].ino = i
  \/ \E t \in Threads : s[t].from = i

\* The inode the kernel gives to the next new file: any free one, so the
\* least.
NextInode(i) ==
  /\ i \in Inodes /\ ~Live(i, dir, fh, th)
  /\ \A j \in Inodes : ~Live(j, dir, fh, th) => i <= j

\* The kernel drops an inode with neither a name nor a descriptor.
Host(d, content, h, s) ==
  /\ dir' = d
  /\ ino' = [i \in Inodes |-> IF Live(i, d, h, s) THEN content[i] ELSE Empty]
  /\ fh' = h
  /\ th' = s

\* What user name f contains, None when there is no such file.
Content(f) == IF Exists(f) THEN ino[dir[f]] ELSE None

-----------------------------------------------------------------------------
(* Which calls the kernel and libfuse let through.  libfuse holds a tree    *)
(* lock on the path during open, create, unlink and rename, but release     *)
(* runs without one; an open file is not unlinked or replaced but renamed   *)
(* to a hidden name, which is a Rename here.                                *)

Running(f, ops) == \E t \in Threads : th[t].path = f /\ th[t].op \in ops
OpenOn(f) == \E h \in Handles : fh[h] # None /\ fh[h].path = f
Busy(f) == OpenOn(f) \/ \E t \in Threads : th[t].path = f

\* The client's discipline when SharedPaths is FALSE: an operation on a path
\* starts only after the earlier one, and its release, have ended.
Admit(f) == phase = "mounted" /\ (SharedPaths \/ ~Busy(f))

ExclusiveOk(f) == Admit(f) /\ ~Running(f, {"open", "create", "unlink"})

FreeHandle(h) == fh[h] = None /\ \A t \in Threads : th[t].handle # h

Step(t, r) == th' = [th EXCEPT ![t] = r]
AtPc(t, p) == th[t].pc = p
Path(t) == th[t].path

\* abort(), a failed assert or SIGKILL: the process is gone, the host
\* directory with its lock directories and temporary names stays.
Die(how) ==
  /\ phase' = how
  /\ Host(dir, ino, NoHandles, AllIdle)
  /\ todo' = NoJobs

Abort == Die("aborted") /\ UNCHANGED <<lockdir, kills>>

-----------------------------------------------------------------------------
(* ScopedFileLockWithDelete: mkdir(2) until it succeeds, rmdir(2) at the    *)
(* end of the scope.                                                        *)

AfterLock == [break_lock |-> "break_stat", link_lock |-> "link_read"]

\* mutant: mkdir's EEXIST is taken for success
LockTakeBlind(t) ==
  /\ th[t].pc \in {"break_lock", "link_lock"}
  /\ lockdir' = lockdir \cup {Path(t)}
  /\ Step(t, [th[t] EXCEPT !.pc = AfterLock[th[t].pc]])
  /\ UNCHANGED <<host, phase, todo, fh, kills>>

LockTake(t) ==
  /\ th[t].pc \in {"break_lock", "link_lock"}
  /\ Path(t) \notin lockdir
  /\ lockdir' = lockdir \cup {Path(t)}
  /\ Step(t, [th[t] EXCEPT !.pc = AfterLock[th[t].pc]])
  /\ UNCHANGED <<host, phase, todo, fh, kills>>

\* The failed mkdir(2) leaves its errno behind.
LockSpin(t) ==
  /\ th[t].pc \in {"break_lock", "link_lock"}
  /\ Path(t) \in lockdir
  /\ Step(t, [th[t] EXCEPT !.errno = "EEXIST"])
  /\ UNCHANGED <<host, lockdir, phase, todo, fh, kills>>

\* What the caller does with the result of the locked function: open goes on
\* to openat or returns EIO, release only logs a failure.
AfterUnlock(t) ==
  IF th[t].op \in {"open", "create"} /\ th[t].ret = "true"
  THEN [th[t] EXCEPT !.pc = "open_fd", !.from = None]
  ELSE Idle

\* mutant: the lock is never removed
UnlockForgets(t) ==
  /\ AtPc(t, "unlock")
  /\ Host(dir, ino, fh, [th EXCEPT ![t] = AfterUnlock(t)])
  /\ UNCHANGED <<lockdir, phase, todo, kills>>

\* mutant: Open ignores the result of MaybeBreakHardlink
UnlockIgnores(t) ==
  /\ AtPc(t, "unlock")
  /\ lockdir' = lockdir \ {Path(t)}
  /\ Host(dir, ino, fh,
          [th EXCEPT ![t] = IF @.op \in {"open", "create"}
                            THEN [@ EXCEPT !.pc = "open_fd", !.from = None] ELSE Idle])
  /\ UNCHANGED <<phase, todo, kills>>

\* The destructor of the lock, at the end of MaybeBreakHardlink and of
\* FindOutRepoAndMaybeHardlink; a failed rmdir is only logged.  A job of
\* HardlinkTree asserts success.
Unlock(t) ==
  /\ AtPc(t, "unlock")
  /\ \/ lockdir' = lockdir \ {Path(t)}
     \/ IoErrors /\ UNCHANGED lockdir
  /\ \/ th[t].op = "startup" /\ th[t].ret = "false" /\ Die("aborted")
     \/ /\ th[t].op # "startup" \/ th[t].ret = "true"
        /\ Host(dir, ino, fh, [th EXCEPT ![t] = AfterUnlock(t)])
        /\ UNCHANGED <<phase, todo>>
  /\ UNCHANGED kills

\* The bool function under way returns b; the lock goes out of scope.
Return(t, b) == [th[t] EXCEPT !.pc = "unlock", !.ret = b]

-----------------------------------------------------------------------------
(* Open and Create for writing: MaybeBreakHardlink, then openat.            *)

\* The first openat of MaybeBreakHardlink, before the lock is taken.
StartBreak(t, o, f, h) ==
  /\ th[t] = Idle
  /\ FreeHandle(h)
  /\ \E from \in {dir[f]} \cup (IF IoErrors THEN {None} ELSE {}) :
       Step(t, [Idle EXCEPT !.pc = "break_lock", !.op = o, !.path = f,
                            !.handle = h, !.from = from,
                            !.errno = IF Exists(f) THEN "0" ELSE "ENOENT"])
  /\ UNCHANGED <<host, lockdir, phase, todo, fh, kills>>

\* The kernel has looked the path up before; with SharedPaths the file may
\* be gone again.
Open(t, f, h) ==
  /\ Admit(f)
  /\ SharedPaths \/ Exists(f)
  /\ ~Running(f, {"create", "unlink"})
  /\ StartBreak(t, "open", f, h)

\* The kernel sends a create only for a name that does not exist.
Create(t, f, h) ==
  /\ ExclusiveOk(f)
  /\ ~Exists(f)
  /\ StartBreak(t, "create", f, h)

\* mutant: off by one, a link count of 2 is left alone
NeedsBreakThree(t) ==
  \E l, m, n \in Names :
    l # m /\ m # n /\ l # n /\ {dir[l], dir[m], dir[n]} = {th[t].from}

\* fstat of from_fd: a link count of 0 or 1 needs no break.
NeedsBreak(t) == Shared(th[t].from)

BreakStat(t) ==
  /\ AtPc(t, "break_stat")
  /\ Step(t, CASE th[t].from = None -> Return(t, IF th[t].errno = "ENOENT" THEN "true" ELSE "false")
               [] th[t].from # None /\ NeedsBreak(t) -> [th[t] EXCEPT !.pc = "break_copy"]
               [] th[t].from # None /\ ~NeedsBreak(t) -> Return(t, "true"))
  /\ UNCHANGED <<host, lockdir, phase, todo, fh, kills>>

BreakTmp(t) == <<Path(t), "mb", t>>

\* mutant: the copy is created but not filled
BreakCopyEmpty(t) ==
  /\ AtPc(t, "break_copy")
  /\ \E i \in Inodes :
       /\ NextInode(i)
       /\ Host([dir EXCEPT ![BreakTmp(t)] = i], [ino EXCEPT ![i] = Empty], fh,
               [th EXCEPT ![t] = [@ EXCEPT !.pc = "break_rename", !.from = None]])
  /\ UNCHANGED <<lockdir, phase, todo, kills>>

\* FileCopyInternal to the temporary name, then from_fd.clear().
BreakCopy(t) ==
  /\ AtPc(t, "break_copy")
  /\ \E i \in Inodes :
       /\ NextInode(i)
       /\ Host([dir EXCEPT ![BreakTmp(t)] = i],
               [ino EXCEPT ![i] = ino[th[t].from]], fh,
               [th EXCEPT ![t] = [@ EXCEPT !.pc = "break_rename", !.from = None]])
  /\ UNCHANGED <<lockdir, phase, todo, kills>>

\* A call of the copy fails with its errno, before or after it has created
\* the temporary name.  to_tmp.clear() keeps the destructor from removing it.
BreakCopyFails(t) ==
  /\ IoErrors
  /\ AtPc(t, "break_copy")
  /\ \/ Host(UnlinkEntry(BreakTmp(t)), ino, fh, [th EXCEPT ![t] = Return(t, "false")])
     \/ \E i \in Inodes :
          /\ NextInode(i)
          /\ Host([dir EXCEPT ![BreakTmp(t)] = i], ino, fh,
                  [th EXCEPT ![t] = Return(t, "false")])
  /\ UNCHANGED <<lockdir, phase, todo, kills>>

\* sendfile(2) moves less than the file, as for a full disk (posix_fallocate
\* never returns -1) or one beyond 2 GiB: no call has failed, so errno is that
\* of an earlier call.  Mostly this is the ENOENT of the unlinkat in the
\* constructor of to_tmp, which counts as success: the file stays shared.
BreakCopyShort(t) ==
  /\ ShortCopies
  /\ AtPc(t, "break_copy")
  /\ \E i \in Inodes, b \in {"true", "false"} :
       /\ ~Exists(BreakTmp(t)) => b = "true"
       /\ NextInode(i)
       /\ Host([dir EXCEPT ![BreakTmp(t)] = i], ino, fh, [th EXCEPT ![t] = Return(t, b)])
  /\ UNCHANGED <<lockdir, phase, todo, kills>>

\* mutant: the copy is linked, not renamed, to the target
BreakRenameLinks(t) ==
  /\ AtPc(t, "break_rename")
  /\ Host([dir EXCEPT ![Path(t)] = dir[BreakTmp(t)]], ino, fh,
          [th EXCEPT ![t] = [@ EXCEPT !.pc = "gc_read"]])
  /\ UNCHANGED <<lockdir, phase, todo, kills>>

BreakRename(t) ==
  /\ AtPc(t, "break_rename")
  /\ Host(RenameEntry(BreakTmp(t), Path(t)), ino, fh,
          [th EXCEPT ![t] = [@ EXCEPT !.pc = "gc_read"]])
  /\ UNCHANGED <<lockdir, phase, todo, kills>>

BreakRenameFails(t) ==
  /\ IoErrors
  /\ AtPc(t, "break_rename")
  /\ Host(UnlinkEntry(BreakTmp(t)), ino, fh, [th EXCEPT ![t] = Return(t, "false")])
  /\ UNCHANGED <<lockdir, phase, todo, kills>>

\* mutant: the result of openat is not checked
OpenFdUnchecked(t) ==
  /\ AtPc(t, "open_fd")
  /\ Host(dir, ino,
          [fh EXCEPT ![th[t].handle] =
             [path |-> Path(t), ino |-> dir[Path(t)], access |-> "w"]],
          [th EXCEPT ![t] = Idle])
  /\ UNCHANGED <<lockdir, phase, todo, kills>>

\* openat with the client's flags; a create makes the missing file.
OpenFd(t) ==
  LET f == Path(t)
      Got(i) == [fh EXCEPT ![th[t].handle] = [path |-> f, ino |-> i, access |-> "w"]]
      Done == [th EXCEPT ![t] = Idle]
  IN /\ AtPc(t, "open_fd")
     /\ \/ Exists(f) /\ Host(dir, ino, Got(dir[f]), Done)
        \/ /\ IoErrors \/ (~Exists(f) /\ th[t].op = "open")
           /\ Host(dir, ino, fh, Done)
        \/ /\ ~Exists(f) /\ th[t].op = "create"
           /\ \E i \in Inodes :
                /\ NextInode(i)
                /\ Host([dir EXCEPT ![f] = i], [ino EXCEPT ![i] = Empty], Got(i), Done)
     /\ UNCHANGED <<lockdir, phase, todo, kills>>

-----------------------------------------------------------------------------
(* Garbage collection of one repository item, after a broken link           *)
(* (MaybeGcAfterHardlinkBreakForTarget, under the lock of the path) and     *)
(* after an unlink (without a lock).                                        *)

\* GetRepoItemPath: reads the file to name its item; ReadFromFile aborts
\* the daemon when the file cannot be opened (a failure for another reason
\* than a missing file ends it as Kill does).
GetRepoItemPath(t) ==
  /\ th[t].pc \in {"gc_read", "unlink_read"}
  /\ \/ ~Exists(Path(t)) /\ Abort
     \/ /\ Exists(Path(t))
        /\ Step(t, [th[t] EXCEPT !.key = ino[dir[Path(t)]],
                                 !.pc = IF @ = "gc_read" THEN "gc_lstat" ELSE "unlink_file"])
        /\ UNCHANGED <<host, lockdir, phase, todo, fh, kills>>

\* Where GarbageCollectOneRepoFile returns to: MaybeBreakHardlink, or the
\* end of Unlink.
AfterGc(t) == IF th[t].op = "unlink" THEN Idle ELSE Return(t, "true")

GcLstat(t) ==
  /\ AtPc(t, "gc_lstat")
  /\ Step(t, IF th[t].ret = "true" /\ SoleLink(th[t].key)
             THEN [th[t] EXCEPT !.pc = "gc_unlink"] ELSE AfterGc(t))
  /\ UNCHANGED <<host, lockdir, phase, todo, fh, kills>>

\* unlink(2) of the item; ENOENT is fine.
GcUnlink(t) ==
  /\ AtPc(t, "gc_unlink")
  /\ Host(UnlinkEntry(th[t].key), ino, fh, [th EXCEPT ![t] = AfterGc(t)])
  /\ UNCHANGED <<lockdir, phase, todo, kills>>

Unlink(t, f) ==
  /\ "unlink" \in ClientOps
  /\ th[t] = Idle
  /\ ExclusiveOk(f)
  /\ Exists(f)
  /\ ~OpenOn(f) /\ ~Running(f, {"release"})
  /\ Step(t, [Idle EXCEPT !.pc = "unlink_read", !.op = "unlink", !.path = f])
  /\ UNCHANGED <<host, lockdir, phase, todo, fh, kills>>

\* mutant: no garbage collection after an unlink
UnlinkFileNoGc(t) ==
  /\ AtPc(t, "unlink_file")
  /\ Host(UnlinkEntry(Path(t)), ino, fh, [th EXCEPT ![t] = Idle])
  /\ UNCHANGED <<lockdir, phase, todo, kills>>

UnlinkFile(t) ==
  /\ AtPc(t, "unlink_file")
  /\ Host(UnlinkEntry(Path(t)), ino, fh, [th EXCEPT ![t] = [@ EXCEPT !.pc = "gc_lstat"]])
  /\ UNCHANGED <<lockdir, phase, todo, kills>>

-----------------------------------------------------------------------------
(* Release, and FindOutRepoAndMaybeHardlink, which it shares with the jobs  *)
(* of HardlinkTree.                                                         *)

\* mutant: the dedupe runs before the handle is closed
ReleaseBeforeClose(t, h) ==
  /\ phase = "mounted"
  /\ th[t] = Idle
  /\ fh[h] # None
  /\ Step(t, [Idle EXCEPT !.pc = "link_lock", !.op = "release", !.path = fh[h].path])
  /\ UNCHANGED <<host, lockdir, phase, todo, fh, kills>>

\* close(2), then the dedupe if the handle could have written.
Release(t, h) ==
  /\ phase = "mounted"
  /\ th[t] = Idle
  /\ fh[h] # None
  /\ Host(dir, ino, [fh EXCEPT ![h] = None],
          [th EXCEPT ![t] =
             IF fh[h].access = "w"
             THEN [Idle EXCEPT !.pc = "link_lock", !.op = "release", !.path = fh[h].path]
             ELSE Idle])
  /\ UNCHANGED <<lockdir, phase, todo, kills>>

\* ReadFromFile under the lock; it aborts when the path is gone.
LinkRead(t) ==
  /\ AtPc(t, "link_read")
  /\ \/ ~Exists(Path(t)) /\ Abort
     \/ /\ Exists(Path(t))
        /\ Step(t, [th[t] EXCEPT !.key = ino[dir[Path(t)]], !.pc = "link_lstat"])
        /\ UNCHANGED <<host, lockdir, phase, todo, fh, kills>>

\* mutant: the two directions of HardlinkOneFile are swapped
LinkLstatSwapped(t) ==
  /\ AtPc(t, "link_lstat")
  /\ Step(t, [th[t] EXCEPT !.dest = IF Exists(th[t].key) THEN th[t].key ELSE Path(t),
                           !.pc = "link_same"])
  /\ UNCHANGED <<host, lockdir, phase, todo, fh, kills>>

\* mutant: the file always becomes the item
LinkLstatAlwaysNew(t) ==
  /\ AtPc(t, "link_lstat")
  /\ Step(t, [th[t] EXCEPT !.dest = th[t].key, !.pc = "link_same"])
  /\ UNCHANGED <<host, lockdir, phase, todo, fh, kills>>

\* Without an item of that content the file becomes the item, else the item
\* replaces the file.
LinkLstat(t) ==
  /\ AtPc(t, "link_lstat")
  /\ Step(t, [th[t] EXCEPT !.dest = IF Exists(th[t].key) THEN Path(t) ELSE th[t].key,
                           !.pc = "link_same"])
  /\ UNCHANGED <<host, lockdir, phase, todo, fh, kills>>

LinkSource(t) == IF th[t].dest = Path(t) THEN th[t].key ELSE Path(t)
LinkTmp(t) == <<th[t].dest, "of", t>>

\* HardlinkOneFile: nothing to do when both names are one inode already.
HardlinkSame(t) ==
  /\ AtPc(t, "link_same")
  /\ Step(t, IF Exists(th[t].dest) /\ dir[LinkSource(t)] = dir[th[t].dest]
             THEN Return(t, "true") ELSE [th[t] EXCEPT !.pc = "link_link"])
  /\ UNCHANGED <<host, lockdir, phase, todo, fh, kills>>

\* mutant: the destination is removed to make room for the link
HardlinkLinkRemoves(t) ==
  /\ AtPc(t, "link_link")
  /\ Host([dir EXCEPT ![LinkTmp(t)] = dir[LinkSource(t)], ![th[t].dest] = None], ino, fh,
          [th EXCEPT ![t] = IF Exists(LinkSource(t))
                            THEN [@ EXCEPT !.pc = "link_rename"] ELSE Return(t, "false")])
  /\ UNCHANGED <<lockdir, phase, todo, kills>>

\* mutant: the source is moved, not linked, to the temporary name
HardlinkLinkMoves(t) ==
  /\ AtPc(t, "link_link")
  /\ Host([dir EXCEPT ![LinkTmp(t)] = dir[LinkSource(t)], ![LinkSource(t)] = None], ino, fh,
          [th EXCEPT ![t] = IF Exists(LinkSource(t))
                            THEN [@ EXCEPT !.pc = "link_rename"] ELSE Return(t, "false")])
  /\ UNCHANGED <<lockdir, phase, todo, kills>>

\* linkat to the temporary name, which the constructor has emptied.
HardlinkLink(t) ==
  /\ AtPc(t, "link_link")
  /\ Host([dir EXCEPT ![LinkTmp(t)] = dir[LinkSource(t)]], ino, fh,
          [th EXCEPT ![t] = IF Exists(LinkSource(t))
                            THEN [@ EXCEPT !.pc = "link_rename"] ELSE Return(t, "false")])
  /\ UNCHANGED <<lockdir, phase, todo, kills>>

HardlinkRename(t) ==
  /\ AtPc(t, "link_rename")
  /\ Host(RenameEntry(LinkTmp(t), th[t].dest), ino, fh, [th EXCEPT ![t] = Return(t, "true")])
  /\ UNCHANGED <<lockdir, phase, todo, kills>>

\* The host refuses the link, or the rename and the destructor removes the
\* temporary name.
HardlinkFails(t) ==
  /\ IoErrors
  /\ th[t].pc \in {"link_link", "link_rename"}
  /\ Host(UnlinkEntry(LinkTmp(t)), ino, fh, [th EXCEPT ![t] = Return(t, "false")])
  /\ UNCHANGED <<lockdir, phase, todo, kills>>

\* ScopedTempFile: the unlinkat of the constructor, or after a failed rename
\* that of the destructor, fails otherwise than with ENOENT.
TempFails(t) ==
  /\ IoErrors
  /\ th[t].pc \in {"break_copy", "break_rename", "link_link", "link_rename"}
  /\ Abort

\* A call fails whose failure the code only passes on: the fstat of from_fd,
\* the read of a file that was opened, the mkdir for a new item, the unlink
\* of a file or of an item.  An unlink whose file cannot be read has no item
\* to collect; one that fails collects nevertheless.
HostFails(t) ==
  /\ IoErrors
  /\ th[t].pc \in {"break_stat", "gc_read", "unlink_read", "unlink_file", "gc_unlink",
                   "link_read", "link_lstat"}
  /\ AtPc(t, "break_stat") => th[t].from # None
  /\ AtPc(t, "link_lstat") => ~Exists(th[t].key)
  /\ th[t].pc \in {"gc_read", "unlink_read", "link_read"} => Exists(Path(t))
  /\ Step(t, CASE AtPc(t, "unlink_read") -> [th[t] EXCEPT !.pc = "unlink_file", !.ret = "false"]
               [] AtPc(t, "unlink_file") -> [th[t] EXCEPT !.pc = "gc_lstat"]
               [] AtPc(t, "gc_unlink") /\ th[t].op = "unlink" -> Idle
               [] OTHER -> Return(t, "false"))
  /\ UNCHANGED <<host, lockdir, phase, todo, fh, kills>>

-----------------------------------------------------------------------------
(* Operations that cowfs passes on to the host (ptfs_handler.cc); one       *)
(* system call each.                                                        *)

\* Open for reading skips MaybeBreakHardlink.
OpenRead(f, h) ==
  /\ "read" \in ClientOps
  /\ Admit(f)
  /\ Exists(f)
  /\ ~Running(f, {"create", "unlink"})
  /\ FreeHandle(h)
  /\ Host(dir, ino, [fh EXCEPT ![h] = [path |-> f, ino |-> dir[f], access |-> "r"]], th)
  /\ UNCHANGED <<lockdir, phase, todo, kills>>

\* Create for reading skips it too, and its release will not dedupe.
CreateRead(f, h) ==
  /\ "read" \in ClientOps
  /\ ExclusiveOk(f)
  /\ ~Exists(f)
  /\ FreeHandle(h)
  /\ \E i \in Inodes :
       /\ NextInode(i)
       /\ Host([dir EXCEPT ![f] = i], [ino EXCEPT ![i] = Empty],
               [fh EXCEPT ![h] = [path |-> f, ino |-> i, access |-> "r"]], th)
  /\ UNCHANGED <<lockdir, phase, todo, kills>>

Write(h, c) ==
  /\ phase = "mounted"
  /\ fh[h] # None
  /\ fh[h].access = "w"
  /\ Host(dir, [ino EXCEPT ![fh[h].ino] = c], fh, th)
  /\ UNCHANGED <<lockdir, phase, todo, kills>>

\* Truncate opens the path itself and shortens what it finds there.
Truncate(f) ==
  /\ "truncate" \in ClientOps
  /\ Admit(f)
  /\ Exists(f)
  /\ Host(dir, [ino EXCEPT ![dir[f]] = Empty], fh, th)
  /\ UNCHANGED <<lockdir, phase, todo, kills>>

Rename(f, g) ==
  /\ "rename" \in ClientOps
  /\ f # g
  /\ ExclusiveOk(f) /\ ExclusiveOk(g)
  /\ Exists(f)
  /\ ~OpenOn(g) /\ ~Running(g, {"release"})
  /\ Host(RenameEntry(f, g), ino, fh, th)
  /\ UNCHANGED <<lockdir, phase, todo, kills>>

Link(f, g) ==
  /\ "link" \in ClientOps
  /\ ExclusiveOk(f) /\ ExclusiveOk(g)
  /\ Exists(f)
  /\ ~Exists(g)
  /\ Host([dir EXCEPT ![g] = dir[f]], ino, fh, th)
  /\ UNCHANGED <<lockdir, phase, todo, kills>>

-----------------------------------------------------------------------------
(* main(): GcTree, HardlinkTree, fuse_main; and the end of the process.     *)

InRepo(n) == n \in Contents \/ (n \in TmpNames /\ n[1] \in Contents)

\* Removes every name in the repository that is the only link of its inode.
GcTree ==
  /\ phase = "gc"
  /\ phase' = "walk"
  /\ Host([n \in Names |-> IF InRepo(n) /\ SoleLink(n) THEN None ELSE dir[n]], ino, fh, th)
  /\ UNCHANGED <<lockdir, todo, kills>>

\* Deals the files with a single link out to the jobs, in turn.
HardlinkTree ==
  /\ phase = "walk"
  /\ phase' = "hardlink"
  /\ todo' \in [Threads -> SUBSET {f \in Files : SoleLink(f)}]
  /\ \A f \in Files : SoleLink(f) => \E t \in Threads : f \in todo'[t]
  /\ \A t, u \in Threads :
       t # u => /\ todo'[t] \cap todo'[u] = {}
                /\ Cardinality(todo'[t]) <= Cardinality(todo'[u]) + 1
  /\ UNCHANGED <<host, lockdir, th, fh, kills>>

\* mutant: the job does not advance
NextTaskAgain(t, f) ==
  /\ phase = "hardlink"
  /\ th[t] = Idle
  /\ f \in todo[t]
  /\ Step(t, [Idle EXCEPT !.pc = "link_lock", !.op = "startup", !.path = f])
  /\ UNCHANGED <<host, lockdir, phase, todo, fh, kills>>

\* A job takes its next file.
NextTask(t, f) ==
  /\ phase = "hardlink"
  /\ th[t] = Idle
  /\ f \in todo[t]
  /\ todo' = [todo EXCEPT ![t] = @ \ {f}]
  /\ Step(t, [Idle EXCEPT !.pc = "link_lock", !.op = "startup", !.path = f])
  /\ UNCHANGED <<host, lockdir, phase, fh, kills>>

\* The futures of the jobs are destroyed, which waits for every job.
FuseMain ==
  /\ phase = "hardlink"
  /\ todo = NoJobs
  /\ th = AllIdle
  /\ phase' = "mounted"
  /\ UNCHANGED <<host, lockdir, todo, th, fh, kills>>

Kill ==
  /\ phase \notin {"killed", "aborted"}
  /\ kills < MaxKills
  /\ Die("killed")
  /\ kills' = kills + 1
  /\ UNCHANGED lockdir

Restart ==
  /\ phase \in {"killed", "aborted"}
  /\ phase' = "gc"
  /\ UNCHANGED <<host, lockdir, todo, th, fh, kills>>

-----------------------------------------------------------------------------
(* Before the first mount the repository is empty and no two files share   *)
(* an inode.                                                                *)

FirstInode == CHOOSE m \in [Files -> Inodes] : IsInjective(m)

Init ==
  /\ \E present \in SUBSET Files :
       /\ dir = [n \in Names |-> IF n \in present THEN FirstInode[n] ELSE None]
       /\ ino \in [Inodes -> Contents]
       /\ \A i \in Inodes : ino[i] # Empty => \E f \in present : FirstInode[f] = i
  /\ lockdir = {}
  /\ phase = "gc"
  /\ todo = NoJobs
  /\ th = AllIdle
  /\ fh = NoHandles
  /\ kills = 0

\* The rest of a handler or job that has begun.
Proceed(t) ==
  \/ LockTake(t) \/ LockSpin(t) \/ Unlock(t)
  \/ BreakStat(t) \/ BreakCopy(t) \/ BreakCopyFails(t) \/ BreakCopyShort(t)
  \/ BreakRename(t) \/ BreakRenameFails(t) \/ OpenFd(t)
  \/ GetRepoItemPath(t) \/ GcLstat(t) \/ GcUnlink(t) \/ UnlinkFile(t)
  \/ LinkRead(t) \/ LinkLstat(t) \/ HardlinkSame(t) \/ HardlinkLink(t)
  \/ HardlinkRename(t) \/ HardlinkFails(t) \/ TempFails(t) \/ HostFails(t)

Startup ==
  \/ GcTree \/ HardlinkTree \/ FuseMain
  \/ \E t \in Threads, f \in Files : NextTask(t, f)

Client ==
  \/ \E t \in Threads, f \in Files, h \in Handles : Open(t, f, h) \/ Create(t, f, h)
  \/ \E t \in Threads, h \in Handles : Release(t, h)
  \/ \E t \in Threads, f \in Files : Unlink(t, f)
  \/ \E f \in Files, h \in Handles : OpenRead(f, h) \/ CreateRead(f, h)
  \/ \E h \in Handles, c \in Contents : Write(h, c)
  \/ \E f \in Files : Truncate(f)
  \/ \E f, g \in Files : Rename(f, g) \/ Link(f, g)

Next == Startup \/ Client \/ (\E t \in Threads : Proceed(t)) \/ Kill \/ Restart

Spec == Init /\ [][Next]_vars

\* A thread that runs keeps running; nothing is assumed of clients, of a
\* kill or of whoever restarts the daemon.
Fairness == WF_vars(Startup) /\ \A t \in Threads : WF_vars(Proceed(t))

FairSpec == Spec /\ Fairness

-----------------------------------------------------------------------------
(* Properties *)

Phases == {"gc", "walk", "hardlink", "mounted", "aborted", "killed"}

\* Every variable has its type: names are links to inodes, locks belong to
\* user paths, threads and handles are records of the handlers' locals.
TypeOK ==
  /\ dir \in [Names -> Inodes \cup {None}]
  /\ ino \in [Inodes -> Contents]
  /\ lockdir \subseteq Files
  /\ phase \in Phases
  /\ todo \in [Threads -> SUBSET Files]
  /\ th \in [Threads -> ThreadState]
  /\ fh \in [Handles -> Handle \cup {None}]
  /\ kills \in 0 .. MaxKills

\* A thread in state s is between the mkdir(2) and the rmdir(2) of its lock.
Scoped(s) ==
  /\ s.op \in {"open", "create", "release", "startup"}
  /\ s.pc \in Pcs \ {"idle", "break_lock", "link_lock", "open_fd"}

InScope(t) == Scoped(th[t])

\* The mkdir lock is a mutex: two threads are never both inside
\* MaybeBreakHardlink or FindOutRepoAndMaybeHardlink of one path, and the
\* lock directory of a path someone works on exists (also when an earlier
\* daemon was killed inside).
LockExclusive ==
  \A t \in Threads :
    InScope(t) =>
      /\ Path(t) \in lockdir
      /\ \A u \in Threads : InScope(u) /\ Path(u) = Path(t) => u = t

\* No step of the daemon, no crash and no interleaving removes a user file:
\* a name disappears only by the unlink or the rename the client asked for.
\* This is what renaming over the target (instead of unlinking and linking)
\* in HardlinkOneFile and MaybeBreakHardlink is for.
KeepsFiles ==
  \A f \in Files :
    Exists(f) /\ ~Exists(f)' =>
      \/ \E t \in Threads : UnlinkFile(t) /\ Path(t) = f
      \/ \E g \in Files : Rename(f, g)
FilesKept == [][KeepsFiles]_vars

\* With clients that use one path at a time the dedupe is invisible: cowfs
\* behaves like a plain file system, crashes included.
Plain == INSTANCE PlainFs
           WITH content <- [f \in Files |-> Content(f)],
                writer <- [h \in Handles |->
                             IF fh[h] # None /\ fh[h].access = "w" THEN fh[h].path ELSE None]
PlainSpec == Plain!Spec

\* A repository item holds the content it is named after: nobody writes to
\* an inode that has a name in the repository.
RepoIntact == \A c \in Contents : Exists(c) => ino[dir[c]] = c

\* A file that is open for writing is not deduped: the handle, the path and
\* nothing else refer to the inode.
WriterAlone ==
  \A h \in Handles :
    fh[h] # None /\ fh[h].access = "w" =>
      /\ dir[fh[h].path] = fh[h].ino
      /\ ~Shared(fh[h].ino)

\* The daemon never hits an abort() or a failed assert.
NoAbort == phase # "aborted"

Quiet == phase = "mounted" /\ th = AllIdle

\* cowfs_test.sh:69 "Make sure temp files don't remain after all the
\* operations."
NoTempLeft == Quiet => \A n \in TmpNames : ~Exists(n)

\* When no handler runs, every repository item is linked to a user file: the
\* per-file garbage collection misses nothing (cowfs.cc:171-172 "Remove it
\* if so, that we don't need to wait until global GC"), although it checks
\* and removes in two steps and without a lock on the repository.
NoGarbage == Quiet => \A c \in Contents : Exists(c) => \E f \in Files : dir[f] = dir[c]

\* When no handler runs, files of equal content that nobody has open are
\* links to one inode (cowfs.cc:4 "hard-links same file based on content"),
\* empty ones apart: a file that was created for reading is never looked at.
Deduped ==
  Quiet => \A f, g \in Files :
             /\ Exists(f) /\ Exists(g) /\ ~OpenOn(f) /\ ~OpenOn(g)
             /\ Content(f) = Content(g) /\ Content(f) # Empty
             => dir[f] = dir[g]

\* cowfs.cc:187-188 "one file can be modified while leaving the other
\* intact": a write to one file changes no other file.
OthersIntact ==
  [][\A h \in Handles, c \in Contents :
       Write(h, c) => \A g \in Files \ {fh[h].path} : Content(g)' = Content(g)]_vars

\* cowfs.cc:195 "File not existing is okay, O_CREAT maybe specified.": a
\* missing file alone never makes MaybeBreakHardlink fail.
MissingIsOkay ==
  \A t \in Threads :
    AtPc(t, "unlock") /\ th[t].op = "create" /\ th[t].from = None => th[t].ret = "true"

\* cowfs.cc:290 "This is an offline process at startup not running as a
\* daemon, so this can fail with an error message.": the startup ends, one
\* way or the other.
StartupEnds == (phase = "gc") ~> (phase \in {"mounted", "aborted", "killed"})

\* Every handler that has begun returns.
HandlersReturn == \A t \in Threads : (th[t].pc # "idle") ~> (th[t].pc = "idle")
=============================================================================
