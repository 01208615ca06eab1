------------------------------ MODULE BlobCache ------------------------------
(***************************************************************************)
(* The blobs of gitlstree and git-githubfs: the file system's FileElements *)
(* over the file-backed Cache they share.                                  *)
(*                                                                         *)
(* Every FileElement has a mutex, buf_mutex_, held for a whole handler,    *)
(* and a pointer memory_ into the cache.  Cache::get maps a blob from the  *)
(* cache directory, fetching it first when it is not there; it gives its   *)
(* own mutex_ up during the fetch.  The directory outlives the process.    *)
(*                                                                         *)
(* A file is what a reader of it can tell: "none", "partial" or "whole".   *)
(* Whatever is done with mutex_ held is seen by the other threads as one   *)
(* step, but a kill falls between the writes to the directory, so these    *)
(* are steps of their own.                                                 *)
(***************************************************************************)
EXTENDS Integers, FiniteSets

CONSTANTS
  Blobs,        \* names of blobs
  EmptyBlobs,   \* those of size 0, which mmap refuses
  Elements,     \* FileElements, several may have one blob
  Symlinks,     \* the elements that are symbolic links
  Sha,          \* sha1_ of an element
  Threads,      \* threads of libfuse
  None,
  Githubfs,     \* the FileElement of git-githubfs, or that of gitlstree
  IoErrors,     \* the disk and the fetch may fail
  MaxOpens,     \* bound on the open handles of an element
  MaxKills      \* bound on the times the process ends

ASSUME CacheAssumption ==
  /\ EmptyBlobs \subseteq Blobs
  /\ Symlinks \subseteq Elements
  /\ Sha \in [Elements -> Blobs]
  /\ None \notin Threads \cup Blobs \cup Elements
  /\ Githubfs \in BOOLEAN /\ IoErrors \in BOOLEAN
  /\ MaxOpens \in Nat /\ MaxKills \in Nat

VARIABLES
  file,     \* the cache directory: the file of a blob
  tmp,      \*   and its temporary file
  mapped,   \* mapped_files_, the content mapped for a blob
  mutex,    \* the thread holding Cache::mutex_, or None
  buf,      \* the thread holding an element's buf_mutex_, or None
  memory,   \* memory_ of an element: the entry it points to, or None
  opens,    \* open handles of an element
  th,       \* per thread: program counter, operation and element
  phase,    \* of the process
  kills

disk == <<file, tmp>>
cache == <<mapped, mutex>>
vars == <<file, tmp, mapped, mutex, buf, memory, opens, th, phase, kills>>

Files == {"none", "partial", "whole"}
Phases == {"start", "mounted", "aborted", "exited"}
Ops == {"open", "read", "readlink", "release"}
Pcs == {"idle", "lock", "get", "fetch", "relock", "write", "rename", "map",
        "failed", "copy", "drop", "return"}

ThreadState == [pc : Pcs, op : Ops, elem : Elements \cup {None}]
Idle == [pc |-> "idle", op |-> "open", elem |-> None]

Init ==
  /\ file = [b \in Blobs |-> "none"]
  /\ tmp = [b \in Blobs |-> "none"]
  /\ mapped = [b \in Blobs |-> "none"]
  /\ mutex = None
  /\ buf = [e \in Elements |-> None]
  /\ memory = [e \in Elements |-> None]
  /\ opens = [e \in Elements |-> 0]
  /\ th = [t \in Threads |-> Idle]
  /\ phase = "start"
  /\ kills = 0

Elem(t) == th[t].elem
Blob(t) == Sha[Elem(t)]
AtPc(t, pc) == th[t].pc = pc
Goto(t, pc) == th' = [th EXCEPT ![t].pc = pc]

\* The process ends: what is in memory is gone, the directory stays.
Die(how) ==
  /\ mapped' = [b \in Blobs |-> "none"]
  /\ mutex' = None
  /\ buf' = [e \in Elements |-> None]
  /\ memory' = [e \in Elements |-> None]
  /\ opens' = [e \in Elements |-> 0]
  /\ th' = [t \in Threads |-> Idle]
  /\ phase' = how

Abort == Die("aborted") /\ UNCHANGED <<disk, kills>>

-----------------------------------------------------------------------------
(* The cache.                                                              *)

\* The constructor and Gc: files not read for 60 days go.  Only names of 38
\* characters are considered, so a temporary file (42) never does.  The
\* flock keeps other processes out of the directory until this one ends.
Mount ==
  /\ phase = "start"
  /\ \E old \in SUBSET Blobs :
       file' = [b \in Blobs |-> IF b \in old THEN "none" ELSE file[b]]
  /\ phase' = "mounted"
  /\ UNCHANGED <<tmp, cache, buf, memory, opens, th, kills>>

\* Mutant: the bytes instead of the entry.
GotBytes(t) ==
  /\ memory' = [memory EXCEPT ![Elem(t)] = "whole"]
  /\ Goto(t, IF th[t].op = "read" THEN "copy" ELSE "return")

\* get returns the entry, and maybe_cat_file_locked stores it.
Got(t) ==
  /\ memory' = [memory EXCEPT ![Elem(t)] = Blob(t)]
  /\ Goto(t, IF th[t].op = "read" THEN "copy" ELSE "return")

\* Mutant: the mapping is not entered in mapped_files_.
MapFilePrivate(t, content) ==
  /\ Got(t)
  /\ UNCHANGED mapped

\* mmap the file and emplace: an entry that is there already stays.
MapFile(t, content) ==
  \/ /\ Blob(t) \in EmptyBlobs \/ IoErrors
     /\ Goto(t, "failed")
     /\ UNCHANGED <<mapped, memory>>
  \/ /\ Blob(t) \notin EmptyBlobs
     /\ mapped' = [mapped EXCEPT ![Blob(t)] = IF @ = "none" THEN content ELSE @]
     /\ Got(t)

\* Under mutex_: the entry, or the file, or a fetch without the mutex.  The
\* assertions that may fail instead are in GetAborts.
GetLocked(t) ==
  /\ AtPc(t, "get")
  /\ mutex = None
  /\ \/ /\ mapped[Blob(t)] # "none"
        /\ Got(t)
        /\ UNCHANGED mapped
     \/ /\ mapped[Blob(t)] = "none"
        /\ file[Blob(t)] # "none"
        /\ MapFile(t, file[Blob(t)])
     \/ /\ mapped[Blob(t)] = "none"
        /\ file[Blob(t)] = "none"
        /\ Goto(t, "fetch")
        /\ UNCHANGED <<mapped, memory>>
     \/ /\ mapped[Blob(t)] = "none"     \* mkdir fails
        /\ IoErrors
        /\ Goto(t, "failed")
        /\ UNCHANGED <<mapped, memory>>
  /\ UNCHANGED <<disk, mutex, buf, opens, phase, kills>>

\* The fetch callback: git cat-file, or curl and ParseBlob.  Both end the
\* process when they do not get the blob.
Fetch(t) ==
  /\ AtPc(t, "fetch")
  /\ \/ /\ Goto(t, "relock")
        /\ UNCHANGED <<disk, cache, buf, memory, opens, phase, kills>>
     \/ IoErrors /\ Abort

\* Mutant: the mutex is not taken again after the fetch.
RelockUnlocked(t) ==
  /\ AtPc(t, "relock")
  /\ \/ /\ mapped[Blob(t)] # "none"
        /\ Got(t)
        /\ UNCHANGED <<tmp, mutex>>
     \/ /\ mapped[Blob(t)] = "none"
        /\ tmp' = [tmp EXCEPT ![Blob(t)] = "partial"]
        /\ Goto(t, "write")
        /\ UNCHANGED <<mutex, memory>>
  /\ UNCHANGED <<file, mapped, buf, opens, phase, kills>>

\* The re-check under mutex_, then a fresh temporary file: the old one is
\* unlinked and O_EXCL creates it.
Relock(t) ==
  /\ AtPc(t, "relock")
  /\ mutex = None
  /\ \/ /\ mapped[Blob(t)] # "none"
        /\ Got(t)
        /\ UNCHANGED <<tmp, mutex>>
     \/ /\ mapped[Blob(t)] = "none"
        /\ tmp' = [tmp EXCEPT ![Blob(t)] = "partial"]
        /\ mutex' = t
        /\ Goto(t, "write")
        /\ UNCHANGED memory
     \/ /\ mapped[Blob(t)] = "none"     \* open fails
        /\ IoErrors
        /\ tmp' = [tmp EXCEPT ![Blob(t)] = "none"]
        /\ Goto(t, "failed")
        /\ UNCHANGED <<mutex, memory>>
  /\ UNCHANGED <<file, mapped, buf, opens, phase, kills>>

\* write; a short one fails the assertion.
WriteTmp(t) ==
  /\ AtPc(t, "write")
  /\ \/ /\ tmp' = [tmp EXCEPT ![Blob(t)] = "whole"]
        /\ Goto(t, "rename")
        /\ UNCHANGED <<file, cache, buf, memory, opens, phase, kills>>
     \/ IoErrors /\ Abort

\* The rename that publishes the file; the descriptor stays with it.
RenameTmp(t) ==
  /\ AtPc(t, "rename")
  /\ \/ /\ tmp[Blob(t)] # "none"
        /\ file' = [file EXCEPT ![Blob(t)] = tmp[Blob(t)]]
        /\ tmp' = [tmp EXCEPT ![Blob(t)] = "none"]
        /\ Goto(t, "map")
        /\ UNCHANGED <<cache, buf, memory, opens, phase, kills>>
     \/ (IoErrors \/ tmp[Blob(t)] = "none") /\ Abort

\* The end of get after a fetch: fstat, mmap, emplace, unlock.
MapFetched(t) ==
  /\ AtPc(t, "map")
  /\ MapFile(t, file[Blob(t)])
  /\ mutex' = None
  /\ UNCHANGED <<disk, buf, opens, phase, kills>>

\* The assertions of get: open may fail for another reason than that there is
\* no file, and fstat may fail, for the file that was found as for the one
\* that was fetched.
GetAborts(t) ==
  /\ \/ AtPc(t, "get") /\ mutex = None /\ mapped[Blob(t)] = "none"
     \/ AtPc(t, "map")
  /\ IoErrors
  /\ Abort

\* Mutant: the condition the comment suggests: an entry that is found is
\* erased, after the assertion that it is the one released.
DropErases(t) ==
  /\ AtPc(t, "drop")
  /\ mutex = None
  /\ \/ /\ mapped[Blob(t)] = "none" \/ memory[Elem(t)] # None
        /\ mapped' = [mapped EXCEPT ![Blob(t)] = "none"]
        /\ memory' = [memory EXCEPT ![Elem(t)] = None]
        /\ Goto(t, "return")
        /\ UNCHANGED <<disk, mutex, buf, opens, phase, kills>>
     \/ mapped[Blob(t)] # "none" /\ memory[Elem(t)] = None /\ Abort

\* Cache::release, as git-githubfs calls it: an entry that is found is left
\* alone; one that is not dereferences end(), where the assertion fails.
Drop(t) ==
  /\ AtPc(t, "drop")
  /\ mutex = None
  /\ \/ /\ mapped[Blob(t)] # "none"
        /\ memory' = [memory EXCEPT ![Elem(t)] = None]
        /\ Goto(t, "return")
        /\ UNCHANGED <<disk, cache, buf, opens, phase, kills>>
     \/ mapped[Blob(t)] = "none" /\ Abort

-----------------------------------------------------------------------------
(* The handlers of a FileElement.                                          *)

\* Handlers under way on an element.
Under(e, op) == {t \in Threads : th[t].pc # "idle" /\ th[t].elem = e /\ th[t].op = op}

\* What the kernel sends: reads and the release of a handle that is open,
\* the release only when the reads of that handle are over.
Admitted(op, e) ==
  CASE op = "open" -> e \notin Symlinks /\ opens[e] + Cardinality(Under(e, "open")) < MaxOpens
    [] op = "read" -> opens[e] > Cardinality(Under(e, "read")) + Cardinality(Under(e, "release"))
    [] op = "release" -> opens[e] > Cardinality(Under(e, "read")) + Cardinality(Under(e, "release"))
    [] op = "readlink" -> e \in Symlinks

Call(t, op, e) ==
  /\ phase = "mounted"
  /\ th[t] = Idle
  /\ Admitted(op, e)
  /\ th' = [th EXCEPT ![t] = [pc |-> "lock", op |-> op, elem |-> e]]
  /\ UNCHANGED <<disk, cache, buf, memory, opens, phase, kills>>

\* Mutant: a read of gitlstree trusts memory_, as that of git-githubfs does.
AfterLockTrusting(t) ==
  IF th[t].op = "release" THEN IF Githubfs THEN "drop" ELSE "return"
  ELSE IF memory[Elem(t)] # None THEN IF th[t].op = "read" THEN "copy" ELSE "return"
  ELSE IF th[t].op = "read" THEN "return" ELSE "get"

\* Where a handler goes once it has buf_mutex_: maybe_cat_file_locked does
\* nothing if memory_ is set.  A read of git-githubfs fails (-1) if it is
\* not; that of gitlstree fetches again.
AfterLock(t) ==
  IF th[t].op = "release" THEN IF Githubfs THEN "drop" ELSE "return"
  ELSE IF memory[Elem(t)] # None THEN IF th[t].op = "read" THEN "copy" ELSE "return"
  ELSE IF Githubfs /\ th[t].op = "read" THEN "return" ELSE "get"

\* lock_guard on buf_mutex_; gitlstree's Release only clears memory_.
Lock(t) ==
  /\ AtPc(t, "lock")
  /\ buf[Elem(t)] = None
  /\ buf' = [buf EXCEPT ![Elem(t)] = t]
  /\ Goto(t, AfterLock(t))
  /\ memory' = IF th[t].op = "release" /\ ~Githubfs
               THEN [memory EXCEPT ![Elem(t)] = None]
               ELSE memory
  /\ UNCHANGED <<disk, cache, opens, phase, kills>>

\* get returned nullptr: gitlstree aborts.  git-githubfs returns -EIO, which
\* fs_open drops: the handle is open all the same.
GetFailed(t) ==
  /\ AtPc(t, "failed")
  /\ \/ ~Githubfs /\ Abort
     \/ /\ Githubfs
        /\ Goto(t, "return")
        /\ UNCHANGED <<disk, cache, buf, memory, opens, phase, kills>>

\* The memcpy of Read.
Copy(t) ==
  /\ AtPc(t, "copy")
  /\ Goto(t, "return")
  /\ UNCHANGED <<disk, cache, buf, memory, opens, phase, kills>>

\* Mutant: a release keeps buf_mutex_.
ReturnLocked(t) ==
  /\ AtPc(t, "return")
  /\ buf' = IF th[t].op = "release" THEN buf ELSE [buf EXCEPT ![Elem(t)] = None]
  /\ opens' = [opens EXCEPT ![Elem(t)] =
                 CASE th[t].op = "open" -> @ + 1
                   [] th[t].op = "release" -> @ - 1
                   [] OTHER -> @]
  /\ th' = [th EXCEPT ![t] = Idle]
  /\ UNCHANGED <<disk, cache, memory, phase, kills>>

\* The handler unlocks buf_mutex_ and returns; fs_open always succeeds.
Return(t) ==
  /\ AtPc(t, "return")
  /\ buf' = [buf EXCEPT ![Elem(t)] = None]
  /\ opens' = [opens EXCEPT ![Elem(t)] =
                 CASE th[t].op = "open" -> @ + 1
                   [] th[t].op = "release" -> @ - 1
                   [] OTHER -> @]
  /\ th' = [th EXCEPT ![t] = Idle]
  /\ UNCHANGED <<disk, cache, memory, phase, kills>>

-----------------------------------------------------------------------------

\* The process is killed, or unmounted, and started again.
Kill ==
  /\ phase = "mounted"
  /\ kills < MaxKills
  /\ kills' = kills + 1
  /\ Die("exited")
  /\ UNCHANGED disk

Restart ==
  /\ phase \in {"aborted", "exited"}
  /\ phase' = "start"
  /\ UNCHANGED <<disk, cache, buf, memory, opens, th, kills>>

\* A step of a running handler.
Proceed(t) ==
  \/ Lock(t) \/ GetLocked(t) \/ Fetch(t) \/ Relock(t) \/ WriteTmp(t)
  \/ RenameTmp(t) \/ MapFetched(t) \/ GetAborts(t) \/ GetFailed(t) \/ Drop(t) \/ Copy(t)
  \/ Return(t)

Next ==
  \/ Mount \/ Kill \/ Restart
  \/ \E t \in Threads : Proceed(t)
  \/ \E t \in Threads, op \in Ops, e \in Elements : Call(t, op, e)

Spec == Init /\ [][Next]_vars

\* A thread of libfuse keeps running, gets a mutex that becomes free again
\* and again, and a fetch ends.  The kernel need send nothing.
Fairness ==
  /\ WF_vars(Mount)
  /\ \A t \in Threads : SF_vars(Proceed(t))

FairSpec == Spec /\ Fairness

-----------------------------------------------------------------------------

\* Every component of the state has its type.
TypeOK ==
  /\ file \in [Blobs -> Files]
  /\ tmp \in [Blobs -> Files]
  /\ mapped \in [Blobs -> Files]
  /\ mutex \in Threads \cup {None}
  /\ buf \in [Elements -> Threads \cup {None}]
  /\ memory \in [Elements -> Blobs \cup {None}]
  /\ opens \in [Elements -> Int]
  /\ th \in [Threads -> ThreadState]
  /\ phase \in Phases
  /\ kills \in Nat

\* A blob is served whole or not at all: neither the cache directory, which
\* the next process trusts without a look at it, nor a mapping ever holds
\* part of a blob, whatever the kill interrupts and whoever fetches the same
\* blob at the same time.
CacheIntact ==
  \A b \in Blobs : file[b] # "partial" /\ mapped[b] # "partial"

\* memory_ never dangles: the entry a FileElement points to stays mapped,
\* although other handles and other elements with the same blob release it.
PointersValid ==
  \A e \in Elements : memory[e] # None => memory[e] = Sha[e] /\ mapped[Sha[e]] # "none"

\* A read of an open file never finds memory_ cleared when it wants to
\* answer, although another handle's release clears it ("If file content is
\* read, this should be populated").
ReadServed ==
  \A t \in Threads : AtPc(t, "return") /\ th[t].op = "read" => memory[Elem(t)] # None

\* What get publishes is whole: the temporary file it is about to rename and
\* the file it is about to map are the blob it has written, although the
\* mutex was given up for the fetch and another thread may have fetched the
\* same blob (the assertions on write and rename rely on it).
PublishesWhole ==
  \A t \in Threads : /\ th[t].pc = "rename" => tmp[Blob(t)] = "whole"
                     /\ th[t].pc = "map" => file[Blob(t)] = "whole"

\* Every handler returns, or the process ends: the handlers hold buf_mutex_
\* while they wait for mutex_ and for the fetch, and nobody waits for ever.
HandlersReturn == \A t \in Threads : th[t] # Idle ~> th[t] = Idle
=============================================================================
