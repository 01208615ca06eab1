--------------------------- MODULE BlobCacheProofs ---------------------------
(***************************************************************************)
(* For every set of blobs, elements and threads, for both file systems,    *)
(* with failing disks and kills: the state is typed, the cache directory   *)
(* and the mappings only hold whole blobs, and memory_ never dangles.      *)
(***************************************************************************)
EXTENDS BlobCache, TLAPS

LockedPcs == {"write", "rename", "map"}

\* A handler has an element.
Engaged == \A t \in Threads : th[t].pc # "idle" => th[t].elem \in Elements

\* Only the holder of mutex_ touches the files.
Holds == \A t \in Threads : th[t].pc \in LockedPcs => mutex = t

\* No handler runs before the mount.
Stopped == phase # "mounted" => \A t \in Threads : th[t].pc = "idle"

Typed == TypeOK /\ Engaged
Inv == Typed /\ Holds /\ PublishesWhole /\ Stopped /\ CacheIntact /\ PointersValid

\* What a step of t alone does to th.
Moved(t, p) ==
  /\ th' \in [Threads -> ThreadState]
  /\ th'[t].pc = p /\ th'[t].op = th[t].op /\ th'[t].elem = th[t].elem
  /\ \A u \in Threads : u # t => th'[u] = th[u]

LEMMA GotoMoves ==
  ASSUME TypeOK, NEW t \in Threads, NEW p \in Pcs, Goto(t, p)
  PROVE  Moved(t, p)
<1>1. th[t] \in ThreadState
  BY DEF TypeOK
<1>2. [th[t] EXCEPT !.pc = p] \in ThreadState
  BY <1>1 DEF ThreadState
<1> QED
  BY <1>1, <1>2 DEF TypeOK, Goto, Moved, ThreadState

LEMMA IdleTyped ==
  /\ Idle \in ThreadState /\ Idle.pc = "idle"
  /\ "idle" \notin LockedPcs
BY DEF Idle, ThreadState, Pcs, Ops, LockedPcs

LEMMA MovedEngaged ==
  ASSUME Typed, NEW t \in Threads, NEW p, Moved(t, p), th[t].pc # "idle"
  PROVE  Engaged'
BY DEF Typed, Engaged, Moved

\* The program counters, so that the set need not be expanded.
LEMMA PcNames ==
  /\ "fetch" \in Pcs /\ "relock" \in Pcs /\ "write" \in Pcs /\ "rename" \in Pcs
  /\ "map" \in Pcs /\ "failed" \in Pcs /\ "copy" \in Pcs /\ "drop" \in Pcs
  /\ "return" \in Pcs /\ "get" \in Pcs /\ "lock" \in Pcs
BY DEF Pcs

LEMMA AfterLockPc == \A t : AfterLock(t) \in {"drop", "return", "copy", "get"}
BY DEF AfterLock

\* The end of the process keeps everything: the directory is not touched.
LEMMA DieInv ==
  ASSUME Inv, NEW how \in Phases \ {"mounted"}, Die(how), UNCHANGED disk, kills' \in Nat
  PROVE  Inv'
<1>1. TypeOK'
  BY IdleTyped, CacheAssumption DEF Inv, Typed, TypeOK, Die, disk, Files
<1>2. \A t \in Threads : th'[t].pc = "idle"
  BY IdleTyped DEF Die
<1>3. CacheIntact' /\ PointersValid'
  BY DEF Inv, CacheIntact, PointersValid, Die, disk
<1> QED
  BY <1>1, <1>2, <1>3, IdleTyped DEF Inv, Typed, Engaged, Holds, PublishesWhole, Stopped

LEMMA AbortInv ==
  ASSUME Inv, Abort
  PROVE  Inv'
<1>1. kills' \in Nat /\ "aborted" \in Phases \ {"mounted"}
  BY DEF Inv, Typed, TypeOK, Abort, Phases
<1> QED
  BY <1>1, DieInv DEF Abort

\* The part of the invariant about the cache's contents and the pointers.
Data == CacheIntact /\ PointersValid
\* The part about threads and locks.
Control == Engaged /\ Holds /\ PublishesWhole /\ Stopped

\* A handler's step that leaves the files alone and does not end in the
\* section that holds mutex_.
LEMMA QuietControl ==
  ASSUME Inv, NEW t \in Threads, NEW p, Moved(t, p), th[t].pc # "idle",
         p \notin LockedPcs, UNCHANGED <<file, tmp, phase>>,
         mutex' = mutex \/ mutex = t
  PROVE  Control'
<1>1. Engaged'
  BY MovedEngaged DEF Inv
<1>2. Holds'
  BY DEF Inv, Holds, Moved, LockedPcs
<1>3. PublishesWhole'
  BY DEF Inv, PublishesWhole, Moved, LockedPcs, Blob, Elem
<1>4. Stopped'
  BY DEF Inv, Stopped
<1> QED
  BY <1>1, <1>2, <1>3, <1>4 DEF Control

\* The element of a handler and its blob.
LEMMA ElemTyped ==
  ASSUME Inv, NEW t \in Threads, th[t].pc # "idle"
  PROVE  Elem(t) \in Elements /\ Blob(t) \in Blobs /\ Blob(t) = Sha[Elem(t)]
BY CacheAssumption DEF Inv, Typed, Engaged, Elem, Blob

LEMMA GotData ==
  ASSUME Inv, NEW t \in Threads, th[t].pc # "idle", Got(t), file' = file,
         mapped' \in [Blobs -> Files], mapped'[Blob(t)] # "none",
         \A b \in Blobs : mapped'[b] # "partial" /\ (mapped[b] # "none" => mapped'[b] # "none")
  PROVE  /\ memory' \in [Elements -> Blobs \cup {None}] /\ Data'
         /\ \E p \in {"copy", "return"} : Moved(t, p)
<1>1. Elem(t) \in Elements /\ Blob(t) \in Blobs /\ Blob(t) = Sha[Elem(t)]
  BY ElemTyped
<1>2. memory' = [memory EXCEPT ![Elem(t)] = Blob(t)]
  BY DEF Got
<1>3. memory' \in [Elements -> Blobs \cup {None}]
  BY <1>1, <1>2 DEF Inv, Typed, TypeOK
<1>4. CacheIntact'
  BY DEF Inv, CacheIntact
<1>5. PointersValid'
  <2> SUFFICES ASSUME NEW e \in Elements, memory'[e] # None
               PROVE  memory'[e] = Sha[e] /\ mapped'[Sha[e]] # "none"
    BY DEF PointersValid
  <2>1. Sha[e] \in Blobs
    BY CacheAssumption
  <2>2. CASE e = Elem(t)
    BY <1>1, <1>2, <2>2 DEF Inv, Typed, TypeOK
  <2>3. CASE e # Elem(t)
    BY <1>1, <1>2, <2>1, <2>3 DEF Inv, Typed, TypeOK, PointersValid
  <2> QED
    BY <2>2, <2>3
<1>6. \E p \in {"copy", "return"} : Moved(t, p)
  <2>1. CASE th[t].op = "read"
    BY <2>1, GotoMoves, PcNames DEF Got, Inv, Typed
  <2>2. CASE th[t].op # "read"
    BY <2>2, GotoMoves, PcNames DEF Got, Inv, Typed
  <2> QED
    BY <2>1, <2>2
<1> QED
  BY <1>3, <1>4, <1>5, <1>6 DEF Data

\* A step that leaves contents and pointers alone.
LEMMA SameData ==
  ASSUME Inv, UNCHANGED <<file, mapped, memory>>
  PROVE  Data'
BY DEF Inv, Data, CacheIntact, PointersValid

\* MapFile with a whole file: it fails, or the entry is there and pointed to.
LEMMA MapFileData ==
  ASSUME Inv, NEW t \in Threads, th[t].pc # "idle", MapFile(t, "whole"), file' = file
  PROVE  /\ mapped' \in [Blobs -> Files]
         /\ memory' \in [Elements -> Blobs \cup {None}] /\ Data'
         /\ \E p \in {"copy", "return", "failed"} : Moved(t, p)
<1>1. CASE Goto(t, "failed") /\ UNCHANGED <<mapped, memory>>
  <2>1. Moved(t, "failed")
    BY <1>1, GotoMoves, PcNames DEF Inv, Typed
  <2> QED
    BY <1>1, <2>1, SameData DEF Inv, Typed, TypeOK
<1>2. CASE Got(t) /\ mapped' = [mapped EXCEPT ![Blob(t)] = IF @ = "none" THEN "whole" ELSE @]
  <2>1. Blob(t) \in Blobs /\ mapped \in [Blobs -> Files] /\ "whole" \in Files
    BY ElemTyped DEF Inv, Typed, TypeOK, Files
  <2>2. mapped' \in [Blobs -> Files] /\ mapped'[Blob(t)] # "none"
    BY <1>2, <2>1
  <2>3. \A b \in Blobs : mapped'[b] # "partial" /\ (mapped[b] # "none" => mapped'[b] # "none")
    BY <1>2, <2>1 DEF Inv, CacheIntact
  <2> QED
    BY <1>2, <2>2, <2>3, GotData
<1> QED
  BY <1>1, <1>2 DEF MapFile

\* Inv from its parts.
LEMMA Assemble ==
  ASSUME TypeOK', Control', Data'
  PROVE  Inv'
BY DEF Inv, Typed, Control, Data

\* A handler's step that leaves the cache and the files alone.
LEMMA PlainStep ==
  ASSUME Inv, NEW t \in Threads, NEW p, Moved(t, p), th[t].pc # "idle",
         p \notin LockedPcs, UNCHANGED <<disk, cache, opens, phase, kills>>,
         buf' \in [Elements -> Threads \cup {None}],
         memory' \in [Elements -> Blobs \cup {None}], Data'
  PROVE  Inv'
<1>1. TypeOK'
  BY DEF Inv, Typed, TypeOK, Moved, disk, cache
<1>2. Control'
  BY QuietControl DEF disk, cache
<1> QED
  BY <1>1, <1>2, Assemble

\* memory_ is cleared.
LEMMA ClearData ==
  ASSUME Inv, NEW e \in Elements, memory' = [memory EXCEPT ![e] = None], UNCHANGED <<file, mapped>>
  PROVE  memory' \in [Elements -> Blobs \cup {None}] /\ Data'
BY DEF Inv, Typed, TypeOK, Data, CacheIntact, PointersValid

LEMMA LockInv ==
  ASSUME Inv, NEW t \in Threads, Lock(t)
  PROVE  Inv'
<1>1. th[t].pc # "idle" /\ TypeOK /\ Elem(t) \in Elements
  <2>1. th[t].pc # "idle"
    BY DEF Lock, AtPc
  <2> QED
    BY <2>1, ElemTyped DEF Inv, Typed
<1>2. AfterLock(t) \in Pcs /\ AfterLock(t) \notin LockedPcs
  BY AfterLockPc, PcNames DEF LockedPcs
<1>3. Moved(t, AfterLock(t))
  BY <1>1, <1>2, GotoMoves DEF Lock
<1>4. buf' \in [Elements -> Threads \cup {None}]
  BY <1>1 DEF Lock, TypeOK
<1>5. UNCHANGED <<file, tmp, mapped, disk, cache, opens, phase, kills>>
  BY DEF Lock, disk, cache
<1>6. memory' \in [Elements -> Blobs \cup {None}] /\ Data'
  <2>1. CASE memory' = memory
    BY <1>1, <1>5, <2>1, SameData DEF TypeOK
  <2>2. CASE memory' = [memory EXCEPT ![Elem(t)] = None]
    BY <1>1, <1>5, <2>2, ClearData
  <2> QED
    BY <2>1, <2>2 DEF Lock
<1> QED
  BY <1>1, <1>2, <1>3, <1>4, <1>5, <1>6, PlainStep

LEMMA GetLockedInv ==
  ASSUME Inv, NEW t \in Threads, GetLocked(t)
  PROVE  Inv'
<1>1. th[t].pc # "idle" /\ TypeOK
  BY DEF GetLocked, AtPc, Inv, Typed
<1>2. UNCHANGED <<file, tmp, mutex, buf, opens, phase, kills>>
  BY DEF GetLocked, disk
<1>3. Blob(t) \in Blobs
  BY <1>1, ElemTyped
<1>4. /\ mapped' \in [Blobs -> Files]
      /\ memory' \in [Elements -> Blobs \cup {None}] /\ Data'
      /\ \E p \in {"copy", "return", "failed", "fetch"} : Moved(t, p)
  <2>1. CASE mapped[Blob(t)] # "none" /\ Got(t) /\ UNCHANGED mapped
    <3>1. \A b \in Blobs : mapped'[b] # "partial" /\ (mapped[b] # "none" => mapped'[b] # "none")
      BY <2>1 DEF Inv, CacheIntact
    <3>2. mapped' \in [Blobs -> Files] /\ mapped'[Blob(t)] # "none"
      BY <1>1, <2>1 DEF TypeOK
    <3> QED
      BY <1>1, <1>2, <2>1, <3>1, <3>2, GotData
  <2>2. CASE file[Blob(t)] # "none" /\ MapFile(t, file[Blob(t)])
    <3>1. file[Blob(t)] = "whole"
      BY <1>1, <1>3, <2>2 DEF Inv, CacheIntact, TypeOK, Files
    <3> QED
      BY <1>1, <1>2, <2>2, <3>1, MapFileData
  <2>3. ASSUME NEW p \in {"fetch", "failed"}, Goto(t, p), UNCHANGED <<mapped, memory>>
        PROVE  /\ mapped' \in [Blobs -> Files]
               /\ memory' \in [Elements -> Blobs \cup {None}] /\ Data'
               /\ Moved(t, p)
    <3>1. Moved(t, p)
      BY <1>1, <2>3, GotoMoves, PcNames
    <3> QED
      BY <1>1, <1>2, <2>3, <3>1, SameData DEF TypeOK
  <2> QED
    BY <2>1, <2>2, <2>3 DEF GetLocked
<1>5. PICK p \in {"copy", "return", "failed", "fetch"} : Moved(t, p)
  BY <1>4
<1>6. TypeOK'
  BY <1>1, <1>2, <1>4, <1>5 DEF TypeOK, Moved
<1>7. Control'
  BY <1>1, <1>2, <1>5, QuietControl DEF LockedPcs
<1> QED
  BY <1>4, <1>6, <1>7, Assemble

LEMMA RelockInv ==
  ASSUME Inv, NEW t \in Threads, Relock(t)
  PROVE  Inv'
<1>1. th[t].pc # "idle" /\ th[t].pc \notin LockedPcs /\ TypeOK /\ mutex = None
  BY DEF Relock, AtPc, Inv, Typed, LockedPcs
<1>2. UNCHANGED <<file, mapped, buf, opens, phase, kills>>
  BY DEF Relock
<1>3. Blob(t) \in Blobs
  BY <1>1, ElemTyped
<1>4. \A u \in Threads : th[u].pc \notin LockedPcs
  BY <1>1, CacheAssumption DEF Inv, Holds
<1>5. CASE mapped[Blob(t)] # "none" /\ Got(t) /\ UNCHANGED <<tmp, mutex>>
  <2>1. \A b \in Blobs : mapped'[b] # "partial" /\ (mapped[b] # "none" => mapped'[b] # "none")
    BY <1>2 DEF Inv, CacheIntact
  <2>2. mapped' \in [Blobs -> Files] /\ mapped'[Blob(t)] # "none"
    BY <1>1, <1>2, <1>5 DEF TypeOK
  <2>3. /\ memory' \in [Elements -> Blobs \cup {None}] /\ Data'
        /\ \E p \in {"copy", "return"} : Moved(t, p)
    BY <1>1, <1>2, <1>5, <2>1, <2>2, GotData
  <2>4. PICK p \in {"copy", "return"} : Moved(t, p)
    BY <2>3
  <2>5. TypeOK'
    BY <1>1, <1>2, <1>5, <2>3, <2>4 DEF TypeOK, Moved
  <2>6. Control'
    BY <1>1, <1>2, <1>5, <2>4, QuietControl DEF LockedPcs
  <2> QED
    BY <2>3, <2>5, <2>6, Assemble
<1>6. ASSUME NEW c \in {"partial", "none"}, tmp' = [tmp EXCEPT ![Blob(t)] = c],
             NEW p \in {"write", "failed"}, Goto(t, p), memory' = memory,
             mutex' = IF p = "write" THEN t ELSE mutex
      PROVE  Inv'
  <2>1. Moved(t, p)
    BY <1>1, <1>6, GotoMoves, PcNames
  <2>2. c \in Files
    BY DEF Files
  <2>3. TypeOK'
    BY <1>1, <1>2, <1>6, <2>1, <2>2 DEF TypeOK, Moved
  <2>4. Engaged' /\ Stopped'
    BY <1>1, <1>2, <2>1, MovedEngaged DEF Inv, Stopped
  <2>5. \A u \in Threads : u # t => th'[u].pc \notin LockedPcs
    BY <1>4, <2>1 DEF Moved
  <2>6. Holds' /\ PublishesWhole'
    BY <1>6, <2>1, <2>5 DEF Holds, PublishesWhole, Moved, LockedPcs
  <2> QED
    BY <1>2, <1>6, <2>3, <2>4, <2>6, SameData, Assemble DEF Control
<1> QED
  BY <1>5, <1>6 DEF Relock

\* The holder of mutex_ is alone in the section.
LEMMA Alone ==
  ASSUME Inv, NEW t \in Threads, th[t].pc \in LockedPcs
  PROVE  mutex = t /\ \A u \in Threads : u # t => th[u].pc \notin LockedPcs
BY DEF Inv, Holds

LEMMA WriteTmpInv ==
  ASSUME Inv, NEW t \in Threads, WriteTmp(t)
  PROVE  Inv'
<1>1. th[t].pc = "write" /\ th[t].pc \in LockedPcs /\ TypeOK
  BY DEF WriteTmp, AtPc, Inv, Typed, LockedPcs
<1>2. mutex = t /\ \A u \in Threads : u # t => th[u].pc \notin LockedPcs
  BY <1>1, Alone
<1>3. CASE /\ tmp' = [tmp EXCEPT ![Blob(t)] = "whole"] /\ Goto(t, "rename")
           /\ UNCHANGED <<file, cache, buf, memory, opens, phase, kills>>
  <2>1. Moved(t, "rename") /\ Blob(t) \in Blobs /\ "whole" \in Files
    BY <1>1, <1>3, GotoMoves, PcNames, ElemTyped DEF Files
  <2>2. TypeOK'
    BY <1>1, <1>3, <2>1 DEF TypeOK, Moved, cache
  <2>3. Engaged' /\ Stopped'
    BY <1>1, <1>3, <2>1, MovedEngaged DEF Inv, Stopped
  <2>4. Holds'
    BY <1>2, <1>3, <2>1 DEF Holds, Moved, cache
  <2>5. PublishesWhole'
    <3>1. tmp'[Blob(t)] = "whole" /\ Blob(t)' = Blob(t)
      BY <1>1, <1>3, <2>1 DEF TypeOK, Moved, Blob, Elem
    <3> QED
      BY <1>2, <2>1, <3>1 DEF PublishesWhole, Moved, LockedPcs
  <2> QED
    BY <1>3, <2>2, <2>3, <2>4, <2>5, SameData, Assemble DEF Control, cache
<1> QED
  BY <1>3, AbortInv DEF WriteTmp

LEMMA RenameTmpInv ==
  ASSUME Inv, NEW t \in Threads, RenameTmp(t)
  PROVE  Inv'
<1>1. th[t].pc = "rename" /\ th[t].pc \in LockedPcs /\ TypeOK
  BY DEF RenameTmp, AtPc, Inv, Typed, LockedPcs
<1>2. mutex = t /\ \A u \in Threads : u # t => th[u].pc \notin LockedPcs
  BY <1>1, Alone
<1>3. CASE /\ file' = [file EXCEPT ![Blob(t)] = tmp[Blob(t)]]
           /\ tmp' = [tmp EXCEPT ![Blob(t)] = "none"] /\ Goto(t, "map")
           /\ UNCHANGED <<cache, buf, memory, opens, phase, kills>>
  <2>1. Moved(t, "map") /\ Blob(t) \in Blobs /\ "whole" \in Files /\ "none" \in Files
    BY <1>1, <1>3, GotoMoves, PcNames, ElemTyped DEF Files
  <2>2. tmp[Blob(t)] = "whole"
    BY <1>1 DEF Inv, PublishesWhole
  <2>3. TypeOK'
    BY <1>1, <1>3, <2>1, <2>2 DEF TypeOK, Moved, cache
  <2>4. Engaged' /\ Stopped'
    BY <1>1, <1>3, <2>1, MovedEngaged DEF Inv, Stopped
  <2>5. Holds'
    BY <1>2, <1>3, <2>1 DEF Holds, Moved, cache
  <2>6. PublishesWhole'
    <3>1. file'[Blob(t)] = "whole" /\ Blob(t)' = Blob(t)
      BY <1>1, <1>3, <2>1, <2>2 DEF TypeOK, Moved, Blob, Elem
    <3> QED
      BY <1>2, <2>1, <3>1 DEF PublishesWhole, Moved, LockedPcs
  <2>7. Data'
    BY <1>1, <1>3, <2>1, <2>2 DEF Inv, Data, CacheIntact, PointersValid, TypeOK, cache
  <2> QED
    BY <2>3, <2>4, <2>5, <2>6, <2>7, Assemble DEF Control
<1> QED
  BY <1>3, AbortInv DEF RenameTmp

LEMMA MapFetchedInv ==
  ASSUME Inv, NEW t \in Threads, MapFetched(t)
  PROVE  Inv'
<1>1. th[t].pc = "map" /\ th[t].pc \in LockedPcs /\ TypeOK
  BY DEF MapFetched, AtPc, Inv, Typed, LockedPcs
<1>2. mutex = t /\ mutex' = None /\ file[Blob(t)] = "whole"
  BY <1>1, Alone DEF Inv, PublishesWhole, MapFetched
<1>3. UNCHANGED <<file, tmp, buf, opens, phase, kills>> /\ MapFile(t, "whole")
  BY <1>2 DEF MapFetched, disk
<1>4. /\ mapped' \in [Blobs -> Files]
      /\ memory' \in [Elements -> Blobs \cup {None}] /\ Data'
      /\ \E p \in {"copy", "return", "failed"} : Moved(t, p)
  BY <1>1, <1>3, MapFileData
<1>5. PICK p \in {"copy", "return", "failed"} : Moved(t, p)
  BY <1>4
<1>6. TypeOK'
  BY <1>1, <1>2, <1>3, <1>4, <1>5 DEF TypeOK, Moved
<1>7. Control'
  BY <1>1, <1>2, <1>3, <1>5, QuietControl DEF LockedPcs
<1> QED
  BY <1>4, <1>6, <1>7, Assemble

\* Fetch, GetFailed, Copy and Drop.
LEMMA SmallStepsInv ==
  ASSUME Inv, NEW t \in Threads, Fetch(t) \/ GetFailed(t) \/ Copy(t) \/ Drop(t)
  PROVE  Inv'
<1>1. th[t].pc # "idle" /\ TypeOK
  BY DEF Fetch, GetFailed, Copy, Drop, AtPc, Inv, Typed
<1>2. Elem(t) \in Elements
  BY <1>1, ElemTyped
<1>3. CASE Abort
  BY <1>3, AbortInv
<1>4. ASSUME NEW p \in {"relock", "return"}, Goto(t, p),
             UNCHANGED <<disk, cache, buf, opens, phase, kills>>,
             memory' = memory \/ memory' = [memory EXCEPT ![Elem(t)] = None]
      PROVE  Inv'
  <2>1. Moved(t, p) /\ p \notin LockedPcs
    BY <1>1, <1>4, GotoMoves, PcNames DEF LockedPcs
  <2>2. UNCHANGED <<file, mapped, buf>>
    BY <1>4 DEF disk, cache
  <2>3. memory' \in [Elements -> Blobs \cup {None}] /\ Data'
    <3>1. CASE memory' = memory
      BY <1>1, <2>2, <3>1, SameData DEF TypeOK
    <3>2. CASE memory' = [memory EXCEPT ![Elem(t)] = None]
      BY <1>2, <2>2, <3>2, ClearData
    <3> QED
      BY <1>4, <3>1, <3>2
  <2> QED
    BY <1>1, <1>4, <2>1, <2>2, <2>3, PlainStep DEF TypeOK
<1> QED
  BY <1>3, <1>4 DEF Fetch, GetFailed, Copy, Drop

LEMMA ReturnInv ==
  ASSUME Inv, NEW t \in Threads, Return(t)
  PROVE  Inv'
<1>1. th[t].pc = "return" /\ th[t].pc # "idle" /\ TypeOK /\ phase = "mounted"
  BY DEF Return, AtPc, Inv, Typed, Stopped
<1>2. Elem(t) \in Elements
  BY <1>1, ElemTyped
<1>3. UNCHANGED <<file, tmp, mapped, mutex, memory, phase, kills>> /\ th' = [th EXCEPT ![t] = Idle]
  BY DEF Return, disk, cache
<1>4. buf' \in [Elements -> Threads \cup {None}]
  BY <1>1, <1>2 DEF Return, TypeOK
<1>5. opens' \in [Elements -> Int]
  BY <1>1, <1>2 DEF Return, TypeOK
<1>6. TypeOK'
  BY <1>1, <1>3, <1>4, <1>5, IdleTyped DEF TypeOK
<1>7. th'[t].pc = "idle" /\ \A u \in Threads : u # t => th'[u] = th[u]
  BY <1>1, <1>3, IdleTyped DEF TypeOK
<1>8. Engaged' /\ Stopped'
  BY <1>1, <1>3, <1>7 DEF Inv, Typed, Engaged, Stopped
<1>9. Holds' /\ PublishesWhole'
  BY <1>3, <1>7, IdleTyped DEF Inv, Holds, PublishesWhole, Blob, Elem
<1> QED
  BY <1>3, <1>6, <1>8, <1>9, SameData, Assemble DEF Control

LEMMA CallInv ==
  ASSUME Inv, NEW t \in Threads, NEW op \in Ops, NEW e \in Elements, Call(t, op, e)
  PROVE  Inv'
<1> DEFINE r == [pc |-> "lock", op |-> op, elem |-> e]
<1>1. TypeOK /\ phase = "mounted" /\ phase' = phase
  BY DEF Call, Inv, Typed
<1>2. UNCHANGED <<file, tmp, mapped, mutex, buf, memory, opens, kills>> /\ th' = [th EXCEPT ![t] = r]
  BY DEF Call, disk, cache
<1>3. r \in ThreadState /\ r.pc = "lock" /\ r.elem = e /\ "lock" \notin LockedPcs
  BY PcNames DEF ThreadState, LockedPcs
<1> HIDE DEF r
<1>4. TypeOK'
  BY <1>1, <1>2, <1>3 DEF TypeOK
<1>5. th'[t] = r /\ \A u \in Threads : u # t => th'[u] = th[u]
  BY <1>1, <1>2 DEF TypeOK
<1>6. Engaged' /\ Stopped'
  BY <1>1, <1>3, <1>5 DEF Inv, Typed, Engaged, Stopped
<1>7. Holds' /\ PublishesWhole'
  BY <1>2, <1>3, <1>5 DEF Inv, Holds, PublishesWhole, Blob, Elem
<1> QED
  BY <1>2, <1>4, <1>6, <1>7, SameData, Assemble DEF Control

LEMMA MountInv ==
  ASSUME Inv, Mount
  PROVE  Inv'
<1>1. TypeOK /\ \A t \in Threads : th[t].pc = "idle"
  BY DEF Mount, Inv, Typed, Stopped
<1>2. UNCHANGED <<tmp, mapped, mutex, buf, memory, opens, th, kills>> /\ phase' = "mounted"
  BY DEF Mount, cache
<1>3. PICK old \in SUBSET Blobs : file' = [b \in Blobs |-> IF b \in old THEN "none" ELSE file[b]]
  BY DEF Mount
<1>4. file' \in [Blobs -> Files] /\ \A b \in Blobs : file'[b] # "partial"
  BY <1>1, <1>3 DEF TypeOK, Files, Inv, CacheIntact
<1>5. TypeOK'
  BY <1>1, <1>2, <1>4 DEF TypeOK, Phases
<1>6. Control'
  BY <1>1, <1>2, IdleTyped DEF Control, Engaged, Holds, PublishesWhole, Stopped
<1>7. Data'
  BY <1>2, <1>4 DEF Inv, Data, CacheIntact, PointersValid
<1> QED
  BY <1>5, <1>6, <1>7, Assemble

LEMMA NextInv == Inv /\ [Next]_vars => Inv'
<1> SUFFICES ASSUME Inv, [Next]_vars PROVE Inv'
  OBVIOUS
<1>1. CASE Mount
  BY <1>1, MountInv
<1>2. CASE Kill
  <2>1. kills' \in Nat /\ "exited" \in Phases \ {"mounted"}
    BY <1>2 DEF Kill, Inv, Typed, TypeOK, Phases
  <2> QED
    BY <1>2, <2>1, DieInv DEF Kill
<1>3. CASE Restart
  <2>1. /\ UNCHANGED <<file, tmp, mapped, mutex, buf, memory, opens, th, kills>>
        /\ phase' = "start" /\ phase # "mounted"
    BY <1>3 DEF Restart, disk, cache
  <2>2. TypeOK'
    BY <2>1 DEF Inv, Typed, TypeOK, Phases
  <2>3. Control'
    BY <2>1 DEF Inv, Typed, Control, Engaged, Holds, PublishesWhole, Stopped, Blob, Elem
  <2> QED
    BY <2>1, <2>2, <2>3, SameData, Assemble
<1>4. ASSUME NEW t \in Threads, Proceed(t) PROVE Inv'
  <2>1. CASE GetAborts(t)
    BY <2>1, AbortInv DEF GetAborts
  <2> QED
    BY <1>4, <2>1, LockInv, GetLockedInv, RelockInv, WriteTmpInv, RenameTmpInv, MapFetchedInv,
       SmallStepsInv, ReturnInv DEF Proceed
<1>5. ASSUME NEW t \in Threads, NEW op \in Ops, NEW e \in Elements, Call(t, op, e) PROVE Inv'
  BY <1>5, CallInv
<1>6. CASE UNCHANGED vars
  BY <1>6 DEF vars, Inv, Typed, TypeOK, Engaged, Holds, PublishesWhole, Stopped, CacheIntact,
              PointersValid, Blob, Elem
<1> QED
  BY <1>1, <1>2, <1>3, <1>4, <1>5, <1>6 DEF Next

LEMMA InitInv == Init => Inv
<1> SUFFICES ASSUME Init PROVE Inv
  OBVIOUS
<1>1. TypeOK
  BY IdleTyped DEF Init, TypeOK, Files, Phases
<1>2. \A t \in Threads : th[t].pc = "idle"
  BY IdleTyped DEF Init
<1>3. CacheIntact /\ PointersValid
  BY DEF Init, CacheIntact, PointersValid
<1> QED
  BY <1>1, <1>2, <1>3, IdleTyped DEF Inv, Typed, Engaged, Holds, PublishesWhole, Stopped

\* Type correctness of the blob handlers and the cache, with the locals of a
\* handler at every program counter.
THEOREM TypeCorrect == Spec => []TypeOK
<1>1. Inv => TypeOK
  BY DEF Inv, Typed
<1> QED
  BY InitInv, NextInv, <1>1, PTL DEF Spec

\* Neither the cache directory nor a mapping ever holds part of a blob, with
\* any number of threads fetching it, failing disks and kills anywhere.
THEOREM CacheStaysIntact == Spec => []CacheIntact
<1>1. Inv => CacheIntact
  BY DEF Inv
<1> QED
  BY InitInv, NextInv, <1>1, PTL DEF Spec

\* memory_ of a FileElement always points to an entry that is mapped, in
\* both file systems and whichever handles and elements release the blob.
THEOREM NoDanglingMemory == Spec => []PointersValid
<1>1. Inv => PointersValid
  BY DEF Inv
<1> QED
  BY InitInv, NextInv, <1>1, PTL DEF Spec

\* What get renames and maps is the blob it has written, for any number of
\* threads that fetch the same blob at once.
THEOREM PublishedIsWhole == Spec => []PublishesWhole
<1>1. Inv => PublishesWhole
  BY DEF Inv
<1> QED
  BY InitInv, NextInv, <1>1, PTL DEF Spec

-----------------------------------------------------------------------------
(* The reads of gitlstree.                                                  *)

\* A handler past its lock_guard holds buf_mutex_ of its element.
Owned == \A t \in Threads : th[t].pc \notin {"idle", "lock"} => buf[Elem(t)] = t

\* A read that is past its fetch has something to copy from.
Filled ==
  \A t \in Threads :
    th[t].op = "read" /\ th[t].pc \in {"copy", "return"} => memory[Elem(t)] # None

\* gitlstree does not call Cache::release.
Undropped == \A t \in Threads : th[t].pc # "drop"

ReadInv == Inv /\ Owned /\ Filled /\ Undropped

LEMMA AbortRead ==
  ASSUME NEW how, Die(how)
  PROVE  Owned' /\ Filled'
<1>1. \A t \in Threads : th'[t] = Idle
  BY DEF Die
<1> QED
  BY <1>1 DEF Owned, Filled, Idle

\* A step of a handler that has buf_mutex_: it sets memory_, or leaves it.
LEMMA OwnerRead ==
  ASSUME ReadInv, NEW t \in Threads, NEW p, Moved(t, p), th[t].pc \notin {"idle", "lock"},
         buf' = buf, \A e \in Elements : memory[e] # None => memory'[e] # None,
         th[t].op = "read" /\ p \in {"copy", "return"} => memory'[Elem(t)] # None
  PROVE  Owned' /\ Filled'
<1>1. \A u \in Threads : Elem(u)' = Elem(u) /\ th'[u].op = th[u].op
  BY DEF Moved, Elem
<1>2. \A u \in Threads : u # t => th'[u].pc = th[u].pc
  BY DEF Moved
<1>3. \A u \in Threads : th[u].pc # "idle" => Elem(u) \in Elements
  BY DEF ReadInv, Inv, Typed, Engaged, Elem
<1>4. Owned'
  BY <1>1, <1>2 DEF ReadInv, Owned
<1>5. Filled'
  <2> SUFFICES ASSUME NEW u \in Threads, th'[u].op = "read", th'[u].pc \in {"copy", "return"}
               PROVE  memory'[Elem(u)'] # None
    BY DEF Filled
  <2>1. CASE u = t
    BY <1>1, <2>1 DEF Moved
  <2>2. CASE u # t
    BY <1>1, <1>2, <1>3, <2>2 DEF ReadInv, Filled
  <2> QED
    BY <2>1, <2>2
<1> QED
  BY <1>4, <1>5

LEMMA GotRead ==
  ASSUME ReadInv, NEW t \in Threads, Got(t), buf' = buf, th[t].pc \notin {"idle", "lock"}
  PROVE  Owned' /\ Filled'
<1>1. Elem(t) \in Elements /\ Blob(t) \in Blobs /\ TypeOK
  BY ElemTyped DEF ReadInv, Inv, Typed
<1>2. /\ memory' = [memory EXCEPT ![Elem(t)] = Blob(t)] /\ Blob(t) # None
      /\ \E p \in {"copy", "return"} : Goto(t, p)
  BY <1>1, CacheAssumption DEF Got
<1>3. PICK p \in Pcs : Moved(t, p)
  BY <1>1, <1>2, GotoMoves, PcNames
<1>4. memory'[Elem(t)] # None /\ \A e \in Elements : memory[e] # None => memory'[e] # None
  BY <1>1, <1>2 DEF TypeOK
<1> QED
  BY <1>3, <1>4, OwnerRead

LEMMA ElsewhereRead ==
  ASSUME ReadInv, NEW t \in Threads, NEW p \in Pcs \ {"copy", "return"}, Goto(t, p),
         th[t].pc \notin {"idle", "lock"}, UNCHANGED <<buf, memory>>
  PROVE  Owned' /\ Filled'
BY GotoMoves, OwnerRead DEF ReadInv, Inv, Typed

LEMMA MapFileRead ==
  ASSUME ReadInv, NEW t \in Threads, NEW c, MapFile(t, c), buf' = buf,
         th[t].pc \notin {"idle", "lock"}
  PROVE  Owned' /\ Filled'
<1>1. CASE Goto(t, "failed") /\ UNCHANGED memory
  BY <1>1, ElsewhereRead, PcNames
<1>2. CASE Got(t)
  BY <1>2, GotRead
<1> QED
  BY <1>1, <1>2 DEF MapFile

\* The steps between the two locks of buf_mutex_.
LEMMA MiddleRead ==
  ASSUME ~Githubfs, ReadInv, NEW t \in Threads,
         \/ GetLocked(t) \/ Fetch(t) \/ Relock(t) \/ WriteTmp(t) \/ RenameTmp(t)
         \/ MapFetched(t) \/ GetAborts(t) \/ GetFailed(t)
  PROVE  Owned' /\ Filled'
<1>1. th[t].pc \notin {"idle", "lock"}
  BY DEF GetLocked, Fetch, Relock, WriteTmp, RenameTmp, MapFetched, GetAborts,
         GetFailed, AtPc
<1>2. CASE Abort
  BY <1>2, AbortRead DEF Abort
<1>3. ASSUME NEW p \in {"fetch", "failed", "relock", "write", "rename", "map"}, Goto(t, p),
             UNCHANGED <<buf, memory>>
      PROVE  Owned' /\ Filled'
  BY <1>1, <1>3, ElsewhereRead, PcNames
<1>4. CASE Got(t) /\ buf' = buf
  BY <1>1, <1>4, GotRead
<1>5. CASE GetLocked(t)
  BY <1>1, <1>3, <1>4, <1>5, MapFileRead DEF GetLocked
<1>6. CASE Fetch(t)
  BY <1>2, <1>3, <1>6 DEF Fetch
<1>7. CASE Relock(t)
  BY <1>3, <1>4, <1>7 DEF Relock
<1>8. CASE WriteTmp(t)
  BY <1>2, <1>3, <1>8 DEF WriteTmp
<1>9. CASE RenameTmp(t)
  BY <1>2, <1>3, <1>9 DEF RenameTmp
<1>10. CASE MapFetched(t)
  BY <1>1, <1>10, MapFileRead DEF MapFetched
<1>11. CASE GetFailed(t)
  BY <1>2, <1>11 DEF GetFailed
<1>12. CASE GetAborts(t)
  BY <1>2, <1>12 DEF GetAborts
<1> QED
  BY <1>5, <1>6, <1>7, <1>8, <1>9, <1>10, <1>11, <1>12

LEMMA CopyRead ==
  ASSUME ~Githubfs, ReadInv, NEW t \in Threads, Copy(t)
  PROVE  Owned' /\ Filled'
<1>1. th[t].pc = "copy" /\ Moved(t, "return") /\ UNCHANGED <<buf, memory>>
  BY GotoMoves, PcNames DEF Copy, AtPc, ReadInv, Inv, Typed
<1>2. th[t].op = "read" => memory'[Elem(t)] # None
  BY <1>1 DEF ReadInv, Filled
<1> QED
  BY <1>1, <1>2, OwnerRead

\* A release that clears memory_ has buf_mutex_, so no read is under way.
LEMMA LockRead ==
  ASSUME ~Githubfs, ReadInv, NEW t \in Threads, Lock(t)
  PROVE  Owned' /\ Filled'
<1>1. /\ th[t].pc = "lock" /\ Elem(t) \in Elements /\ TypeOK /\ buf[Elem(t)] = None
      /\ buf' = [buf EXCEPT ![Elem(t)] = t]
  BY ElemTyped DEF Lock, AtPc, ReadInv, Inv, Typed
<1>2. Moved(t, AfterLock(t))
  BY <1>1, AfterLockPc, PcNames, GotoMoves DEF Lock
<1>3. ASSUME NEW u \in Threads, u # t, th[u].pc \notin {"idle", "lock"}
      PROVE  Elem(u) \in Elements /\ Elem(u) # Elem(t)
  <2>1. Elem(u) \in Elements /\ buf[Elem(u)] = u
    BY <1>3 DEF ReadInv, Inv, Typed, Engaged, Owned, Elem
  <2> QED
    BY <1>1, <2>1, CacheAssumption
<1>4. \A u \in Threads : Elem(u)' = Elem(u) /\ th'[u].op = th[u].op
  BY <1>2 DEF Moved, Elem
<1>5. \A u \in Threads : u # t => th'[u].pc = th[u].pc
  BY <1>2 DEF Moved
<1>6. Owned'
  BY <1>1, <1>3, <1>4, <1>5 DEF ReadInv, Owned, TypeOK
<1>7. ASSUME NEW u \in Threads, th'[u].op = "read", th'[u].pc \in {"copy", "return"}
      PROVE  memory'[Elem(u)'] # None
  <2>1. CASE u = t
    <3>1. th[t].op = "read" /\ AfterLock(t) \in {"copy", "return"}
      BY <1>2, <1>7, <2>1 DEF Moved
    <3>2. memory' = memory /\ memory[Elem(t)] # None
      BY <3>1 DEF AfterLock, Lock
    <3> QED
      BY <1>4, <2>1, <3>2
  <2>2. CASE u # t
    <3>1. memory[Elem(u)] # None /\ Elem(u) \in Elements /\ Elem(u) # Elem(t)
      BY <1>3, <1>4, <1>5, <1>7, <2>2 DEF ReadInv, Filled
    <3>2. memory'[Elem(u)] = memory[Elem(u)]
      BY <1>1, <3>1 DEF Lock, TypeOK
    <3> QED
      BY <1>4, <3>1, <3>2
  <2> QED
    BY <2>1, <2>2
<1> QED
  BY <1>6, <1>7 DEF Filled

\* Handlers that begin or end have nothing to say of memory_.
LEMMA EndsRead ==
  ASSUME ReadInv, NEW t \in Threads,
         Return(t) \/ \E op \in Ops, e \in Elements : Call(t, op, e)
  PROVE  Owned' /\ Filled' /\ Undropped'
<1>1. /\ UNCHANGED memory /\ th'[t].pc \in {"idle", "lock"}
      /\ \A u \in Threads : u # t => th'[u] = th[u]
  BY DEF Return, Call, Idle, ReadInv, Inv, Typed, TypeOK
<1>2. \A u \in Threads : u # t => Elem(u)' = Elem(u)
  BY <1>1 DEF Elem
<1>3. ASSUME NEW u \in Threads, u # t, th[u].pc \notin {"idle", "lock"}
      PROVE  buf'[Elem(u)] = u
  <2>1. Elem(u) \in Elements /\ buf[Elem(u)] = u
    BY <1>3 DEF ReadInv, Inv, Typed, Engaged, Owned, Elem
  <2>2. CASE Return(t)
    <3>1. Elem(t) \in Elements /\ buf[Elem(t)] = t
      BY <2>2, ElemTyped DEF Return, AtPc, ReadInv, Owned
    <3> QED
      BY <1>3, <2>1, <2>2, <3>1 DEF Return, ReadInv, Inv, Typed, TypeOK
  <2>3. CASE buf' = buf
    BY <2>1, <2>3
  <2> QED
    BY <2>2, <2>3 DEF Call
<1>4. Owned'
  BY <1>1, <1>2, <1>3 DEF Owned
<1>5. Filled'
  BY <1>1, <1>2 DEF Filled, ReadInv
<1> QED
  BY <1>1, <1>4, <1>5 DEF Undropped, ReadInv

LEMMA StaysUndropped ==
  ASSUME ~Githubfs, ReadInv, NEW t \in Threads, Proceed(t)
  PROVE  Undropped'
<1>1. TypeOK /\ Undropped
  BY DEF ReadInv, Inv, Typed
<1>2. CASE \E how : Die(how)
  BY <1>2 DEF Die, Undropped, Idle
<1>3. ASSUME NEW p \in Pcs \ {"drop"}, Goto(t, p) PROVE Undropped'
  BY <1>1, <1>3, GotoMoves DEF Undropped, Moved
<1>4. AfterLock(t) \in Pcs \ {"drop"}
  BY AfterLockPc, PcNames DEF AfterLock
<1>5. CASE Got(t)
  BY <1>3, <1>5, PcNames DEF Got
<1>6. ASSUME NEW c, MapFile(t, c) PROVE Undropped'
  BY <1>3, <1>5, <1>6, PcNames DEF MapFile
<1>7. CASE Lock(t)
  BY <1>3, <1>4, <1>7 DEF Lock
<1>8. CASE GetLocked(t)
  BY <1>3, <1>5, <1>6, <1>8, PcNames DEF GetLocked
<1>9. CASE \/ Fetch(t) \/ WriteTmp(t) \/ RenameTmp(t) \/ GetAborts(t)
           \/ GetFailed(t) \/ Copy(t)
  BY <1>2, <1>3, <1>9, PcNames
  DEF Fetch, WriteTmp, RenameTmp, GetAborts, GetFailed, Copy, Abort
<1>10. CASE Relock(t)
  BY <1>3, <1>5, <1>10, PcNames DEF Relock
<1>11. CASE MapFetched(t)
  BY <1>6, <1>11 DEF MapFetched
<1>12. CASE Drop(t)
  BY <1>1, <1>12 DEF Drop, AtPc, Undropped
<1>13. CASE Return(t)
  BY <1>13, EndsRead
<1> QED
  BY <1>7, <1>8, <1>9, <1>10, <1>11, <1>12, <1>13 DEF Proceed

LEMMA NextRead == ~Githubfs /\ ReadInv /\ [Next]_vars => ReadInv'
<1> SUFFICES ASSUME ~Githubfs, ReadInv, [Next]_vars PROVE ReadInv'
  OBVIOUS
<1>1. Inv'
  BY NextInv DEF ReadInv
<1>2. CASE \E how : Die(how)
  BY <1>1, <1>2, AbortRead DEF ReadInv, Die, Undropped, Idle
<1>3. CASE UNCHANGED <<th, buf, memory>>
  BY <1>1, <1>3 DEF ReadInv, Owned, Filled, Undropped, Elem
<1>4. ASSUME NEW t \in Threads, Proceed(t) PROVE Owned' /\ Filled'
  <2>1. ~Drop(t)
    BY DEF Drop, AtPc, ReadInv, Undropped
  <2> QED
    BY <1>4, <2>1, MiddleRead, CopyRead, LockRead, EndsRead DEF Proceed
<1>5. CASE \E t \in Threads : Proceed(t)
  BY <1>1, <1>4, <1>5, StaysUndropped DEF ReadInv
<1>6. CASE \E t \in Threads, op \in Ops, e \in Elements : Call(t, op, e)
  BY <1>1, <1>6, EndsRead DEF ReadInv
<1> QED
  BY <1>2, <1>3, <1>5, <1>6 DEF Next, Mount, Kill, Restart, vars

LEMMA InitRead == Init => ReadInv
BY InitInv, IdleTyped DEF Init, ReadInv, Owned, Filled, Undropped, Idle

\* Read of gitlstree's FileElement always has the blob to answer with: under
\* buf_mutex_ it fetches again what the release of another handle cleared.
THEOREM ReadsAreServed == ~Githubfs /\ Spec => []ReadServed
<1>1. ReadInv => ReadServed
  BY DEF ReadInv, Filled, ReadServed, AtPc
<1>2. ASSUME ~Githubfs PROVE Init /\ [][Next]_vars => []ReadServed
  <2>1. ReadInv /\ [Next]_vars => ReadInv'
    BY <1>2, NextRead
  <2> QED
    BY <1>1, <2>1, InitRead, PTL
<1> QED
  BY <1>2 DEF Spec
=============================================================================
