------------------------------ MODULE PlainFs ------------------------------
(***************************************************************************)
(* What a user of cowfs is promised: a flat file system in which a file    *)
(* has a content of its own, and a content changes only through a handle   *)
(* opened on that very file.  Nothing of this module mentions hard links,  *)
(* the repository or the dedupe: they must be invisible (cowfs.cc:186-188  *)
(* "one file can be modified while leaving the other intact").             *)
(*                                                                         *)
(* A hard link made by the user is a copy here: cowfs breaks every link    *)
(* before modification, so the two names never share a later write.        *)
(***************************************************************************)
EXTENDS Naturals

CONSTANTS
  Files,     \* user visible names
  Contents,  \* what a file may contain
  Empty,     \* the content of a file that was just created
  Handles,   \* open file descriptors a client may hold
  None       \* no file, no content

VARIABLES
  content,   \* content[f]: what f contains, None when f does not exist
  writer     \* writer[h]: the file h was opened on for writing, or None

vars == <<content, writer>>

TypeOK ==
  /\ content \in [Files -> Contents \cup {None}]
  /\ writer \in [Handles -> Files \cup {None}]

Init ==
  /\ content \in [Files -> Contents \cup {None}]
  /\ writer = [h \in Handles |-> None]

Create(f, h) ==
  /\ content[f] = None
  /\ writer[h] = None
  /\ content' = [content EXCEPT ![f] = Empty]
  /\ writer' = [writer EXCEPT ![h] = f]

\* A create for reading.
Make(f) ==
  /\ content[f] = None
  /\ content' = [content EXCEPT ![f] = Empty]
  /\ UNCHANGED writer

Open(f, h) ==
  /\ content[f] # None
  /\ writer[h] = None
  /\ writer' = [writer EXCEPT ![h] = f]
  /\ UNCHANGED content

Write(h, c) ==
  /\ writer[h] # None
  /\ content' = [content EXCEPT ![writer[h]] = c]
  /\ UNCHANGED writer

Close(h) ==
  /\ writer[h] # None
  /\ writer' = [writer EXCEPT ![h] = None]
  /\ UNCHANGED content

Unlink(f) ==
  /\ content[f] # None
  /\ content' = [content EXCEPT ![f] = None]
  /\ UNCHANGED writer

Rename(f, g) ==
  /\ f # g
  /\ content[f] # None
  /\ content' = [content EXCEPT ![g] = content[f], ![f] = None]
  /\ UNCHANGED writer

Link(f, g) ==
  /\ content[f] # None
  /\ content[g] = None
  /\ content' = [content EXCEPT ![g] = content[f]]
  /\ UNCHANGED writer

\* The daemon dies: every handle is gone, no content is.
Crash ==
  /\ writer' = [h \in Handles |-> None]
  /\ UNCHANGED content

Next ==
  \/ \E f \in Files, h \in Handles : Create(f, h) \/ Open(f, h)
  \/ \E h \in Handles, c \in Contents : Write(h, c)
  \/ \E h \in Handles : Close(h)
  \/ \E f \in Files : Make(f) \/ Unlink(f)
  \/ \E f, g \in Files : Rename(f, g) \/ Link(f, g)
  \/ Crash

Spec == Init /\ [][Next]_vars
=============================================================================
