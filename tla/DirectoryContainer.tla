-------------------------- MODULE DirectoryContainer --------------------------
(***************************************************************************)
(* directory_container: the tree of File objects every read-only file      *)
(* system of the repository is served from.  It is kept twice: files_ of   *)
(* DirectoryContainer maps a full path to a raw pointer, and each          *)
(* Directory owns its children by name.  The handlers look a path up in    *)
(* the map and list a directory from its children.                         *)
(*                                                                         *)
(* The module is the object: its state and its methods, for the daemons    *)
(* that call them.  Each method holds path_mutex_ from end to end, so it   *)
(* is one step.  A path is the sequence of its names; the root is <<>>,    *)
(* "/" as a key of files_ and "" as a DirName.                             *)
(***************************************************************************)
EXTENDS Sequences, SequencesExt

VARIABLES
  files,      \* files_ of the container: path to object
  links       \* files_ of all directories: [dir, name, file]

containerVars == <<files, links>>

\* An object: a Directory or another File, and what it was made for.
Object(isDir, made) == [dir |-> isDir, made |-> made]

root_ == Object(TRUE, <<"root", <<>>>>)
AutoCreated(path) == Object(TRUE, <<"auto", path>>)
Null == Object(FALSE, <<"null", <<>>>>)

BaseName(path) == Last(path)
DirName(path) == Front(path)

ContainerInit ==
  /\ files = [path \in {<<>>} |-> root_]
  /\ links = {}

\* get and mutable_get.
Get(path) == IF path \in DOMAIN files THEN files[path] ELSE Null

\* Directory::get.
Child(d, name) ==
  IF \E l \in links : l.dir = d /\ l.name = name
  THEN (CHOOSE l \in links : l.dir = d /\ l.name = name).file
  ELSE Null

\* Directory::for_each.
Names(d) == {l.name : l \in {l \in links : l.dir = d}}

\* The directories MaybeCreateParentDir has to create: the part of the path
\* below the longest one it finds.
Missing(path) ==
  {q \in Prefixes(path) :
     \A r \in Prefixes(path) : Len(r) >= Len(q) => r \notin DOMAIN files}

Link(d, path, o) == [dir |-> d, name |-> BaseName(path), file |-> o]

\* Mutant: a directory keeps the child it has of that name (emplace).
AddFirstStays(path, o) ==
  LET new == Missing(DirName(path))
      known == [q \in DOMAIN files \cup new |-> IF q \in new THEN AutoCreated(q) ELSE files[q]]
      owner == known[DirName(path)]
  IN /\ files' = [q \in DOMAIN known \cup {path} |-> IF q = path THEN o ELSE known[q]]
     /\ links' = links \cup {Link(known[DirName(q)], q, AutoCreated(q)) : q \in new}
                   \cup IF Child(owner, BaseName(path)) = Null THEN {Link(owner, path, o)} ELSE {}

\* DirectoryContainer::add with MaybeCreateParentDir: the object replaces,
\* and so destroys, whatever had its name.
Add(path, o) ==
  LET new == Missing(DirName(path))
      known == [q \in DOMAIN files \cup new |-> IF q \in new THEN AutoCreated(q) ELSE files[q]]
      owner == known[DirName(path)]
  IN /\ files' = [q \in DOMAIN known \cup {path} |-> IF q = path THEN o ELSE known[q]]
     /\ links' = {l \in links : l.dir # owner \/ l.name # BaseName(path)}
                   \cup {Link(known[DirName(q)], q, AutoCreated(q)) : q \in new}
                   \cup {Link(owner, path, o)}

\* The object the owners lead to, name by name.  An object is alive as long
\* as such a walk from the root reaches it.
Walk(path) ==
  LET at[n \in 0 .. Len(path)] ==
        IF n = 0 THEN root_ ELSE Child(at[n - 1], path[n])
  IN at[Len(path)]

-----------------------------------------------------------------------------
(* The handlers of git_adapter, for a container that is loaded.  Each is    *)
(* the answer to a path; 0 or a kind of file where it succeeds.             *)

GetattrOf(path) ==
  LET f == Get(path)
  IN IF f = Null THEN "ENOENT" ELSE IF f.dir THEN "dir" ELSE "file"

\* opendir leaves the Directory in fh; readdir lists it.
OpendirOf(path) == IF Get(path).dir THEN "ok" ELSE "ENOENT"
ReaddirOf(path) == Names(Get(path))

-----------------------------------------------------------------------------

\* The two copies of the tree agree: every pointer of files_ is to the live
\* object its path leads to (a Directory added over one that was created for
\* an early child destroys the child, and files_ keeps its address), only
\* directories have children (MaybeCreateParentDir casts without a test),
\* and a directory lists exactly the names getattr finds under its path.
TreeAgrees ==
  /\ \A p \in DOMAIN files : files[p] # Null /\ Walk(p) = files[p]
  /\ \A l \in links : l.dir.dir
  /\ \A p \in DOMAIN files :
       OpendirOf(p) = "ok" =>
         ReaddirOf(p) = {Last(q) : q \in {q \in DOMAIN files \ {<<>>} : Front(q) = p}}
=============================================================================
