----------------------------- MODULE GithubLoader -----------------------------
(***************************************************************************)
(* The start of git-githubfs: GitTree's constructor fetches the tree of a  *)
(* commit and fills the container before fuse_main serves it.  It asks     *)
(* GitHub to recurse; if the answer is truncated it starts again and       *)
(* fetches tree by tree, each in a job of std::async.                      *)
(*                                                                         *)
(* A call of LoadDirectoryInternal is named by the answer it fetches.      *)
(* HttpFetch holds a ScopedConcurrencyLimit around its curl, so the limit  *)
(* is part of the state: its Jobs are these fetches.                       *)
(***************************************************************************)
EXTENDS ConcurrencyLimit, DirectoryContainer

CONSTANTS
  Trees,      \* the paths of the repository's trees below the root
  Files,      \*   and of its blobs
  Status,     \* the name of the status file
  MayDefer,   \* thread creation may fail, and std::async then defers the job
  FetchFails  \* an answer may be no tree: curl fails, or the rate limit is hit

Entries == Trees \cup Files

\* A call: the whole tree at once, or one tree.
Rec == [tree |-> <<>>, recurse |-> TRUE]
Single(t) == [tree |-> t, recurse |-> FALSE]

\* A repository, with no entry named as the status file.
ASSUME LoaderAssumption ==
  /\ Trees \cap Files = {}
  /\ Entries \subseteq Seq(STRING) \ {<<>>} /\ Status \in STRING
  /\ \A e \in Entries : Front(e) \in Trees \cup {<<>>}
  /\ \A e \in Entries : Last(e) # Status
  /\ Jobs = {Rec} \cup {Single(t) : t \in Trees \cup {<<>>}}
  /\ MayDefer \in BOOLEAN /\ FetchFails \in BOOLEAN

VARIABLES
  step,       \* where each call is
  todo,       \*   the entries of its answer that are still to be added
  children,   \*   the calls it waits for
  truncated,  \* what GitHub says of the recursive answer
  phase       \* of the process

loaderVars == <<step, todo, children, truncated, phase>>
allVars == <<vars, containerVars, loaderVars>>

LoadInit ==
  /\ Init
  /\ ContainerInit
  /\ step = [j \in Jobs |-> IF j = Rec THEN "fetch" ELSE "none"]
  /\ todo = [j \in Jobs |-> {}]
  /\ children = [j \in Jobs |-> {}]
  /\ truncated \in BOOLEAN
  /\ phase = "load"

Running(j, s) == phase # "aborted" /\ step[j] = s

\* The tree array of an answer: all of it, or the entries of one tree.
Answer(j) == IF j.recurse THEN Entries ELSE {e \in Entries : Front(e) = j.tree}

\* HttpFetch: the limit's constructor, the curl, the limit's destructor.
HttpFetch(j) ==
  /\ Running(j, "fetch")
  /\ Construct(j) \/ Recheck(j) \/ Destroy(j) \/ Notify(j)

Fetching(j) ==
  /\ HttpFetch(j)
  /\ UNCHANGED <<containerVars, loaderVars>>

Spurious(j) ==
  /\ Running(j, "fetch")
  /\ SpuriousWakeup(j)
  /\ UNCHANGED <<containerVars, loaderVars>>

\* ParseTrees looks at "truncated" before it hands out an entry; an answer
\* that is no tree fails an assertion.  GitHub is taken to truncate no
\* answer about one tree: the call would repeat itself without an end.
ParseTrees(j) ==
  /\ Running(j, "fetch")
  /\ pc[j] = "done"
  /\ \/ /\ j = Rec /\ truncated
        /\ step' = [step EXCEPT ![j] = "join", ![Single(<<>>)] = "fetch"]
        /\ children' = [children EXCEPT ![j] = {Single(<<>>)}]
        /\ UNCHANGED <<todo, phase>>
     \/ /\ ~(j = Rec /\ truncated)
        /\ step' = [step EXCEPT ![j] = "add"]
        /\ todo' = [todo EXCEPT ![j] = Answer(j)]
        /\ UNCHANGED <<children, phase>>
     \/ /\ FetchFails
        /\ phase' = "aborted"
        /\ UNCHANGED <<step, todo, children>>
  /\ UNCHANGED <<vars, containerVars, truncated>>

\* Mutant: every tree is served at the root, as when recursion is off.
SlashPathLast(j, e) == <<Last(e)>>

\* slash_path: "/" and the path of the entry, which the answer gives
\* relative to the tree that was asked for.
SlashPath(j, e) == IF j.recurse THEN e ELSE <<Last(e)>>

\* Thread creation for a tree: the job runs, or it is deferred and nobody
\* ever calls get on its future.
Start(j, e) ==
  LET job == Single(e)
  IN /\ children' = [children EXCEPT ![j] = @ \cup {job}]
     /\ \/ step' = [step EXCEPT ![job] = "fetch"]
        \/ MayDefer /\ step' = [step EXCEPT ![job] = "deferred"]

\* The handler of an entry.  Trees come before what is in them.  The start
\* of the job belongs to the step: it is not seen before its first action.
FileHandler(j, e) ==
  /\ Running(j, "add")
  /\ e \in todo[j]
  /\ Front(e) \notin todo[j]
  /\ Add(SlashPath(j, e), Object(e \in Trees, <<"entry", e>>))
  /\ todo' = [todo EXCEPT ![j] = @ \ {e}]
  /\ IF e \in Trees /\ ~j.recurse
     THEN Start(j, e)
     ELSE UNCHANGED <<step, children>>
  /\ UNCHANGED <<vars, truncated, phase>>

\* Mutant: the futures are not joined.
ReturnDetached(j) ==
  /\ phase # "aborted"
  /\ \/ step[j] = "add" /\ todo[j] = {}
     \/ step[j] = "join" /\ \A k \in children[j] : step[k] \in {"done", "deferred"}
  /\ step' = [step EXCEPT ![j] = "done"]
  /\ UNCHANGED <<vars, containerVars, todo, children, truncated, phase>>

\* The end of the function: the futures of jobs are destroyed, which waits
\* for those that run; or the nested call has returned.
Return(j) ==
  /\ phase # "aborted"
  /\ \/ step[j] = "add" /\ todo[j] = {}
     \/ step[j] = "join"
  /\ \A k \in children[j] : step[k] \in {"done", "deferred"}
  /\ step' = [step EXCEPT ![j] = "done"]
  /\ UNCHANGED <<vars, containerVars, todo, children, truncated, phase>>

\* The end of the constructor, and fuse_main.
Mount ==
  /\ phase = "load" /\ step[Rec] = "done"
  /\ Add(<<Status>>, Object(FALSE, <<"status", <<>>>>))
  /\ phase' = "mounted"
  /\ UNCHANGED <<vars, step, todo, children, truncated>>

\* The tree is served, or the process is gone.
Serve == phase # "load" /\ UNCHANGED allVars

Thread(j) ==
  \/ Fetching(j) \/ ParseTrees(j) \/ Return(j)
  \/ \E e \in Entries : FileHandler(j, e)

LoadNext == (\E j \in Jobs : Thread(j) \/ Spurious(j)) \/ Mount \/ Serve

LoadSpec == LoadInit /\ [][LoadNext]_allVars

\* The thread of every call keeps running, once it was created; a waiter is
\* only woken by a notification.
LoadFairness ==
  /\ WF_allVars(Mount)
  /\ \A j \in Jobs : WF_allVars(Thread(j))

LoadFairSpec == LoadSpec /\ LoadFairness

-----------------------------------------------------------------------------

\* What GitHub lists is served at its path, when GitHub could list all of
\* it: no entry is lost or replaced, whatever the order of the handlers.
Complete ==
  phase = "mounted" /\ ~truncated =>
    \A e \in Entries : Get(e) = Object(e \in Trees, <<"entry", e>>)

\* The same without the condition, as the comment at the retry says: "If
\* remote side recursion didn't work, do recursion here."
CompleteOnRetry ==
  phase = "mounted" =>
    \A e \in Entries : Get(e) = Object(e \in Trees, <<"entry", e>>)

\* Nothing is added to the container once it is served, and no job is left
\* that uses it: fuse_main forks, and the handlers use pointers they looked
\* up under path_mutex_ after they gave it up.
ServedIsFrozen ==
  [][phase = "mounted" => UNCHANGED <<containerVars, vars>>]_allVars

\* The mount comes, or the process ends: calls wait for their jobs, and the
\* jobs for places under the limit, but nobody waits for a place while it
\* keeps another one.
LoadEnds == <>(phase # "load")
=============================================================================
