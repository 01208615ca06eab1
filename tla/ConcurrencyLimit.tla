-------------------------- MODULE ConcurrencyLimit --------------------------
(***************************************************************************)
(* ScopedConcurrencyLimit: a job (a curl of githubfs, a git command of     *)
(* gitlstree over ssh) constructs one before it starts its process and     *)
(* destroys it afterwards.  messages_ holds the instances in scope.        *)
(*                                                                         *)
(* messages_ is only touched with m_ held and cv_.wait gives m_ up         *)
(* atomically, so each critical section is one step.  What is not atomic:  *)
(* the destructor erases its message under m_ and calls notify_one after   *)
(* it unlocked, and a notified waiter must take m_ again, so another       *)
(* constructor may overtake it.                                            *)
(***************************************************************************)
EXTENDS Integers, FiniteSets

CONSTANTS
  Jobs,       \* the instances constructed, each once
  kLimit

ASSUME LimitAssumption ==
  /\ kLimit \in Nat
  /\ IsFiniteSet(Jobs)

VARIABLES
  pc,         \* where each job is
  messages    \* messages_, the jobs in scope

vars == <<pc, messages>>

At(p) == {j \in Jobs : pc[j] = p}

\* Mutant: a limit of one more.
BelowLimitPlus == Cardinality(messages) <= kLimit + 1

\* wait's predicate; negated, the test in front of it.
BelowLimit == Cardinality(messages) <= kLimit

Init ==
  /\ pc = [j \in Jobs |-> "out"]
  /\ messages = {}

\* The constructor up to the insert, or up to the wait.
Construct(j) ==
  /\ pc[j] = "out"
  /\ IF BelowLimit
     THEN /\ messages' = messages \cup {j}
          /\ pc' = [pc EXCEPT ![j] = "run"]
     ELSE /\ pc' = [pc EXCEPT ![j] = "wait"]
          /\ UNCHANGED messages

\* Mutant: wait without the predicate, the waiter goes on when it is woken.
RecheckBlind(j) ==
  /\ pc[j] = "woken"
  /\ messages' = messages \cup {j}
  /\ pc' = [pc EXCEPT ![j] = "run"]

\* A waiter that left the wait has m_ again and evaluates the predicate.
Recheck(j) ==
  /\ pc[j] = "woken"
  /\ IF BelowLimit
     THEN /\ messages' = messages \cup {j}
          /\ pc' = [pc EXCEPT ![j] = "run"]
     ELSE /\ pc' = [pc EXCEPT ![j] = "wait"]
          /\ UNCHANGED messages

\* A condition variable may wake a waiter without a notification.
SpuriousWakeup(j) ==
  /\ pc[j] = "wait"
  /\ pc' = [pc EXCEPT ![j] = "woken"]
  /\ UNCHANGED messages

\* Mutant: the destructor does not notify.
DestroyQuiet(j) ==
  /\ pc[j] = "run"
  /\ messages' = messages \ {j}
  /\ pc' = [pc EXCEPT ![j] = "done"]

\* Mutant: the destructor forgets its message.
DestroyLeaks(j) ==
  /\ pc[j] = "run"
  /\ pc' = [pc EXCEPT ![j] = "notify"]
  /\ UNCHANGED messages

\* The block of the destructor that holds m_.
Destroy(j) ==
  /\ pc[j] = "run"
  /\ messages' = messages \ {j}
  /\ pc' = [pc EXCEPT ![j] = "notify"]

\* notify_one: any waiter, or nobody.
Notify(j) ==
  /\ pc[j] = "notify"
  /\ \/ /\ At("wait") = {}
        /\ pc' = [pc EXCEPT ![j] = "done"]
     \/ \E w \in At("wait") : pc' = [pc EXCEPT ![j] = "done", ![w] = "woken"]
  /\ UNCHANGED messages

\* Every job has run: a correct end, unlike jobs that wait for nobody.
Finished ==
  /\ At("done") = Jobs
  /\ UNCHANGED vars

Next ==
  \/ \E j \in Jobs :
       \/ Construct(j) \/ Recheck(j) \/ SpuriousWakeup(j)
       \/ Destroy(j) \/ Notify(j)
  \/ Finished

Spec == Init /\ [][Next]_vars

-----------------------------------------------------------------------------

\* The set of the jobs in scope is the jobs that run, and each has a place.
TypeOK ==
  /\ pc \in [Jobs -> {"out", "wait", "woken", "run", "notify", "done"}]
  /\ messages = At("run")

\* The limit the code enforces: with `>` in front of the wait and `<=` in
\* its predicate, kLimit + 1 jobs run at once (the 20 jobs of the test in 3
\* beats), never more, however notifications and newcomers interleave.
Bounded == Cardinality(messages) <= kLimit + 1

\* No lost wake-up: whenever somebody waits, every free place is matched by
\* a notification still to be sent or by a waiter already woken, although
\* notify_one is called without the mutex and newcomers take places.
NoLostWakeup ==
  At("wait") # {} =>
    Cardinality(messages) + Cardinality(At("woken")) + Cardinality(At("notify")) > kLimit
=============================================================================
