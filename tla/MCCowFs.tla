------------------------------ MODULE MCCowFs ------------------------------
(* Small instances of CowFs for TLC. *)
EXTENDS CowFs, TLC

CONSTANTS f1, f2, a, b, t1, t2, h1, h2

OneFile == {f1}
TwoFiles == {f1, f2}
EmptyOnly == {Empty}
OneContent == {Empty, a}
TwoContents == {Empty, a, b}
OneThread == {t1}
TwoThreads == {t1, t2}
OneHandle == {h1}
TwoHandles == {h1, h2}

Inodes4 == 1 .. 4
Inodes8 == 1 .. 8

\* Files, threads and handles are interchangeable; so are the contents but
\* Empty.
Symmetry ==
  Permutations(Files) \cup Permutations(Threads) \cup Permutations(Handles)
    \cup Permutations(Contents \ {Empty})
=============================================================================
