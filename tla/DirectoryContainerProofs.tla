------------------------ MODULE DirectoryContainerProofs ------------------------
(***************************************************************************)
(* What add does to the two copies of the tree, for a container of any     *)
(* size and depth.  The daemons that fill one (GithubLoader, NinjaFs) have *)
(* to show that what they add Fits; then Tree, and with it TreeAgrees,     *)
(* stays.                                                                  *)
(*                                                                         *)
(* A walk from the root goes as deep as the path is long, so that it leads *)
(* to the object is shown by induction on the length.  The provers take no *)
(* operator as an argument of a theorem; LeastNumber of Induction has a    *)
(* set instead: the least number at which a claim fails.                   *)
(***************************************************************************)
EXTENDS DirectoryContainer, Induction

Paths == Seq(STRING)

\* The directory of a path below the root, and the part of the files below it.
Inner == DOMAIN files \ {<<>>}

\* Every path of files_ has all paths above it there too, as directories; the
\* links are those from each directory to what is one name below it; and no
\* object is at two paths, so that a raw pointer identifies its path.
PrefixClosed == \A q \in DOMAIN files : \A n \in 0 .. Len(q) : SubSeq(q, 1, n) \in DOMAIN files
Linked == links = {Link(files[Front(q)], q, files[q]) : q \in Inner}
Distinct == \A p, q \in DOMAIN files : files[p] = files[q] => p = q

Tree ==
  /\ DOMAIN files \subseteq Paths
  /\ <<>> \in DOMAIN files /\ files[<<>>] = root_
  /\ Null \notin {files[q] : q \in DOMAIN files}
  /\ PrefixClosed
  /\ \A q \in Inner : files[Front(q)].dir
  /\ Linked
  /\ Distinct
  /\ \A p \in DOMAIN files : \A q \in Paths : files[p] = AutoCreated(q) => p = q

\* What a caller of add has to see to: the paths above are not files, nothing
\* is below the path (or the children of a directory would go with it), and the
\* object is a new one.
Fits(path, o) ==
  /\ path \in Paths \ {<<>>}
  /\ \A q \in DOMAIN files \cap Prefixes(Front(path)) : files[q].dir
  /\ \A q \in Inner : Front(q) # path
  /\ o # Null /\ \A q \in Paths : o # AutoCreated(q)
  /\ \A q \in DOMAIN files \ {path} : files[q] # o

-----------------------------------------------------------------------------
(* Paths.                                                                  *)

\* The paths above a path.
LEMMA Above ==
  ASSUME NEW p \in Paths, NEW n \in 0 .. Len(p)
  PROVE  /\ SubSeq(p, 1, n) \in Paths /\ Len(SubSeq(p, 1, n)) = n
         /\ \A i \in 1 .. n : SubSeq(p, 1, n)[i] = p[i]
         /\ \A m \in 0 .. n : SubSeq(SubSeq(p, 1, n), 1, m) = SubSeq(p, 1, m)
<1>1. Len(p) \in Nat /\ \A i \in 1 .. Len(p) : p[i] \in STRING
  BY LenProperties, ElementOfSeq DEF Paths
<1>2. ASSUME NEW m \in 0 .. Len(p)
      PROVE  /\ SubSeq(p, 1, m) \in Paths /\ Len(SubSeq(p, 1, m)) = m
             /\ \A i \in 1 .. m : SubSeq(p, 1, m)[i] = p[i]
  <2>1. m \in Int /\ 1 \in Int /\ \A i \in 1 .. m : p[i] \in STRING
    BY <1>1
  <2>2. /\ SubSeq(p, 1, m) \in Seq(STRING)
        /\ Len(SubSeq(p, 1, m)) = IF 1 <= m THEN m - 1 + 1 ELSE 0
        /\ \A i \in 1 .. m - 1 + 1 : SubSeq(p, 1, m)[i] = p[1 + i - 1]
    BY <2>1, SubSeqProperties
  <2> QED
    BY <1>1, <2>2 DEF Paths
<1>3. ASSUME NEW m \in 0 .. n PROVE SubSeq(SubSeq(p, 1, n), 1, m) = SubSeq(p, 1, m)
  <2> DEFINE s == SubSeq(p, 1, n)
  <2>1. s \in Paths /\ Len(s) = n /\ (\A i \in 1 .. n : s[i] = p[i])
    BY <1>2
  <2>2. /\ SubSeq(p, 1, m) \in Paths /\ Len(SubSeq(p, 1, m)) = m
        /\ \A i \in 1 .. m : SubSeq(p, 1, m)[i] = p[i]
    BY <1>1, <1>2
  <2> HIDE DEF s
  <2>3. m \in Int /\ 1 \in Int /\ \A i \in 1 .. m : s[i] \in STRING
    BY <1>1, <2>1
  <2>4. /\ SubSeq(s, 1, m) \in Seq(STRING)
        /\ Len(SubSeq(s, 1, m)) = IF 1 <= m THEN m - 1 + 1 ELSE 0
        /\ \A i \in 1 .. m - 1 + 1 : SubSeq(s, 1, m)[i] = s[1 + i - 1]
    BY <2>3, SubSeqProperties
  <2>5. \A i \in 1 .. m : SubSeq(s, 1, m)[i] = SubSeq(p, 1, m)[i]
    BY <1>1, <2>1, <2>2, <2>4
  <2>6. SubSeq(s, 1, m) = SubSeq(p, 1, m)
    BY <2>2, <2>4, <2>5, SeqEqual DEF Paths
  <2> QED
    BY <2>6 DEF s
<1> QED
  BY <1>2, <1>3

\* A path is its DirName and its BaseName.
LEMMA FrontLast ==
  ASSUME NEW p \in Paths, p # <<>>
  PROVE  /\ Front(p) \in Paths /\ Last(p) \in STRING
         /\ Len(Front(p)) = Len(p) - 1 /\ Front(p) # p
         /\ \A i \in 1 .. Len(p) - 1 : Front(p)[i] = p[i]
<1>1. Len(p) \in Nat /\ Len(p) > 0 /\ \A i \in 1 .. Len(p) : p[i] \in STRING
  BY EmptySeq, LenProperties, ElementOfSeq DEF Paths
<1>2. /\ SubSeq(p, 1, Len(p) - 1) \in Seq(STRING)
      /\ Len(SubSeq(p, 1, Len(p) - 1)) = Len(p) - 1
      /\ \A i \in 1 .. Len(p) - 1 : SubSeq(p, 1, Len(p) - 1)[i] = p[i]
  <2>1. Len(p) - 1 \in 0 .. Len(p)
    BY <1>1
  <2> QED
    BY <2>1, Above DEF Paths
<1> QED
  BY <1>1, <1>2 DEF Paths, Front, Last

LEMMA SamePath ==
  ASSUME NEW p \in Paths \ {<<>>}, NEW q \in Paths \ {<<>>},
         Front(p) = Front(q), Last(p) = Last(q)
  PROVE  p = q
<1>1. Len(p) \in Nat /\ Len(q) \in Nat /\ Len(p) = Len(q)
  BY FrontLast, LenProperties DEF Paths
<1>2. ASSUME NEW i \in 1 .. Len(p) PROVE p[i] = q[i]
  <2>1. CASE i = Len(p)
    BY <1>1, <2>1 DEF Last
  <2>2. CASE i # Len(p)
    <3>1. i \in 1 .. Len(p) - 1
      BY <1>1, <2>2
    <3> QED
      BY <1>1, <3>1, FrontLast
  <2> QED
    BY <2>1, <2>2
<1> QED
  BY <1>1, <1>2, SeqEqual DEF Paths

LEMMA AbovePath ==
  ASSUME NEW p \in Paths \ {<<>>}
  PROVE  /\ Prefixes(p) = Prefixes(Front(p)) \cup {p}
         /\ Prefixes(p) \subseteq Paths /\ p \notin Prefixes(Front(p))
         /\ <<>> \in Prefixes(Front(p)) /\ Front(p) \in Prefixes(Front(p))
         /\ \A q \in Prefixes(p) \ {<<>>} : Front(q) \in Prefixes(Front(p))
<1> DEFINE k == Len(p) - 1
<1>1. /\ k \in Nat /\ Len(p) = k + 1 /\ Len(p) \in 0 .. Len(p) /\ k \in 0 .. Len(p)
      /\ Front(p) = SubSeq(p, 1, k) /\ SubSeq(p, 1, Len(p)) = p
  BY EmptySeq, LenProperties, SubSeqFull DEF Paths, Front
<1> HIDE DEF k
<1>2. Len(Front(p)) = k /\ \A m \in 0 .. k : SubSeq(Front(p), 1, m) = SubSeq(p, 1, m)
  BY <1>1, Above
<1>3. Prefixes(Front(p)) = {SubSeq(p, 1, m) : m \in 0 .. k}
  BY <1>2 DEF Prefixes
<1>4. Prefixes(p) = {SubSeq(p, 1, m) : m \in 0 .. k + 1}
  BY <1>1 DEF Prefixes
<1>5. Prefixes(p) = Prefixes(Front(p)) \cup {p}
  <2>1. 0 .. k + 1 = 0 .. k \cup {k + 1} /\ SubSeq(p, 1, k + 1) = p
    BY <1>1
  <2> QED
    BY <1>3, <1>4, <2>1
<1>6. ASSUME NEW m \in 0 .. k + 1
      PROVE  SubSeq(p, 1, m) \in Paths /\ Len(SubSeq(p, 1, m)) = m
  BY <1>1, Above
<1>7. Prefixes(p) \subseteq Paths
  BY <1>4, <1>6
<1>8. p \notin Prefixes(Front(p))
  <2>1. ASSUME NEW m \in 0 .. k PROVE SubSeq(p, 1, m) # p
    <3>1. m \in 0 .. k + 1 /\ m # k + 1
      BY <1>1
    <3> QED
      BY <1>1, <1>6, <3>1
  <2> QED
    BY <1>3, <2>1
<1>9. k \in 0 .. k /\ 0 \in 0 .. k
  BY <1>1
<1>10. SubSeq(p, 1, 0) = <<>>
  BY SubSeqEmpty
<1>11. <<>> \in Prefixes(Front(p)) /\ Front(p) \in Prefixes(Front(p))
  <2> HIDE DEF k
  <2>1. SubSeq(p, 1, 0) \in Prefixes(Front(p)) /\ SubSeq(p, 1, k) \in Prefixes(Front(p))
    BY <1>3, <1>9
  <2> QED
    BY <1>1, <1>10, <2>1, Zenon
<1>12. ASSUME NEW m \in 0 .. k + 1, SubSeq(p, 1, m) # <<>>
       PROVE  Front(SubSeq(p, 1, m)) \in Prefixes(Front(p))
  <2>1. m # 0 /\ m - 1 \in 0 .. m /\ m - 1 \in 0 .. k /\ m \in 0 .. Len(p)
    BY <1>1, <1>10, <1>12
  <2>2. Len(SubSeq(p, 1, m)) = m
    BY <1>6
  <2>3. Front(SubSeq(p, 1, m)) = SubSeq(SubSeq(p, 1, m), 1, m - 1)
    BY <2>2 DEF Front
  <2>4. Front(SubSeq(p, 1, m)) = SubSeq(p, 1, m - 1)
    BY <2>1, <2>3, Above
  <2> QED
    BY <1>3, <2>1, <2>4
<1> QED
  BY <1>4, <1>5, <1>7, <1>8, <1>11, <1>12

-----------------------------------------------------------------------------
(* add.                                                                    *)

\* MaybeCreateParentDir makes what is not there, since the paths above what
\* it finds are there.
LEMMA NewDirectories ==
  ASSUME Tree, NEW p \in Paths
  PROVE  Missing(p) = Prefixes(p) \ DOMAIN files
<1>1. ASSUME NEW q \in Prefixes(p), NEW r \in Prefixes(p), Len(r) >= Len(q),
             r \in DOMAIN files
      PROVE  q \in DOMAIN files
  <2>1. PICK m \in 0 .. Len(p), n \in 0 .. Len(p) : q = SubSeq(p, 1, m) /\ r = SubSeq(p, 1, n)
    BY DEF Prefixes
  <2>2. Len(p) \in Nat
    BY LenProperties DEF Paths
  <2>3. Len(q) = m /\ Len(r) = n
    BY <2>1, Above
  <2>4. m \in 0 .. n
    BY <1>1, <2>2, <2>3
  <2>5. SubSeq(r, 1, m) = q
    BY <2>1, <2>4, Above
  <2> QED
    BY <1>1, <2>3, <2>4, <2>5 DEF Tree, PrefixClosed
<1>2. \A q \in Prefixes(p) : Len(q) >= Len(q)
  <2>1. Len(p) \in Nat
    BY LenProperties DEF Paths
  <2>2. ASSUME NEW m \in 0 .. Len(p) PROVE Len(SubSeq(p, 1, m)) >= Len(SubSeq(p, 1, m))
    BY <2>1, Above
  <2> QED
    BY <2>2 DEF Prefixes
<1> QED
  BY <1>1, <1>2 DEF Missing

\* The directories add creates on the way to a path.
NewAbove(path) == Prefixes(Front(path)) \ DOMAIN files

\* The whole of add: the new objects are at their paths, the old ones stay where
\* they were, and only the link of the path itself is replaced.
LEMMA AddEffect ==
  ASSUME Tree, NEW path, NEW o, Fits(path, o), Add(path, o)
  PROVE  /\ DOMAIN files' = DOMAIN files \cup Prefixes(path)
         /\ files'[path] = o
         /\ \A q \in DOMAIN files \ {path} : files'[q] = files[q]
         /\ \A q \in NewAbove(path) : q # path /\ files'[q] = AutoCreated(q)
         /\ links' = {l \in links : l.dir # files'[Front(path)] \/ l.name # Last(path)}
                       \cup {Link(files'[Front(q)], q, files'[q]) : q \in NewAbove(path)}
                       \cup {Link(files'[Front(path)], path, o)}
<1> DEFINE new == NewAbove(path)
           known == [q \in DOMAIN files \cup new |->
                      IF q \in new THEN AutoCreated(q) ELSE files[q]]
<1>1. path \in Paths \ {<<>>} /\ Front(path) \in Paths
  BY FrontLast DEF Fits
<1>2. Missing(DirName(path)) = new
  BY <1>1, NewDirectories DEF DirName, NewAbove
<1>3. /\ files' = [q \in DOMAIN known \cup {path} |-> IF q = path THEN o ELSE known[q]]
      /\ links' = {l \in links : l.dir # known[Front(path)] \/ l.name # Last(path)}
                    \cup {Link(known[Front(q)], q, AutoCreated(q)) : q \in new}
                    \cup {Link(known[Front(path)], path, o)}
  BY <1>2, Zenon DEF Add, DirName, BaseName
<1>4. DOMAIN known = DOMAIN files \cup Prefixes(Front(path))
  BY DEF NewAbove
<1>5. /\ Prefixes(path) = Prefixes(Front(path)) \cup {path}
      /\ path \notin Prefixes(Front(path)) /\ Front(path) \in Prefixes(Front(path))
      /\ \A q \in Prefixes(path) \ {<<>>} : Front(q) \in Prefixes(Front(path))
  BY <1>1, AbovePath
<1>6. /\ DOMAIN files' = DOMAIN files \cup Prefixes(path)
      /\ files'[path] = o
      /\ \A q \in DOMAIN known \ {path} : files'[q] = known[q]
  BY <1>3, <1>4, <1>5
<1>7. /\ \A q \in DOMAIN files \ {path} : files'[q] = files[q]
      /\ \A q \in new : q # path /\ files'[q] = AutoCreated(q)
  BY <1>4, <1>5, <1>6 DEF NewAbove
<1>8. \A q \in Prefixes(Front(path)) : known[q] = files'[q]
  BY <1>4, <1>5, <1>6
<1>9. ASSUME NEW q \in new
      PROVE  known[Front(q)] = files'[Front(q)] /\ AutoCreated(q) = files'[q]
  <2>1. q # <<>>
    BY DEF NewAbove, Tree
  <2>2. Front(q) \in Prefixes(Front(path))
    BY <1>5, <2>1 DEF NewAbove
  <2> QED
    BY <1>7, <1>8, <2>2
<1> HIDE DEF new, known
<1>10. {Link(known[Front(q)], q, AutoCreated(q)) : q \in new}
         = {Link(files'[Front(q)], q, files'[q]) : q \in new}
  BY <1>9
<1>11. known[Front(path)] = files'[Front(path)]
  BY <1>5, <1>8
<1> QED
  BY <1>3, <1>6, <1>7, <1>10, <1>11 DEF new

LEMMA AutoDistinct ==
  ASSUME NEW p, NEW q, AutoCreated(p) = AutoCreated(q)
  PROVE  p = q
<1>1. AutoCreated(p).made[2] = p /\ AutoCreated(q).made[2] = q
  BY DEF AutoCreated, Object
<1> QED
  BY <1>1

\* The tree stays one, and grows by the path and the directories on the way.
LEMMA AddKeepsTree ==
  ASSUME Tree, NEW path, NEW o, Fits(path, o), Add(path, o)
  PROVE  Tree'
<1> DEFINE new == NewAbove(path)
           old == DOMAIN files \ {path}
           owner == files'[Front(path)]
<1>1. path \in Paths \ {<<>>} /\ Front(path) \in Paths
  BY FrontLast DEF Fits
<1>2. /\ Prefixes(path) = Prefixes(Front(path)) \cup {path} /\ Prefixes(path) \subseteq Paths
      /\ path \notin Prefixes(Front(path)) /\ Front(path) \in Prefixes(Front(path))
      /\ \A q \in Prefixes(path) \ {<<>>} : Front(q) \in Prefixes(Front(path))
  BY <1>1, AbovePath
<1>3. /\ DOMAIN files' = DOMAIN files \cup Prefixes(path)
      /\ files'[path] = o
      /\ \A q \in old : files'[q] = files[q]
      /\ \A q \in new : q # path /\ files'[q] = AutoCreated(q)
      /\ links' = {l \in links : l.dir # files'[Front(path)] \/ l.name # Last(path)}
                    \cup {Link(files'[Front(q)], q, files'[q]) : q \in new}
                    \cup {Link(files'[Front(path)], path, o)}
  BY AddEffect
<1>4. DOMAIN files' = old \cup new \cup {path} /\ old \cap new = {} /\ new \subseteq Paths
  BY <1>2, <1>3 DEF NewAbove
<1>5. old \subseteq Paths /\ <<>> \in old /\ <<>> \notin new
  BY <1>1 DEF Tree, NewAbove
<1>6. \A q \in new : files'[q].dir /\ files'[q] # Null
  <2>1. ASSUME NEW q PROVE AutoCreated(q).dir /\ AutoCreated(q) # Null
    BY DEF AutoCreated, Object, Null
  <2> QED
    BY <1>3, <2>1
<1>7. \A q \in Inner : Front(q) \in old
  <2>1. \A q \in Inner : Front(q) # path
    BY DEF Fits
  <2>2. ASSUME NEW q \in Inner PROVE Front(q) \in DOMAIN files
    <3>1. q \in Paths /\ q # <<>>
      BY DEF Tree, Inner
    <3>2. Len(q) - 1 \in 0 .. Len(q) /\ Front(q) = SubSeq(q, 1, Len(q) - 1)
      BY <3>1, EmptySeq DEF Paths, Front
    <3> QED
      BY <3>2 DEF Tree, PrefixClosed, Inner
  <2> QED
    BY <2>1, <2>2
<1>8. DOMAIN files' \subseteq Paths
  BY <1>1, <1>4, <1>5
<1>9. <<>> \in DOMAIN files' /\ files'[<<>>] = root_
  BY <1>3, <1>4, <1>5 DEF Tree
<1>10. Null \notin {files'[q] : q \in DOMAIN files'}
  <2>1. o # Null /\ \A q \in old : files[q] # Null
    BY DEF Fits, Tree
  <2> QED
    BY <1>3, <1>4, <1>6, <2>1
<1>11. PrefixClosed'
  <2>1. ASSUME NEW q \in DOMAIN files', NEW n \in 0 .. Len(q)
        PROVE  SubSeq(q, 1, n) \in DOMAIN files'
    <3>1. CASE q \in DOMAIN files
      BY <1>3, <3>1 DEF Tree, PrefixClosed
    <3>2. CASE q \in Prefixes(path)
      <4>1. PICK m \in 0 .. Len(path) : q = SubSeq(path, 1, m)
        BY <3>2 DEF Prefixes
      <4>2. Len(q) = m /\ Len(path) \in Nat
        BY <1>1, <4>1, Above, LenProperties DEF Paths
      <4>3. n \in 0 .. m /\ n \in 0 .. Len(path)
        BY <4>2
      <4>4. SubSeq(q, 1, n) = SubSeq(path, 1, n)
        BY <1>1, <4>1, <4>3, Above
      <4> QED
        BY <1>3, <4>3, <4>4 DEF Prefixes
    <3> QED
      BY <1>3, <3>1, <3>2
  <2> QED
    BY <2>1 DEF PrefixClosed
<1>12. ASSUME NEW q \in new \cup {path}
       PROVE  q # <<>> /\ Front(q) \in old \cup new /\ files'[Front(q)].dir
  <2>1. q # <<>> /\ q \in Prefixes(path)
    BY <1>1, <1>2, <1>5 DEF NewAbove
  <2>2. Front(q) \in Prefixes(Front(path))
    BY <1>2, <2>1
  <2>3. CASE Front(q) \in DOMAIN files
    <3>1. files[Front(q)].dir
      BY <2>2, <2>3 DEF Fits
    <3> QED
      BY <1>2, <1>3, <2>1, <2>2, <2>3, <3>1
  <2>4. CASE Front(q) \notin DOMAIN files
    <3>1. Front(q) \in new
      BY <2>2, <2>4 DEF NewAbove
    <3> QED
      BY <1>6, <2>1, <3>1
  <2> QED
    BY <2>3, <2>4
<1>13. Inner' = (Inner \ {path}) \cup new \cup {path}
  BY <1>1, <1>4, <1>5 DEF Inner
<1>14. \A q \in Inner' : files'[Front(q)].dir
  <2>1. \A q \in Inner : files'[Front(q)].dir
    BY <1>3, <1>7 DEF Tree
  <2> QED
    BY <1>12, <1>13, <2>1
<1>15. Distinct'
  <2>1. \A p \in old, q \in new : files'[p] # files'[q]
    BY <1>3, <1>4 DEF Tree
  <2>2. \A p \in old : files'[p] # o
    BY <1>3 DEF Fits
  <2>3. \A p \in new : files'[p] # o
    BY <1>3, <1>4 DEF Fits
  <2>4. \A p, q \in new : files'[p] = files'[q] => p = q
    BY <1>3, AutoDistinct
  <2>5. \A p, q \in old : files'[p] = files'[q] => p = q
    BY <1>3 DEF Tree, Distinct
  <2> QED
    BY <1>3, <1>4, <2>1, <2>2, <2>3, <2>4, <2>5 DEF Distinct
<1>16. \A p \in DOMAIN files' : \A q \in Paths : files'[p] = AutoCreated(q) => p = q
  <2>1. \A q \in Paths : o # AutoCreated(q)
    BY DEF Fits
  <2>2. \A p \in old : \A q \in Paths : files'[p] = AutoCreated(q) => p = q
    BY <1>3 DEF Tree
  <2>3. \A p \in new : \A q \in Paths : files'[p] = AutoCreated(q) => p = q
    BY <1>3, AutoDistinct
  <2> QED
    BY <1>3, <1>4, <2>1, <2>2, <2>3
<1>17. Linked'
  <2> DEFINE L(q) == Link(files[Front(q)], q, files[q])
             M(q) == Link(files'[Front(q)], q, files'[q])
  <2>1. links = {L(q) : q \in Inner}
    BY DEF Tree, Linked
  <2>2. ASSUME NEW q \in Inner \ {path} PROVE L(q) = M(q)
    BY <1>3, <1>7 DEF Inner
  <2>3. ASSUME NEW q \in Inner
        PROVE  L(q).dir = owner /\ L(q).name = Last(path) <=> q = path
    <3>1. /\ Front(q) \in old /\ L(q).dir = files'[Front(q)] /\ L(q).name = Last(q)
          /\ q \in Paths \ {<<>>}
      BY <1>3, <1>7 DEF Link, BaseName, Inner, Tree
    <3>2. ASSUME files'[Front(q)] = owner, Last(q) = Last(path) PROVE q = path
      <4>1. Front(q) = Front(path)
        <5>1. Front(q) \in DOMAIN files' /\ Front(path) \in DOMAIN files'
          BY <1>4, <1>12, <3>1
        <5> QED
          BY <1>15, <3>2, <5>1 DEF Distinct
      <4> QED
        BY <1>1, <3>1, <3>2, <4>1, SamePath
    <3> QED
      BY <3>1, <3>2
  <2>4. {l \in links : l.dir # owner \/ l.name # Last(path)} = {M(q) : q \in Inner \ {path}}
    <3> HIDE DEF L, M, owner
    <3> QED
      BY <2>1, <2>2, <2>3
  <2>5. M(path) = Link(files'[Front(path)], path, o)
    BY <1>3
  <2>6. links' = {M(q) : q \in Inner \ {path}} \cup {M(q) : q \in new} \cup {M(path)}
    BY <1>3, <2>4, <2>5, Zenon
  <2>7. links' = {M(q) : q \in Inner'}
    <3> HIDE DEF M
    <3> QED
      BY <1>13, <2>6
  <2> QED
    BY <2>7 DEF Linked
<1> QED
  BY <1>8, <1>9, <1>10, <1>11, <1>14, <1>15, <1>16, <1>17, Zenon DEF Tree

\* Below a directory that is there, add creates no other one.
LEMMA AddBelow ==
  ASSUME Tree, NEW path \in Paths \ {<<>>}, NEW o, Add(path, o),
         Front(path) \in DOMAIN files, files[Front(path)].dir,
         \A q \in Inner : Front(q) # path,
         o # Null, \A q \in Paths : o # AutoCreated(q),
         \A q \in DOMAIN files \ {path} : files[q] # o
  PROVE  /\ Tree'
         /\ DOMAIN files' = DOMAIN files \cup {path} /\ files'[path] = o
         /\ \A q \in DOMAIN files \ {path} : files'[q] = files[q]
<1> DEFINE up == Front(path)
<1>1. /\ Prefixes(path) = Prefixes(up) \cup {path} /\ Prefixes(path) \subseteq Paths
      /\ up \in Paths /\ Len(up) \in Nat
  BY AbovePath, FrontLast, LenProperties DEF Paths
<1>2. ASSUME NEW q \in Prefixes(up) PROVE q \in DOMAIN files /\ files[q].dir
  <2>1. PICK n \in 0 .. Len(up) : q = SubSeq(up, 1, n)
    BY DEF Prefixes
  <2>2. q \in DOMAIN files
    BY <2>1 DEF Tree, PrefixClosed
  <2>3. CASE n = Len(up)
    BY <1>1, <2>1, <2>3, SubSeqFull DEF Paths
  <2>4. CASE n # Len(up)
    <3> DEFINE r == SubSeq(up, 1, n + 1)
    <3>1. n + 1 \in 0 .. Len(up) /\ n \in 0 .. n + 1 /\ n + 1 # 0
      BY <1>1, <2>4
    <3>2. Len(r) = n + 1 /\ SubSeq(r, 1, n) = q
      BY <1>1, <2>1, <3>1, Above
    <3>3. r \in DOMAIN files /\ r # <<>>
      BY <3>1, <3>2, EmptySeq DEF Tree, PrefixClosed
    <3>4. Front(r) = q
      BY <3>2 DEF Front
    <3> QED
      BY <2>2, <3>3, <3>4 DEF Tree, Inner
  <2> QED
    BY <2>2, <2>3, <2>4
<1>3. Fits(path, o)
  BY <1>2 DEF Fits
<1>4. DOMAIN files \cup Prefixes(path) = DOMAIN files \cup {path}
  BY <1>1, <1>2
<1> QED
  BY <1>3, <1>4, AddKeepsTree, AddEffect

-----------------------------------------------------------------------------
(* What the tree is good for.                                              *)

LEMMA InnerPaths ==
  ASSUME Tree, NEW q \in Inner
  PROVE  /\ q \in Paths \ {<<>>} /\ q \in DOMAIN files /\ Front(q) \in DOMAIN files
         /\ Link(files[Front(q)], q, files[q]) \in links
<1>1. q \in Paths /\ q # <<>>
  BY DEF Tree, Inner
<1>2. Len(q) - 1 \in 0 .. Len(q) /\ Front(q) = SubSeq(q, 1, Len(q) - 1)
  BY <1>1, EmptySeq DEF Paths, Front
<1>3. Front(q) \in DOMAIN files
  BY <1>2 DEF Tree, PrefixClosed, Inner
<1>4. Link(files[Front(q)], q, files[q]) \in links
  BY DEF Tree, Linked
<1> QED
  BY <1>1, <1>3, <1>4 DEF Inner

\* A link tells the path it is for.
LEMMA LinkOf ==
  ASSUME Tree, NEW l \in links, NEW p \in DOMAIN files, l.dir = files[p]
  PROVE  \E q \in Inner : Front(q) = p /\ l.name = Last(q) /\ l.file = files[q]
<1>1. PICK q \in Inner : l = Link(files[Front(q)], q, files[q])
  BY DEF Tree, Linked
<1>2. l.dir = files[Front(q)] /\ l.name = Last(q) /\ l.file = files[q]
  BY <1>1 DEF Link, BaseName
<1>3. Front(q) = p
  BY <1>2, InnerPaths DEF Tree, Distinct
<1> QED
  BY <1>2, <1>3

\* Directory::get of the directory above finds the object of the path.
LEMMA ChildOf ==
  ASSUME Tree, NEW q \in Inner
  PROVE  Child(files[Front(q)], Last(q)) = files[q]
<1> DEFINE d == files[Front(q)]
           Is(l) == l.dir = d /\ l.name = Last(q)
           l0 == Link(d, q, files[q])
           l1 == CHOOSE l \in links : Is(l)
<1>1. /\ q \in Paths \ {<<>>} /\ q \in DOMAIN files /\ Front(q) \in DOMAIN files
      /\ l0 \in links
  BY InnerPaths
<1>2. Is(l0)
  BY DEF Link, BaseName
<1>3. \E l \in links : Is(l)
  BY <1>1, <1>2
<1>4. l1 \in links /\ Is(l1)
  <2> HIDE DEF Is
  <2> QED
    BY <1>3
<1> HIDE DEF l1
<1>5. PICK r \in Inner : Front(r) = Front(q) /\ l1.name = Last(r) /\ l1.file = files[r]
  BY <1>1, <1>4, LinkOf
<1>6. r = q
  BY <1>1, <1>4, <1>5, InnerPaths, SamePath
<1>7. Child(d, Last(q)) = l1.file
  BY <1>3, Zenon DEF Child, l1
<1> QED
  BY <1>5, <1>6, <1>7

\* The walk to a path passes the objects of the paths above it.
LEMMA WalkReaches ==
  ASSUME Tree, NEW p \in DOMAIN files
  PROVE  Walk(p) = files[p]
<1> DEFINE D == 0 .. Len(p)
           IsWalk(f) ==
             f = [n \in D |-> IF n = 0 THEN root_ ELSE Child(f[n - 1], p[n])]
           g == [n \in D |-> files[SubSeq(p, 1, n)]]
           at == CHOOSE f : IsWalk(f)
<1>1. /\ p \in Paths /\ Len(p) \in Nat /\ SubSeq(p, 1, 0) = <<>> /\ SubSeq(p, 1, Len(p)) = p
  BY LenProperties, SubSeqEmpty, SubSeqFull DEF Tree, Paths
<1>2. 0 \in D /\ g[0] = root_
  <2>1. 0 \in D
    BY <1>1
  <2>2. g[0] = files[SubSeq(p, 1, 0)]
    BY <2>1
  <2> QED
    BY <1>1, <2>1, <2>2 DEF Tree
<1>3. ASSUME NEW n \in D, n # 0
      PROVE  n - 1 \in D /\ Child(g[n - 1], p[n]) = g[n]
  <2> DEFINE q == SubSeq(p, 1, n)
  <2>1. n - 1 \in D /\ n - 1 \in 0 .. n /\ n \in 1 .. n
    BY <1>1, <1>3
  <2>2. /\ q \in Paths /\ Len(q) = n /\ q[n] = p[n]
        /\ SubSeq(q, 1, n - 1) = SubSeq(p, 1, n - 1)
    BY <1>1, <2>1, Above
  <2>3. q # <<>>
    BY <1>3, <2>2, EmptySeq
  <2>4. q \in Inner
    BY <2>3 DEF Tree, PrefixClosed, Inner
  <2>5. Front(q) = SubSeq(p, 1, n - 1) /\ Last(q) = p[n]
    BY <2>2 DEF Front, Last
  <2>6. Child(files[Front(q)], Last(q)) = files[q]
    BY <2>4, ChildOf
  <2> QED
    BY <2>1, <2>5, <2>6
<1>4. IsWalk(g)
  <2>1. ASSUME NEW n \in D
        PROVE  g[n] = IF n = 0 THEN root_ ELSE Child(g[n - 1], p[n])
    BY <1>2, <1>3
  <2>2. g = [n \in D |-> g[n]]
    OBVIOUS
  <2> HIDE DEF g
  <2> QED
    BY <2>1, <2>2
<1>5. IsWalk(at)
  <2> HIDE DEF IsWalk
  <2> QED
    BY <1>4
<1> HIDE DEF at, g
<1>6. \A n \in D : at[n] = g[n]
  <2> DEFINE Off == {n \in D : at[n] # g[n]}
  <2>1. SUFFICES ASSUME Off # {} PROVE FALSE
    OBVIOUS
  <2>2. PICK n \in Off : \A m \in Off : n <= m
    <3>1. Off \in SUBSET Nat
      BY <1>1
    <3> HIDE DEF Off
    <3> QED
      BY <2>1, <3>1, LeastNumber
  <2>3. n \in D /\ at[n] # g[n] /\ at[n] = IF n = 0 THEN root_ ELSE Child(at[n - 1], p[n])
    BY <1>5
  <2>4. CASE n = 0
    BY <1>2, <2>3, <2>4
  <2>5. CASE n # 0
    <3>1. n - 1 \in D /\ Child(g[n - 1], p[n]) = g[n]
      BY <1>3, <2>3, <2>5
    <3>2. n - 1 \notin Off
      BY <1>1, <2>2, <2>3
    <3> QED
      BY <2>3, <2>5, <3>1, <3>2
  <2> QED
    BY <2>4, <2>5
<1>7. Walk(p) = at[Len(p)]
  BY DEF Walk, at
<1>8. Len(p) \in D /\ g[Len(p)] = files[p]
  <2>1. Len(p) \in D
    BY <1>1
  <2>2. g[Len(p)] = files[SubSeq(p, 1, Len(p))]
    BY <2>1 DEF g
  <2> QED
    BY <1>1, <2>1, <2>2
<1> QED
  BY <1>6, <1>7, <1>8

\* The two copies agree.
LEMMA TreeIsServed ==
  ASSUME Tree
  PROVE  TreeAgrees
<1>1. \A p \in DOMAIN files : files[p] # Null /\ Walk(p) = files[p]
  BY WalkReaches DEF Tree
<1>2. \A l \in links : l.dir.dir
  BY DEF Tree, Linked, Link
<1>3. ASSUME NEW p \in DOMAIN files
      PROVE  Names(files[p]) = {Last(q) : q \in {q \in DOMAIN files \ {<<>>} : Front(q) = p}}
  <2>1. ASSUME NEW l \in links, l.dir = files[p]
        PROVE  \E q \in Inner : Front(q) = p /\ l.name = Last(q)
    BY <2>1, LinkOf
  <2>2. ASSUME NEW q \in Inner, Front(q) = p
        PROVE  \E l \in links : l.dir = files[p] /\ l.name = Last(q)
    <3>1. Link(files[p], q, files[q]) \in links
      BY <2>2, InnerPaths
    <3>2. Link(files[p], q, files[q]).dir = files[p] /\ Link(files[p], q, files[q]).name = Last(q)
      BY DEF Link, BaseName
    <3> QED
      BY <3>1, <3>2
  <2> QED
    BY <2>1, <2>2 DEF Names, Inner
<1>4. \A p \in DOMAIN files : ReaddirOf(p) = Names(files[p])
  BY DEF ReaddirOf, Get
<1> QED
  BY <1>1, <1>2, <1>3, <1>4 DEF TreeAgrees

LEMMA NewTree ==
  ASSUME ContainerInit
  PROVE  Tree
<1>1. files = [path \in {<<>>} |-> root_] /\ links = {}
  BY DEF ContainerInit
<1>2. <<>> \in Paths /\ Len(<<>>) = 0
  BY EmptySeq DEF Paths
<1>3. DOMAIN files = {<<>>} /\ files[<<>>] = root_ /\ Inner = {}
  BY <1>1 DEF Inner
<1>4. root_ # Null /\ \A q : root_ # AutoCreated(q)
  BY DEF root_, Null, AutoCreated, Object
<1>5. PrefixClosed
  <2>1. \A n \in 0 .. 0 : SubSeq(<<>>, 1, n) = <<>>
    BY SubSeqEmpty
  <2> QED
    BY <1>2, <1>3, <2>1 DEF PrefixClosed
<1>6. Linked /\ Distinct
  BY <1>1, <1>3 DEF Linked, Distinct
<1> QED
  BY <1>2, <1>3, <1>4, <1>5, <1>6 DEF Tree
=============================================================================
