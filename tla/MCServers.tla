------------------------------- MODULE MCServers -------------------------------
(* Three parts side by side that share no state: a behaviour is one of the  *)
(* cat-file client, or one of ninjafs, or one input for the readers.  The   *)
(* others have no step in it.                                               *)
EXTENDS GitCatFile, NinjaFs, Readers

MCSize == "big" :> 2 @@ "nil" :> 0 @@ "gone" :> 0

\* A program that depends on an object file in a directory, a phony, and a
\* large image that has the program in it.
prog == <<"prog">>
obj == <<"out", "obj">>
all == <<"all">>
img == <<"out", "img">>
MCTargets == {prog, obj, all, img}
MCPhony == {all}
MCLarge == {img}
MCDeps == prog :> {obj} @@ obj :> {} @@ all :> {prog, obj} @@ img :> {prog}
MCLogPath == <<"ninja.log">>

\* Lines with padded and unpadded sizes, links, submodules and spaces.
LsEntries ==
  [mode : {"100644", "120000"}, type : {"blob"}, sha : {"sha1"}, size : {"12", "1234567"},
   path : {<<"a">>, <<"b", " ", "c">>, <<"d", " ">>}]
    \cup {[mode |-> "160000", type |-> "commit", sha |-> "sha2", size |-> "-", path |-> <<"m">>]}
MCListings == BoundedSeq(LsEntries, 2)

\* Three members of an archive: the inode of each, what each inode is, and
\* the sizes of names.  Another name may be outside of the archive.
MembersOf(ino, mode, size, namesize, outside) ==
  [i \in 1 .. 3 |->
     [name |-> ToString(i), namesize |-> namesize + (i % 2), mode |-> mode[ino[i]],
      ino |-> ino[i], data |-> [k \in 1 .. size[ino[i]] |-> ino[i]],
      nlink |-> Cardinality({j \in 1 .. 3 : ino[j] = ino[i]}) + outside]]
MCArchives ==
  {members \in
     {MembersOf(ino, mode, size, n, outside) :
        ino \in [1 .. 3 -> 1 .. 2], mode \in [1 .. 2 -> {"S_IFREG", "S_IFLNK", "S_IFDIR"}],
        size \in [1 .. 2 -> {0, 1, 2, 7}], n \in 2 .. 5, outside \in 0 .. 1} :
     IsArchive(members)}

\* Files with up to one block more than can be pointed to, links of up to a
\* block.
DisksOf(log, mode, sizes) ==
  [log : {log}, mode : {mode}, size : sizes,
   paths : (SUBSET {<<"file">>, <<"dir", "file">>}) \ {{}}]
MCDisks ==
  UNION {LET bs == MinBlock * 2 ^ log
             n == bs \div PointerSize
             most == NDirBlocks + n + n * n
         IN DisksOf(log, "S_IFREG", {b * bs + d : b \in 0 .. most, d \in {0, 1, bs - 1}})
              \cup DisksOf(log, "S_IFLNK", 1 .. bs) : log \in 0 .. 1}

Init ==
  /\ NothingAsked /\ NothingOpen
  /\ \/ catPhase = "new" /\ ninjaPhase = "off" /\ input = <<"off">>
     \/ catPhase = "off" /\ ninjaPhase = "load" /\ input = <<"off">>
     \/ catPhase = "off" /\ ninjaPhase = "off" /\ ssh = FALSE /\ ReadInit

Next ==
  \/ CatNext /\ UNCHANGED <<ninjaVars, input>>
  \/ NinjaNext /\ UNCHANGED <<catVars, input>>
  \/ ReadNext /\ UNCHANGED <<catVars, ninjaVars>>

Spec ==
  Init /\ [][Next]_<<catVars, ninjaVars, input>> /\ CatFairness /\ NinjaFairness
=============================================================================
