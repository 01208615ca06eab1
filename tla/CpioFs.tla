-------------------------------- MODULE CpioFs --------------------------------
(***************************************************************************)
(* cpiofs: an archive in the newc format, mapped into memory and served    *)
(* from there.  An image has headers and contents at their offsets; the    *)
(* reader finds the next header by arithmetic on sizes and padding.        *)
(***************************************************************************)
EXTENDS Integers, Sequences, SequencesExt

NoHeader == -1
ENOENT == <<"ENOENT">>
Crash == <<"crash">>

CpioHeaderSize == 110         \* sizeof(CpioHeader): 6 of magic and 13 numbers of 8

\* Mutant: the padding of a structure that starts at a multiple of 4.
PaddingPlain(n) == (4 - (n % 4)) % 4

\* The header leaves the name at 2 beyond a multiple of 4.
Padding(n) == (4 - ((n + 2) % 4)) % 4

ContentsOffset(c) == c.namesize + Padding(c.namesize)
EndOffset(c) ==
  LET n == ContentsOffset(c) + c.filesize
  IN n + Padding(n)
NextHeader(at, c) == at + CpioHeaderSize + EndOffset(c)
CheckHeader(image, at) == at \in DOMAIN image.headers
ContentsOf(image, at) ==
  LET c == image.headers[at]
      end == at + CpioHeaderSize + ContentsOffset(c)
  IN IF c.filesize = 0 THEN <<>>
     ELSE IF end \in DOMAIN image.contents THEN SubSeq(image.contents[end], 1, c.filesize)
     ELSE <<"garbage">>

\* The inode, for one device (see operator<).
HardlinkKey(c) == c.ino

\* operator[] of a map, assigned to.
Put(map, key, value) ==
  [k \in DOMAIN map \cup {key} |-> IF k = key THEN value ELSE map[k]]

\* A turn of the loop of LoadDirectory: where it is, whether it is over and
\* what it returned, what it has added, and who has the contents of an inode.
Turn(image, s) ==
  LET c == image.headers[s.at]
      served == c.mode \in {"S_IFREG", "S_IFLNK"}
  IN IF s.over THEN s
     ELSE IF ~CheckHeader(image, s.at) THEN [s EXCEPT !.over = TRUE]
     ELSE IF c.name = "TRAILER!!!" THEN [s EXCEPT !.over = TRUE, !.ok = TRUE]
     ELSE [s EXCEPT !.at = NextHeader(s.at, c),
                    !.fs = IF served THEN Put(@, c.name, s.at) ELSE @,
                    !.hardlink_map = IF served /\ c.nlink > 1 /\ c.filesize > 0
                                     THEN Put(@, HardlinkKey(c), s.at) ELSE @]

\* A file has no room for more headers than the loop has turns.
cpiofs_LoadDirectory(image) ==
  LET turns == image.size \div CpioHeaderSize
      s[n \in 0 .. turns] ==
        IF n = 0 THEN [at |-> 0, over |-> FALSE, ok |-> FALSE, fs |-> <<>>, hardlink_map |-> <<>>]
        ELSE Turn(image, s[n - 1])
  IN s[turns]

\* CpioFile::resolveHardlink; operator[] of the map makes a null pointer.
resolveHardlink(image, loaded, at) ==
  LET c == image.headers[at]
  IN CASE c.nlink = 1 \/ c.filesize > 0 -> at
       [] c.nlink # 1 /\ c.filesize = 0 /\ HardlinkKey(c) \in DOMAIN loaded.hardlink_map ->
            loaded.hardlink_map[HardlinkKey(c)]
       [] OTHER -> NoHeader

\* The handlers, of a path: fs_getattr, fs_open with fs_read of the whole,
\* and fs_readlink.
cpio_getattr(image, loaded, path) ==
  LET at == loaded.fs[path]
      c == resolveHardlink(image, loaded, at)
  IN IF path \notin DOMAIN loaded.fs THEN ENOENT ELSE IF c = NoHeader THEN Crash
     ELSE <<image.headers[at].mode, image.headers[c].filesize>>
cpio_read(image, loaded, path) ==
  LET c == resolveHardlink(image, loaded, loaded.fs[path])
  IN IF path \notin DOMAIN loaded.fs THEN ENOENT ELSE IF c = NoHeader THEN Crash
     ELSE ContentsOf(image, c)
cpio_readlink(image, loaded, path) ==
  IF path \notin DOMAIN loaded.fs THEN ENOENT ELSE ContentsOf(image, loaded.fs[path])

-----------------------------------------------------------------------------
(* What cpio writes, and what is promised of it.                            *)

\* cpio -H newc, one member after the other, each part at a multiple of 4.
\* Of the names of a regular file the last one has the contents.
UpTo4(n) == ((n + 3) \div 4) * 4

Deferred(members, i) ==
  /\ members[i].mode = "S_IFREG"
  /\ \E j \in i + 1 .. Len(members) : members[j].ino = members[i].ino

HeaderOf(members, i) ==
  LET m == members[i]
  IN [name |-> m.name, namesize |-> m.namesize, mode |-> m.mode, nlink |-> m.nlink,
      ino |-> m.ino, filesize |-> IF Deferred(members, i) THEN 0 ELSE Len(m.data)]
Trailer == [name |-> "TRAILER!!!", namesize |-> 11]

\* Where the contents of a member go, and the header after them.
Body(at, c) == UpTo4(at + CpioHeaderSize + c.namesize)
After(at, c) == UpTo4(Body(at, c) + c.filesize)

\* Where the header is that n members are before.
Starts(members) ==
  LET start[n \in 0 .. Len(members)] ==
        IF n = 0 THEN 0 ELSE After(start[n - 1], HeaderOf(members, n))
  IN start

ImageOf(members) ==
  LET N == Len(members)
      start == Starts(members)
      body(i) == Body(start[i - 1], HeaderOf(members, i))
      full == {i \in 1 .. N : HeaderOf(members, i).filesize > 0}
  IN [headers |-> [a \in {start[n] : n \in 0 .. N} |->
                     IF a = start[N] THEN Trailer
                     ELSE HeaderOf(members, CHOOSE i \in 1 .. N : start[i - 1] = a)],
      contents |-> [b \in {body(i) : i \in full} |->
                      members[CHOOSE i \in full : body(i) = b].data],
      size |-> UpTo4(start[N] + CpioHeaderSize + Trailer.namesize)]

\* What may be archived.  All names of an inode that are in the archive have
\* the same contents, and nlink counts them and the others.
Member ==
  [name : STRING \ {"TRAILER!!!"}, namesize : Nat, mode : {"S_IFREG", "S_IFLNK", "S_IFDIR"},
   ino : Nat, nlink : Nat \ {0}, data : Seq(Nat)]
IsArchive(members) ==
  /\ members \in Seq(Member)
  /\ \A i, j \in DOMAIN members :
       i # j =>
         /\ members[i].name # members[j].name
         /\ members[i].ino = members[j].ino =>
              /\ members[i].mode = members[j].mode /\ members[i].mode # "S_IFDIR"
              /\ members[i].data = members[j].data
              /\ members[i].nlink > 1
  /\ \A i \in DOMAIN members :
       /\ members[i].mode = "S_IFDIR" => members[i].data = <<>>
       /\ members[i].mode = "S_IFLNK" => members[i].data # <<>>

\* Whatever the lengths of names and contents and wherever the names of a
\* file are, each regular file and symbolic link of the archive is served
\* with its own mode, size and contents, and nothing else is.  Only an empty
\* file with several names is not: the daemon dies of it.
MemberServed(image, loaded, m) ==
  LET dies == m.nlink > 1 /\ m.data = <<>>
  IN CASE m.mode = "S_IFDIR" -> m.name \notin DOMAIN loaded.fs
       [] m.mode = "S_IFREG" ->
            /\ cpio_getattr(image, loaded, m.name) =
                 IF dies THEN Crash ELSE <<m.mode, Len(m.data)>>
            /\ cpio_read(image, loaded, m.name) = IF dies THEN Crash ELSE m.data
       [] m.mode = "S_IFLNK" -> cpio_readlink(image, loaded, m.name) = m.data

MembersServed(members) ==
  LET image == ImageOf(members)
      loaded == cpiofs_LoadDirectory(image)
  IN loaded.ok /\ \A i \in DOMAIN members : MemberServed(image, loaded, members[i])
=============================================================================
