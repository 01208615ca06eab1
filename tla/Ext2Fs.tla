-------------------------------- MODULE Ext2Fs --------------------------------
(***************************************************************************)
(* The ext2 reader: an image mapped into memory, and pointers computed     *)
(* into it.  An address is a number of bytes from the start of the image.  *)
(* What the reader takes for an inode, a directory entry, a group          *)
(* descriptor or an array of block numbers at an address is a function of  *)
(* the image, and a byte of a file stands for itself by its address.       *)
(***************************************************************************)
EXTENDS Integers, SequencesExt

CONSTANTS
  MinBlock,        \* the smallest block size, and SUPERBLOCK_LOCATION: 1024
  NDirBlocks,      \* EXT4_NDIR_BLOCKS: 12
  PointerSize,     \* sizeof(__le32): 4
  InlineSize       \* EXT4_N_BLOCKS * sizeof(Le32): 60

ASSUME Ext2Assumption ==
  /\ MinBlock \in Nat /\ MinBlock >= 16 /\ MinBlock % 2 = 0
  /\ NDirBlocks \in Nat /\ NDirBlocks >= 2
  /\ PointerSize \in 1 .. MinBlock
  /\ InlineSize \in Nat

\* Outcomes in the place of a sequence of addresses.
Died == <<-1>>
NoFile == <<-2>>

IndBlock == NDirBlocks
DindBlock == NDirBlocks + 1

\* n << k.
ShiftLeft(n, k) ==
  LET shifted[i \in 0 .. k] == IF i = 0 THEN n ELSE 2 * shifted[i - 1]
  IN shifted[k]

\* ext4_super_block::block_size.
BlockSize(image) == ShiftLeft(MinBlock, image.log_block_size)

\* The descriptors are in the block after that of the superblock.
block_group_descriptor_table_block_number(image) == (MinBlock \div BlockSize(image)) + 1

ReadBlock(image, n) == n * BlockSize(image)

GroupDesc(image, n) ==
  image.group_desc[ReadBlock(image, block_group_descriptor_table_block_number(image))][n]

\* The address of an inode: its slot in the table of its group.
Inode(image, inode_number) ==
  LET index == (inode_number - 1) % image.inodes_per_group
      block_group == (inode_number - 1) \div image.inodes_per_group
      containing_block == (index * image.inode_size) \div BlockSize(image)
      index_inside_block == (index * image.inode_size) % BlockSize(image)
  IN ReadBlock(image, GroupDesc(image, block_group) + containing_block) + index_inside_block

\* Mutant: the last block is counted only when it is full.
ActualBlocksDown(image, size) == size \div BlockSize(image)

\* actual_blocks.
ActualBlocks(image, size) == (size + BlockSize(image) - 1) \div BlockSize(image)

\* What needs triple indirection, or no more than that to be large enough for
\* it, fails the assertion.
TooLarge(image, inode) ==
  LET n_ind == BlockSize(image) \div PointerSize
  IN ActualBlocks(image, inode.size_lo) >= NDirBlocks + n_ind + n_ind * n_ind

\* A hole is not pushed.
There(blocks) == FlattenSeq([i \in DOMAIN blocks |-> IF blocks[i] = 0 THEN <<>> ELSE <<blocks[i]>>])

\* GetFileContent: the addresses of the blocks of an inode.  A block that is
\* a hole is left out where it is direct or doubly indirect, and is block 0
\* where it is indirect.
GetFileContent(image, inode) ==
  LET actual_blocks == ActualBlocks(image, inode.size_lo)
      array(n) == image.pointers[ReadBlock(image, n)]
      n_ind == BlockSize(image) \div PointerSize
      direct == [i \in 1 .. Min({NDirBlocks, actual_blocks}) |-> inode.block[i - 1]]
      indirect ==
        IF actual_blocks < NDirBlocks THEN <<>>
        ELSE [i \in 1 .. Min({n_ind, actual_blocks - NDirBlocks}) |->
                array(inode.block[IndBlock])[i - 1]]
      doubly ==
        IF actual_blocks < NDirBlocks + n_ind THEN <<>>
        ELSE [i \in 1 .. Min({n_ind * n_ind, actual_blocks - NDirBlocks - n_ind}) |->
                array(array(inode.block[DindBlock])[(i - 1) \div n_ind])[(i - 1) % n_ind]]
      blocks == There(direct) \o indirect \o There(doubly)
  IN [i \in DOMAIN blocks |-> ReadBlock(image, blocks[i])]

\* A block of the vector; beyond its end there is no telling.
nowhere == -1000000
BlockAt(blocks, b) == IF b < Len(blocks) THEN blocks[b + 1] ELSE nowhere

\* FileContent::copy.  A part that starts inside a block is as long as the
\* whole, less the offset in the block.
CopyFrom(image, blocks, remaining_size, offset) ==
  LET size == BlockSize(image)
      b == offset \div size
      inside == offset % size
      head == IF inside = 0 THEN 0
              ELSE IF remaining_size >= inside THEN remaining_size - inside ELSE remaining_size
      next == IF inside = 0 THEN b ELSE b + 1
  IN [k \in 1 .. head |-> BlockAt(blocks, b) + inside + (k - 1)]
       \o [k \in 1 .. remaining_size - head |->
             BlockAt(blocks, next + ((k - 1) \div size)) + ((k - 1) % size)]

\* Ext2File::Read.
Read(image, inode, size, offset) ==
  IF TooLarge(image, inode) THEN Died
  ELSE IF offset >= inode.size_lo THEN <<>>
  ELSE CopyFrom(image, GetFileContent(image, inode), Min({size, inode.size_lo - offset}), offset)

\* Ext2File::Readlink, to a buffer that is long enough: a short target is in
\* the block array of the inode itself.
Readlink(image, at) ==
  LET inode == image.inodes[at]
  IN IF TooLarge(image, inode) THEN Died
     ELSE IF inode.size_lo > InlineSize
     THEN CopyFrom(image, GetFileContent(image, inode), inode.size_lo, 0)
     ELSE [k \in 1 .. inode.size_lo |-> at + k - 1]

\* A call of WalkDir: where it is in the first block of its directory.
WalkDir(image, path, block) ==
  [path |-> path, begin |-> ReadBlock(image, block), dirent |-> ReadBlock(image, block)]

\* A turn of the loop of WalkDir, in the call on top of the stack: a directory
\* is a call of its own.  An inode that has several names is one object
\* (inode_cache_).
WalkTurn(image, s) ==
  LET top == Head(s.stack)
      e == image.dirents[top.dirent]
      at == Inode(image, e.inode)
      new_path == Append(top.path, e.filename)
      next == <<[top EXCEPT !.dirent = @ + e.rec_len]>> \o Tail(s.stack)
  IN IF s.stack = <<>> THEN s
     ELSE IF top.dirent >= top.begin + BlockSize(image) THEN [s EXCEPT !.stack = Tail(@)]
     ELSE IF e.filename \in {".", ".."} THEN [s EXCEPT !.stack = next]
     ELSE IF image.inodes[at].mode = "S_IFDIR"
     THEN [s EXCEPT !.stack = <<WalkDir(image, new_path, image.inodes[at].block[0])>> \o next]
     ELSE [fs |-> [p \in DOMAIN s.fs \cup {new_path} |-> IF p = new_path THEN at ELSE s.fs[p]],
           stack |-> next]

\* Ext2Reader: the whole tree, or the end where an assertion fails.  An entry
\* has 8 bytes and its name, so that a file has no room for more of them and
\* of their directories than the walk has turns.
Mount(image) ==
  LET root == image.inodes[Inode(image, 2)]
      turns == image.filesize \div 4
      s[n \in 0 .. turns] ==
        IF n = 0 THEN [fs |-> <<>>, stack |-> <<WalkDir(image, <<>>, root.block[0])>>]
        ELSE WalkTurn(image, s[n - 1])
  IN IF image.magic = "0xef53" /\ image.feature_incompat = {"FILETYPE"}
        /\ root.mode = "S_IFDIR" /\ root.perm = "0755"
     THEN s[turns].fs ELSE Died

\* The handlers, of a path: fs_getattr, fs_open with fs_read, fs_readlink.
ext2_getattr(image, fs, path) ==
  IF path \notin DOMAIN fs THEN NoFile
  ELSE <<image.inodes[fs[path]].mode, image.inodes[fs[path]].size_lo>>
ext2_read(image, fs, path, size, offset) ==
  IF path \notin DOMAIN fs THEN NoFile ELSE Read(image, image.inodes[fs[path]], size, offset)
ext2_readlink(image, fs, path) ==
  IF path \notin DOMAIN fs THEN NoFile ELSE Readlink(image, fs[path])

-----------------------------------------------------------------------------
(* What mke2fs writes, and what is promised of it.                          *)

\* An image with one file or symbolic link of "size" bytes that has the name
\* "file" in the root or in the directory "dir" or in both, and the name
\* "late" in the second block of the root.  Two inodes fit in a block.  The
\* blocks of pointers follow the directories, and every second block after
\* them holds data.
Layout(log, size) ==
  LET bs == ShiftLeft(MinBlock, log)
      n_ind == bs \div PointerSize
      blocks == (size + bs - 1) \div bs
      desc == (MinBlock \div bs) + 1
      doubles == IF blocks <= NDirBlocks + n_ind THEN 0
                 ELSE (blocks - NDirBlocks - 1) \div n_ind
  IN [bs |-> bs, n_ind |-> n_ind, blocks |-> blocks, desc |-> desc, table |-> desc + 1,
      root |-> desc + 5, late |-> desc + 6, dir |-> desc + 7, ind |-> desc + 8,
      dind |-> desc + 9, doubles |-> doubles, data |-> desc + 10 + doubles]

SlotOf(l, n) == l.table * l.bs + (n - 1) * (l.bs \div 2)
DataBlock(l, i) == IF i < l.blocks THEN l.data + 2 * i ELSE 0
DataByte(l, k) == DataBlock(l, k \div l.bs) * l.bs + (k % l.bs)

\* A short target is in the inode, if it leaves room for a NUL.
IsFast(mode, size) == mode = "S_IFLNK" /\ size < InlineSize

\* The inodes: the root, which mke2fs makes with the permissions that Mount
\* asserts, a directory, the file.
BlockArray(l, b0, b1) == [i \in 0 .. DindBlock |-> IF i = 0 THEN b0 ELSE IF i = 1 THEN b1 ELSE 0]
FileArray(l) ==
  [i \in 0 .. DindBlock |->
     IF i < NDirBlocks THEN DataBlock(l, i)
     ELSE IF i = IndBlock THEN (IF l.blocks > NDirBlocks THEN l.ind ELSE 0)
     ELSE IF l.doubles > 0 THEN l.dind ELSE 0]
RootInode(l) ==
  [mode |-> "S_IFDIR", perm |-> "0755", size_lo |-> 2 * l.bs,
   block |-> BlockArray(l, l.root, l.late)]
DirInode(l) ==
  [mode |-> "S_IFDIR", perm |-> "0755", size_lo |-> l.bs, block |-> BlockArray(l, l.dir, 0)]
FileInode(l, mode, size) ==
  [mode |-> mode, perm |-> "0644", size_lo |-> size,
   block |-> IF IsFast(mode, size) THEN BlockArray(l, 0, 0) ELSE FileArray(l)]

\* The entries in the blocks of directories, 4 bytes each but for the last.
EntriesIn(l, block, paths) ==
  LET file(path) == IF path \in paths THEN << <<4, "file">> >> ELSE <<>>
  IN IF block = l.late THEN << <<4, "late">> >>
     ELSE IF block = l.dir THEN << <<3, ".">>, <<2, "..">> >> \o file(<<"dir", "file">>)
     ELSE << <<2, ".">>, <<2, "..">> >> \o file(<<"file">>) \o << <<3, "dir">> >>
Dirent(l, names, i) ==
  [inode |-> names[i][1], filename |-> names[i][2],
   rec_len |-> IF i = Len(names) THEN l.bs - (i - 1) * 4 ELSE 4]

\* Pointer i in a block of pointers.
PointerIn(l, block, i) ==
  IF block = 0 THEN 0
  ELSE IF block = l.ind THEN DataBlock(l, NDirBlocks + i)
  ELSE IF block = l.dind THEN (IF i < l.doubles THEN l.dind + 1 + i ELSE 0)
  ELSE DataBlock(l, NDirBlocks + (block - l.dind) * l.n_ind + i)

DiskImage(d) ==
  LET l == Layout(d.log, d.size)
      names(block) == EntriesIn(l, block, d.paths)
  IN [log_block_size |-> d.log, inodes_per_group |-> 8, inode_size |-> l.bs \div 2,
      magic |-> "0xef53", feature_incompat |-> {"FILETYPE"},
      filesize |-> (l.data + 2 * l.blocks) * l.bs,
      group_desc |-> [x \in {l.desc * l.bs} |-> [n \in {0} |-> l.table]],
      inodes |-> [x \in {SlotOf(l, n) : n \in 2 .. 4} |->
                    IF x = SlotOf(l, 2) THEN RootInode(l)
                    ELSE IF x = SlotOf(l, 3) THEN DirInode(l) ELSE FileInode(l, d.mode, d.size)],
      dirents |-> [x \in UNION {{block * l.bs + (i - 1) * 4 : i \in DOMAIN names(block)} :
                                  block \in {l.root, l.late, l.dir}} |->
                     Dirent(l, names(x \div l.bs), 1 + ((x % l.bs) \div 4))],
      pointers |-> [x \in {block * l.bs : block \in {0, l.ind} \cup l.dind .. l.dind + l.doubles} |->
                      [i \in 0 .. l.n_ind - 1 |-> PointerIn(l, x \div l.bs, i)]]]

\* What an image may be made for; the target of a link has a block at most.
\* mke2fs makes blocks of at most 64 KB, sizes and block numbers have 32 bits, and
\* their sums are taken with 64: none wraps, so that numbers have no width here.
Disk ==
  [log : Nat, mode : {"S_IFREG", "S_IFLNK"}, size : Nat,
   paths : (SUBSET {<<"file">>, <<"dir", "file">>}) \ {{}}]
IsDisk(d) ==
  /\ d \in Disk
  /\ d.mode = "S_IFLNK" => d.size \in 1 .. Layout(d.log, d.size).bs

\* Each name in the first block of a directory is served with the mode, the
\* size and every byte of the file, however its blocks are pointed to, for
\* reads that start at a block; a name in a later block is not there.  The
\* daemon dies of a file with all the blocks that need no triple indirection,
\* or more, and the link whose target is as long as the block array is read
\* from there, where it is not.
DiskServed(d) ==
  LET image == DiskImage(d)
      l == Layout(d.log, d.size)
      fs == Mount(image)
      dies == l.blocks >= NDirBlocks + l.n_ind + l.n_ind * l.n_ind
      bytes(o, n) == [k \in 1 .. n |-> DataByte(l, o + k - 1)]
      inline == [k \in 1 .. d.size |-> SlotOf(l, 4) + k - 1]
  IN /\ DOMAIN fs = d.paths
     /\ \A path \in d.paths :
          /\ ext2_getattr(image, fs, path) = <<d.mode, d.size>>
          /\ d.mode = "S_IFLNK" =>
               ext2_readlink(image, fs, path) = IF d.size <= InlineSize THEN inline ELSE bytes(0, d.size)
          /\ d.mode = "S_IFREG" =>
               \A b \in 0 .. l.blocks : \A n \in {1, l.bs, 2 * l.bs + 1} :
                 ext2_read(image, fs, path, n, b * l.bs) =
                   IF dies THEN Died
                   ELSE bytes(b * l.bs, Max({0, Min({n, d.size - b * l.bs})}))
=============================================================================
