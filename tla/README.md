# A verification project for gitlstreefs

gitlstreefs is a collection of FUSE file systems with logic of their own that is
hard to test:

- **cowfs** keeps files of equal content as hard links to one inode and breaks
  the link before a file is modified. Its daemon is multi-threaded, its state is
  the host directory, and it must survive being killed at any point.
- **gitlstree** and **git-githubfs** show a git tree as read-only files. The
  blobs are fetched on first use into a cache directory that several threads
  share and that outlives the process; before the mount, a tree is loaded by
  parallel jobs, and each blob comes through a child process that all threads
  talk to over one pipe.
- **ninjafs** runs a build when a file is opened, under two mutexes.
- **cpiofs** and **ext2** (experimental) serve archives and disk images by
  arithmetic on offsets.

This directory holds TLA+ modules that model them, TLC configurations that check
the modules on small instances, and proofs that TLAPS checks for all instances.
`PROJECT.json` lists components, runs, mutants, the map from definitions to
source lines, findings, hazards and theorems.

    tlc -workers 2 -config CowFsSerial.cfg MCCowFs      # one run
    tlapm CowFsProofs.tla                               # one proof module

## 1. Inventory

| Component | State | Operations | What makes it hard | Correct means |
|---|---|---|---|---|
| cowfs (`cowfs.cc`, `file_copy.cc`, `scoped_fileutil.cc`) | host directory: names, inodes, lock directories; open handles | Open, Create, Release, Unlink; GcTree and HardlinkTree at startup | handlers of libfuse in parallel, several system calls each; a lock made of mkdir(2); kill and restart; failing calls | dedupe is invisible, no file is lost, no item is corrupted, handlers return |
| ptfs (`ptfs*.cc`) | file handles | about 25 calls passed on to the host | only what cowfs inherits | a call changes only what it names |
| blob cache (`cached_file.cc`) | cache directory, `mapped_files_`, `mutex_` | constructor with Gc, get, release | the mutex is given up during the fetch; kill between write and rename | whole blobs or none; pointers stay valid |
| gitlstree, git-githubfs (`FileElement`) | `memory_`, `buf_mutex_` | Open, Read, Readlink, Release | state per file, calls per handle | a read of an open file is answered |
| `ScopedConcurrencyLimit` | set of messages, condition variable | constructor, destructor | notification outside the mutex, spurious wake-ups, overtaking | the bound; no lost wake-up; everybody runs |
| git cat-file client (`git_cat_file.cc`) | pipes to a child, mutex | constructor, Request, destructor | answers in pieces, end of the child, no request numbers | an answer belongs to its request and is whole; a request ends |
| directory container (`directory_container.cc`) | map from path to object, children by name | add, get, for_each | the same tree kept twice, one copy owning | both copies agree |
| githubfs loader (`git-githubfs.cc`) | jobs of `std::async`, the container | GitTree, LoadDirectoryInternal | jobs in any order, retry, limit of downloads | the tree is complete and fixed when it is mounted; the mount comes |
| ninjafs (`ninjafs.cc`) | targets with `buf_`, the log, two kinds of mutex | LoadDirectory, Getattr, Open, Read | nested mutexes, an unlocked test, failing builds | reads are whole files, handlers return |
| readers (`jsonparser.cc`, `base64decode.cc`, `gitlstree.cc`, `strutil.cc`, `experimental/cpiofs.cc`, `experimental/ext2.cc`) | none | pure functions of what somebody else wrote | padding, escapes, hard links, block pointers, cut input | what was written is what is served |
| timers and statistics (`scoped_timer.cc`, `stats_holder.cc`) | counters, `message_` | Add, Dump, the `.status` file | `message_` has no mutex | not modelled |
| configure.cc, front ends, wrappers, other `experimental/` files | - | - | - | not modelled |

How they interact: `ptfs` calls the overridden handlers of `cowfs` from libfuse's
threads, and the four handlers of cowfs meet only in the host directory.
`git_adapter.cc` calls a `FileElement` found in the directory container; the
element calls `Cache::get` with its `buf_mutex_` held; `get` calls back into the
element's fetch (the git cat-file client, or `curl` under a
`ScopedConcurrencyLimit`) without the cache's mutex. All read-only file systems fill a directory container
before `fuse_main` and look paths up in it afterwards; the loader of git-githubfs
takes its entries from the JSON parser, gitlstree from the lines of git ls-tree.

## 2. Modules

| Module | Models |
|---|---|
| `CowFs` | cowfs: one action per system call of a handler |
| `PlainFs` | the abstract file system cowfs promises; `CowFs!PlainSpec` is the refinement |
| `CowFsProofs` | theorems about `CowFs`: whatever clients do; when they use one path at a time, among them that it implements `PlainFs`; and what is left behind when besides no host call fails and nobody kills it |
| `BlobCache` | `Cache` and the `FileElement`s of both git file systems |
| `BlobCacheProofs` | theorems about `BlobCache` |
| `ConcurrencyLimit` | `ScopedConcurrencyLimit` |
| `DirectoryContainer` | `Directory` and `DirectoryContainer`: an object with state and methods |
| `DirectoryContainerProofs` | what `Add` does to a tree of any size, for the proofs about its users |
| `GithubLoader` | the start of git-githubfs; composes `ConcurrencyLimit` and `DirectoryContainer` |
| `GithubLoaderProofs` | theorems about `ConcurrencyLimit`, and about `GithubLoader`, among them that it implements `ConcurrencyLimit!Spec` |
| `GitCatFile` | `GitCatFileProcess` and the child |
| `GitCatFileProofs` | theorems about `GitCatFile` |
| `NinjaFs` | ninjafs; uses `DirectoryContainer` |
| `NinjaFsProofs` | theorems about `NinjaFs` |
| `Base64`, `JsonParser` | the decoder, the parser, and what git-githubfs takes from an answer |
| `GitLsTree` | `LoadDirectory` of gitlstree, `SplitStringUsing`, the `.git/HEAD` file |
| `CpioFs`, `Ext2Fs` | the two image readers, and the writers of their images |
| `ReaderInputs` | one input at a time for gitlstree, cpiofs and ext2, with the properties about them |
| `Readers` | the same for these and the readers of git-githubfs |
| `ReaderProofs` | theorems about `ReaderInputs` |
| `Induction` | induction over numbers, loops and sequences, for the proofs |
| `MCCowFs`, `MCBlobCache`, `MCGithubLoader`, `MCServers` | instances for TLC |

Definitions whose comment begins with "mutant" are altered forms of the
definition that follows them, one plausible mistake each; every property of a
passing run is violated when one of them replaces the original.

### CowFs

*State.* `dir` maps every name (user files, repository items, temporary names) to
an inode or `None`; `ino` gives the content of an inode; `lockdir` is the set of
paths whose `.lock` directory exists; `fh` are the `CowFileHandle`s clients hold;
`th[t]` is the handler thread `t` runs with its locals (`from_fd`, the content
that was read, errno, the result under way); `todo` the files of the startup jobs;
`phase` where `main()` is.

*Abstractions.* A content is a value, and a repository item is named after it (no
SHA-1 collisions). A write replaces the whole content. Owners, modes and times are
left out. There is one directory. Garbage collection of the whole repository and
the walk of `HardlinkTree` run before any thread exists, so each is one step.

*Actions.* `Open`/`Create` → `LockTake`|`LockSpin` → `BreakStat` → `BreakCopy` →
`BreakRename` → `GetRepoItemPath` → `GcLstat` → `GcUnlink` → `Unlock` → `OpenFd` is
`Open` with `MaybeBreakHardlink` inlined; with `O_RDONLY` it is the single step
`OpenRead`, or `CreateRead` for a create, which makes a file no release dedupes;
`Release` → lock → `LinkRead` →
`LinkLstat` → `HardlinkSame` → `HardlinkLink` → `HardlinkRename` → `Unlock` is
`Release` with `FindOutRepoAndMaybeHardlink`, which the jobs of `HardlinkTree`
(`NextTask`) also run; `Unlink` → `GetRepoItemPath` → `UnlinkFile` → `GcLstat` →
`GcUnlink` runs without a lock, as in the code. With `IoErrors` any call may fail
with an errno of its own: `BreakCopyFails`, `BreakRenameFails`, `HardlinkFails`,
`TempFails` (the assertion of `ScopedTempFile`), `HostFails`, and an `Unlock` whose
rmdir leaves the lock directory. With `ShortCopies` a copy may end early without any
call failing, `BreakCopyShort`: errno is then what an earlier call left, mostly the
ENOENT that `cowfs.cc:230` takes for a file that needs no break. `Abort` is what
`abort()` and a failed assert do; `Kill` may come at any time.

*The client.* libfuse serialises open, create, unlink and rename of one path but
not RELEASE, which arrives after the client's close(2) has returned. With
`SharedPaths = FALSE` an operation on a path starts only when the earlier one and
its RELEASE have ended. This is more than a sequential client guarantees, and the
difference is the run `CowFsRenameOpen`.

*Host file system.* rename(2) of two links to one inode does nothing; an inode
without a name lives while a descriptor is open. A new inode is the smallest free
number, which loses nothing as numbers are only compared for equality.

### BlobCache

The cache directory has for each blob a file and a temporary file, each "none",
"partial" or "whole"; `mapped` is `mapped_files_`; `memory` the pointer each
element keeps. What happens under `mutex_` is one step, except that each write to
the directory is its own step, because a kill may fall between them. `Githubfs`
selects which of the two `FileElement` implementations is modelled: they differ in
Read (error or refetch), Release (calls `Cache::release` or not) and in what they
do when get fails.

### ConcurrencyLimit

`pc` places each job outside, waiting, woken, in scope, or between the end of the
destructor's locked block and its `notify_one`. Spurious wake-ups are allowed.

### DirectoryContainer and GithubLoader

`files` is the container's map from path to raw pointer, `links` the children the
directories own. Each method holds `path_mutex_` from end to end and is one step.
An object that no walk from the root reaches has been destroyed: `TreeAgrees` says
that the map never points to one.

`GithubLoader` names a call of `LoadDirectoryInternal` by the answer it fetches:
`Rec` is the recursive one, `Single(t)` that for one tree. `Fetching` is `HttpFetch`,
whose `ScopedConcurrencyLimit` is the state of `ConcurrencyLimit`; `ParseTrees`
decides on `truncated`; `FileHandler` adds one entry (any order in which trees come
before their contents) and starts a job, which `std::async` may defer for ever;
`Return` waits for the futures; `Mount` is the end of the constructor and `fuse_main`.

### GitCatFile

The pipes are sequences of bytes. A byte is its object and its place in the answer,
so that a mixed or cut answer shows. The header line is two bytes. `Write`,
`ReadHeader`, `ReadRest` and `Finish` are `Request`, `ChildReads` and `ChildWrites`
the child, which writes pieces of any length (a header line in one piece, unless ssh
is in between). `ChildDies` may come at any time. A `read` at the end of the file
gives nothing and is repeated: a step that changes nothing, with the mutex held.

The child's stderr is the same pipe (`git_cat_file.cc:45`) for all of its life. A
`Stray` is a line there: that of a failed `execvp`, or, at any time and in the middle
of an answer too, what a living git says of a damaged object or ssh as its banner
(`ChildComplains`). `ReadHeader` takes whatever the first `Read` gives for a header:
without a newline it aborts, with a line that is no header it may abort, or go on with
any type and any size (`Metadata`). `strays` counts these lines. The code promises
nothing after one: `error: ...` in front of `<sha> missing` is read as a blob of size 0,
which the caller gets as a success, and the real answer stays in the pipe for the next
request. So `AnswersMatch`, `InSync`, `AbortsOnlyFor` and `RequestsReturn` all speak of
a child without such a line.

### NinjaFs

Per target `buf_` ("null", "empty", "part" or "whole") and `mutex_`; one
`global_ninja_mutex`; `log_` is the number of the build whose output the log has.
`built` are the targets that are complete, and a run of ninja writes those of its
target and dependencies that were not when it started; a file has part of its
content while a run writes it. `LockTarget` → `RunNinja` → `NinjaEnds` →
`UpdateLog` → `ReadTarget` is `Open`; `TestBuf` → `CopyBuf` is `Read`, whose test
comes before the mutex.

The daemon ends at a ninja that did not start or that a signal ended (`strutil.cc:123`),
at a target that is built but has no file (`Phony`) or whose file one `read` does not
return whole (`Large`, `strutil.cc:44`), and, before the mount, at a listing that dies
(`ListingDies`) or names a target by an absolute path (`AbsoluteTarget`). `DiesOnlyFor`
says that these are all: in particular no build that ended well kills it, whatever is
built beside it.

### The readers

A text is a sequence of characters, where a run of characters nobody looks into may
be one. `JsonParser` has an operator for each method of the parser that takes text
and position and returns value and position; `crash` (`Crash` in `CpioFs`, `Died` in `Ext2Fs`) is
the end of the process (an assertion, or a null pointer that is used). A `\u` escape
becomes the one byte of its number (`ByteOf`): the character for ASCII, a byte that is
no UTF-8 from 128 on, and from 256 on there is no string. `CpioFs` and `Ext2Fs` have the image as
functions from offsets to what a reader would find there, so that an offset that is
wrong by one finds nothing. `Ext2Fs` has the calls of `WalkDir` that are open as a stack,
a turn of the loop of the innermost one at a time (`WalkTurn`), and what `GetFileContent` pushes
as three sequences, one for each kind of pointer. Each module also has the writer (GitHub, git, cpio,
mke2fs), which is external and written from its format, not from the reader. A
behaviour of `Readers` takes one input, and each property relates what the reader
makes of the writer's bytes to what the writer was given.

## 3. Runs

Passing runs:

| Run | Instance | Shows |
|---|---|---|
| `CowFsSerial` | 2 files, 3 contents, 2 threads, 2 handles | races of handlers on different paths with equal contents: refinement of `PlainFs`, intact items, single writer, no abort, no temporary names, no garbage |
| `CowFsFaults` | 2 files, 2 contents, 1 thread, 4 inodes, any call may fail with its errno, 1 kill | intact items and the refinement when calls fail, inodes run out and the daemon is killed and restarted, as long as copies are whole |
| `CowFsShared` | 1 file, 1 content, 2 threads, 2 handles, shared paths, unlink and truncate by path, copies cut short, 1 kill | the lock is a mutex; files vanish only by unlink and rename |
| `CowFsLive` | 2 files, 3 contents, 1 thread, fair | quiet implies deduplicated, but for empty files, also with opens and creates for reading; startup ends, handlers return |
| `GitlstreeBlobs` | 2 files with one blob, a symlink with another, 3 threads, 2 handles a file, I/O errors, 1 kill | valid pointers, whole blobs, answered reads |
| `GithubfsFaults` | 2 files with one blob, an empty file, 2 threads, I/O errors, 1 kill, fair | valid pointers, whole blobs, handlers return |
| `GithubLoad` | 5 trees (4 at the root, 1 nested), 3 blobs, kLimit 1, recursive answer truncated or not, deferred jobs, failing fetches, fair | the bound, no lost wake-up, complete tree, the two copies of the tree agree, nothing changes after the mount, the mount comes |
| `Servers` | see below | cat-file answers, ninjafs, all readers |

Runs that end in a violation, each against a line of the repository
(`PROJECT.json` quotes it):

| Run | What the code does |
|---|---|
| `CowFsSharedWrite` | the release of one handle dedupes a file that another handle has open for writing; the other then writes into equal files |
| `CowFsRenameOpen` | rename before the pending RELEASE aborts the daemon |
| `CowFsStaleLock` | a lock directory of a killed daemon blocks the next startup for ever |
| `GithubRetry` | after a truncated answer nested entries are added at the root |

*The run Servers.* Its three parts share no state, and each behaviour belongs to one
of them (`MCServers!Init` chooses), so the run is their sum and not their product;
they are in one run because each is small. (1) `GitCatFile`: two callers, an object
of two bytes, one of none and a missing one, reads of at most three bytes for the
header, a pipe of four bytes, with and without ssh, a child that may die and may write
one line to stderr. (2) `NinjaFs`: a program, the object file it depends on in a
directory, a phony target that depends on both, and an image beside the object file
that is too large for one read; two workers, two builds, one handle a target. (3) `Readers`, on every input of a set:

- JSON: leaves (numbers at and above the mantissa, strings with quotes, backslashes,
  brackets, controls, characters up to and after U+00FF, once as they are and once as
  `\u` escapes), all arrays and objects of at most two of them, one more level
  around those, three kinds of whitespace;
- answers for a tree: up to two entries of blob, link, tree and submodule, truncated
  or not, with three kinds of whitespace, and each that is not truncated cut at every
  place;
- answers for a blob: up to four bytes of three values, lines of 1, 2, 3 and 5 digits;
- git ls-tree: up to two lines, with padded and unpadded sizes, links, submodules,
  spaces in the path;
- cpio archives: three members on one or two inodes (files, links, directories) in any
  order, names and contents of every length modulo 4, further links outside, of these
  the ones `CpioFs!IsArchive` says can be archived;
- ext2: every file of up to one block more than direct, indirect and doubly indirect
  blocks point to, at, one above and one below a multiple of the block size, links of
  up to a block, in the root, in a directory or both, for two block sizes; reads of
  1 byte, a block, and two blocks and a byte from each block on.

Deviations that need no model checker to see, and have no run: a copy that is cut short
without an error counts as a broken link (sendfile(2) moves less than the file when the
disk is full, as the result of posix_fallocate is compared with -1, which it never is, or
when the file is beyond 2 GiB; errno is still the ENOENT of the unlinkat in
`scoped_fileutil.cc:18`, and `cowfs.cc:230` returns true), so that the handle is on the
shared inode and its writes reach the item and every equal file (`BreakCopyShort`);
between the unlock at the end of `MaybeBreakHardlink` and the openat of `cowfs.cc:356`
nothing protects the path, and between its first openat and the lock neither, so a
release of another handle of the same path may share the inode again; an empty file that
was created for reading is not deduped (`cowfs.cc:375`); a line on the stderr of git
cat-file is read as an answer (see `GitCatFile`); a phony target "foo" beside "foo/foo"
makes `MaybeCreateParentDir` cast a file to a directory, or loses the children of one
(`directory_container.cc:101`); truncate(2) by path
changes the inode all equal files share (cowfs does not override
`PtfsHandler::Truncate`); a copy that fails leaves its temporary name behind
(`to_tmp.clear()` at `cowfs.cc:227`); two startup jobs, or two releases, that meet
equal files at once leave them separate (which is why `CowFsLive` has one thread);
a blob of size 0 is never served, as mmap refuses it; `Cache::release` keeps an
entry it finds (`cached_file.cc:159`), so entries are never unmapped; a create that
has to wait for its lock fails with EIO, as the failed `mkdirat` has replaced the
ENOENT `cowfs.cc:194` looks for; in git-githubfs the release of any handle clears
`memory_`, and the next read of another handle returns -1 (gitlstree fetches again,
`gitlstree.cc:222`, which is what `ReadServed` checks). All are in the
models: `SharedPaths`, `IoErrors` or `ShortCopies` set to `TRUE`, a second thread or
`Empty` files in `Deduped` show them (`CowFsFaults` with `ShortCopies = TRUE` ends in a
violation of `RepoIntact`), and so does `ReadServed` with `Githubfs = TRUE`.

The readers' properties state theirs: a path with a space is dropped from the listing
of git ls-tree (`gitlstree.cc:139`); an empty file with several names in an archive
ends cpiofs (`cpiofs.cc:143`, a null pointer); ext2 looks only at the first block of a
directory, ends at a file with all blocks that need no triple indirection, and reads a
link target of exactly 60 bytes from the block array (`ext2.cc:292`, `>` for `>=`).
Outside of the inputs: holes in a file of ext2 are left out instead of read as zeros
(`ext2.cc:140`), a read that does not start at a block copies too little from the
first block or beyond it (`ext2.cc:225`; libfuse reads whole pages), the order of
`HardlinkKey` is none for two devices (`cpiofs.cc:116`), sizes of blobs above 2^24 are
rounded to a float (`git-githubfs.cc:115`; `ToFloat`), `atoi` of a size from 2 GiB on
loses the framing of git cat-file (`git_cat_file.cc:140`), and a `git rev-parse` that
prints nothing throws before its exit code is looked at (`gitlstree.cc:122`, in
`GitLsTree!LoadDirectory`).

*Bounds.* Two files, two threads and two handles are what the races need: every
interference in the code is between two handlers that meet in one path, one item
or one inode. Two contents besides `Empty` let a write change an item's name and
let two files agree or differ. Eight inodes are never used up at once by two files,
two items, two temporary names and two handles; in `CowFsFaults` there are only
four, because a copy or a create without a free inode is one more failure, and one
thread, because what fails and what is undone is the business of one handler. One
kill suffices to leave each combination of locks and temporary names behind; the
restarted daemon runs over it. `MaxOpens = 2` is two handles on one file. `kLimit = 1`
lets two of four jobs wait while two are in scope. `MaxHeader = 3` is less than header
and content together, so the first read may take the header, part of the content or
all of a small answer. `PipeSize = 4` is less than an answer, so that git has to wait for
its reader in the middle of one. `MaxStrays = 1`: nothing is promised after the first line
on stderr. `MaxLate = 0`: what follows the line are the requests both callers had under
way when it came, in any state of the pipe; `MaxSaid = 0` is the size `atoi` finds in
`error: ...`. The proofs have no bound on the three. `MaxBuilds = 2` is a failed build, or
one of a dependency, and one of what depends on it (with three, which takes four times as
long, TLC finds the same). `CowFsShared` has a single content, as neither its property nor
the lock looks at contents: every write and every dedupe is still there. `FloatBits = 4` puts the rounding of a float within reach of small
numbers. `MinBlock = 16`, `NDirBlocks = 2`, `PointerSize = 8` and `InlineSize = 12` stand for
1024, 12, 4 and 60: what is left are blocks of two or four pointers, so that a file with
all kinds of blocks has at most 23 of them. Symmetry is used
only in runs without liveness: next-state relation and invariants do not tell files,
threads, handles or contents apart.

*Fairness.* `CowFs`: weak fairness of the startup and of each thread that is inside
a handler, a runnable thread is scheduled; nothing is assumed of clients, kills or
restarts. A spinning `mkdir` is a step, so a waiter is not promised the lock; 
clients that use one path at a time never wait for one, and what a wait without
end looks like is the run `CowFsStaleLock`. `BlobCache`: strong fairness of a thread, because a thread blocked on a
`std::mutex` that is released again and again gets it in the end; for the same reason
strong fairness of a caller in `GitCatFile` and of a worker in `NinjaFs`, with weak
fairness of git reading a request and writing an answer: git ends what it was asked,
and ninja ends a build. `GithubLoader`: weak fairness of each job's own steps;
spurious wake-ups need not happen, and a waiter of the limit is only woken by a
notification. The network is taken to answer, or
curl to fail: it is called without a time limit.

## 4. Proofs

For every value of the constants allowed by the named assumptions
`ConstantsAssumption`, `EnoughInodes`, `NoneIsNoHandle` (`CowFs`), `CacheAssumption` (`BlobCache`),
`LimitAssumption` (`ConcurrencyLimit`), `LoaderAssumption` (`GithubLoader`),
`CatAssumption` (`GitCatFile`), `NinjaAssumption` (`NinjaFs`), `Ext2Assumption` (`Ext2Fs`)
and `WrittenAssumption` (`ReaderInputs`):

| Theorem | States | Argument |
|---|---|---|
| `CowFsProofs!TypeCorrect` | `Spec => []TypeOK` | `TypeOK` alone is not inductive: a copy needs `from_fd` to be an inode, an open needs its handle. `LocalsOK` says what the locals hold at each program counter; `Typed` is both |
| `CowFsProofs!LockIsMutex` | `Spec => []LockExclusive` | a thread's step either stays on its side of the lock (`Advance`), takes a free lock or removes its own (`LockStep`); the lock directory of a dead daemon only keeps others out |
| `CowFsProofs!NoFileIsLost` | `Spec => FilesKept` | a rename over a user name would lose it if the temporary name did not exist: `TmpExists` says that a thread about to rename has its temporary name, and `OnlyTmpOf` that no other thread touches it |
| `CowFsProofs!WritersAreAlone` | `Discipline /\ Spec => []WriterAlone` | `Stages` says what a handler has made sure of at each program counter (before `openat` its path is the only link of its inode), `Serial` that no other handler, handle or job has its path, and `Frame` that a step changes nothing of names that are not its own |
| `CowFsProofs!RepoStaysIntact` | `Discipline /\ Spec => []RepoIntact` | `Items`: an item comes from a file that was read under the lock and that nobody had open; whoever writes is alone |
| `CowFsProofs!ImplementsPlain` | `Discipline /\ Spec => PlainSpec` | from the same invariant, each step of a handler changes no content of a user file (`Silent`), or is the open or the unlink of its own path (`Outcome`) |
| `CowFsProofs!NeverAborts` | `Discipline /\ ~IoErrors /\ Spec => []NoAbort` | `Sound`: a file that is going to be read under `ReadFromFile` is there, a job of `HardlinkTree` has its item until it has linked it (no item goes away in that phase), and a job that has called `HardlinkOneFile` has succeeded |
| `CowFsProofs!NoTempStays` | `Discipline /\ ~IoErrors /\ Spec => [](kills = 0 => NoTempLeft)` | `Tidy`: a temporary name belongs to a thread that is about to rename it, and its rename does something, because the file being deduped is the only link of its inode (`Linked`): nobody else links a path that is in use |
| `CowFsProofs!NoGarbageStays` | the same, and `"rename" \notin ClientOps`: `[](kills = 0 => NoGarbage)` | `Debts`: an item without a user file is in the debt of a thread that knows its name and has `GcLstat` and `GcUnlink` still before it; who drops a link of an item has read the item's name first, under the lock or from a file nobody else uses |
| `CowFsProofs!EqualFilesAreOne` | the same as `NoTempStays`, and one thread: `[](kills = 0 => Deduped)` | `Lone`: a file that is not open for writing is a link of the item of its content, or its release or its job of `HardlinkTree` is still to come (`Pending`), or the handler of the one thread is at it |
| `GithubLoaderProofs!LimitTypeCorrect` | `Spec => []TypeOK` | the invariant of the next two contains it |
| `GithubLoaderProofs!LimitHolds` | `Spec => []Bounded` | from the finiteness of the set in scope |
| `GithubLoaderProofs!NoWakeupIsLost` | `Spec => []NoLostWakeup` | counting places taken, waiters woken and notifications still to be sent |
| `BlobCacheProofs!TypeCorrect` | `Spec => []TypeOK` | part of the invariant of the next three |
| `BlobCacheProofs!CacheStaysIntact` | `Spec => []CacheIntact` | only the holder of `mutex_` is between write and map, and its temporary file is whole from the write on |
| `BlobCacheProofs!PublishedIsWhole` | `Spec => []PublishesWhole` | part of the same invariant |
| `BlobCacheProofs!NoDanglingMemory` | `Spec => []PointersValid` | no step but the end of the process removes an entry |
| `BlobCacheProofs!ReadsAreServed` | `~Githubfs /\ Spec => []ReadServed` | `Owned` and `Filled`: between its two locks a handler holds `buf_mutex_`, so the release that clears `memory_` has no read beside it; git-githubfs does not fetch again, and there the property does not hold |
| `GithubLoaderProofs!LoadImplementsLimit` | `LoadSpec => Spec` of `ConcurrencyLimit` | a step of the loader is one of the limit, or leaves its variables alone; `LoadKeepsLimit` (`Bounded`) and `LoadLosesNoWakeup` (`NoLostWakeup`) follow from the theorems above |
| `GithubLoaderProofs!ServedTreeIsFrozen` | `LoadSpec => ServedIsFrozen` | a call that waits only for its own children must imply that all calls are over, at any depth: `Rooted` says that every set of calls that holds the first one and the children of its members holds every call that was started, so when the first call is done, the calls that are over are such a set |
| `GithubLoaderProofs!ListedIsServed` | `LoadSpec => []Complete` | as long as GitHub lists all, the first call alone adds entries (`Alone`), and what is not in its `todo` any more is in the container (`Entered`), since `Add` replaces only the entry at its own path |
| `GithubLoaderProofs!LoadedIsATree` | `LoadSpec => []TreeAgrees` | `Tree`: the links are exactly one for each path of `files`, from the object above it, and no object is at two paths; `AddKeepsTree` says that `Add` keeps this if what it adds `Fits`. `Placed`: each object is that of an entry, at the entry's path after its directory was entered, or at the root if the answer was truncated, so that what is replaced has no children |
| `GitCatFileProofs!AnswersAreWhole` | `CatSpec => []AnswersMatch` | `Streams`: for the holder of `m_`, what it has read, what is in the pipe and what git has still to write are, one after the other, the answer to its request, cut short only by the end of the child; all three invariants hold as long as `strays = 0` |
| `GitCatFileProofs!PipesStayInStep` | `CatSpec => []InSync` | `Quiet`, from the same invariant: a request ends when it has all of its answer, so that nothing is left |
| `GitCatFileProofs!AssertionsHold` | `CatSpec => []AbortsOnlyFor` | a header line that git writes in one piece is in the pipe as a whole or not at all |
| `NinjaFsProofs!ReadsAreWhole` | `NinjaSpec => []ReadsWhole` | `Buffers`: the buffer of a target is empty only while the holder of its mutex fills it, and whole while a handle is open |
| `NinjaFsProofs!FailuresAreLogged` | `NinjaSpec => []FailureLogged` | the log only grows newer, and a failed build is logged before its opener returns |
| `NinjaFsProofs!KnownEnds` | `NinjaSpec => []DiesOnlyFor` | a target whose build ended well and that is no phony has a file (`Sane`), so of the steps that end the daemon only the named ones are possible (`Ends`) |
| `NinjaFsProofs!TargetsAreATree` | `NoCollision /\ NinjaSpec => []TreeAgrees` | the same `Tree`; `LeavesOnly`: a path that is not a target's is a directory, and a target still to be added is not there |
| `ReaderProofs!ListingIsServed` | `WrittenSpec => []ListingServed` | `Cut` says what tokens a text adds to those already there, whatever they are, so that characters make elements, elements a line, and lines the listing; then `BodyLoaded` reads an entry off the elements of its line, and `KeptLoaded` puts the entries together |
| `ReaderProofs!ArchiveIsServed` | `WrittenSpec => []CpioServed` | `SameOffsets`: the paddings of reader and writer agree, though they count from different places; `AfterTurns`, the invariant of the loop: after n turns it is at the header of member n + 1 and has the files among the first n, and for each inode with contents there a header that has them; `OneHolds`: of the names of a file with contents one has them, so that `Resolved` gets there from each of the others |
| `ReaderProofs!ImageIsServed` | `WrittenSpec => []Ext2Served` | `FileIs`: the vector of blocks is the data blocks in their order, whichever of the three kinds of pointer a block has; `CopyAligned`: a copy from the start of a block is the bytes from there on. `EndsLater`: what a turn of the walk leads to, the turns before lead to as well, so that the walk is followed backwards from its end, entry by entry; `TurnsEnough`: an image has room for all of its turns |

`Discipline` is `SharedPaths = FALSE` and `ShortCopies = FALSE`, without truncate by path.
Each part is needed: a release next to an open writer shares the writer's inode
(`CowFsSharedWrite`), a release after a rename aborts (`CowFsRenameOpen`), a copy that is
cut short without an error gives out a handle on the shared inode, and a truncate reaches
the item and the equal files. So what is promised to a client is promised on a host whose
sendfile(2) either copies the whole file or fails with an errno; the first three theorems
hold on any host.
The invariant behind `WritersAreAlone`, `RepoStaysIntact`, `ImplementsPlain` and
`NeverAborts` is `AloneInv`: that of the first three theorems with `Serial`, `Stages`,
`Writers` and `Items`.

The last three theorems of `CowFsProofs` need every condition they have. A kill or a refused
call leaves what it interrupted; the next startup sweeps items but no temporary names.
A rename over a file drops a link of its item and collects nothing (TLC finds the item
left behind at once when `CowFsSerial` gets `"rename"`). Two threads that release files
of equal content and find no item each rename their own file into its place: the last
one stays, and the file of the first has an inode to itself until the next startup, so
`Deduped` is a promise of one thread only. It leaves out empty files, because one that was
created for reading has an inode of its own until the next startup.

`NoCollision` says that no target is named like a directory of another one. ninja allows
it and CMake writes such targets ("foo" as a phony beside "foo/foo"): then the listing
either casts the file to a directory or destroys a directory the map still points to, and
`TreeAgrees` does not hold.

*The readers.* `GitEntry` is what git writes without quotes: words without blanks, and
a path with neither tab nor newline, not empty and not absolute. A path with a control, a
quote, a backslash or a byte from 128 on is one that git quotes; the reader takes the
quotes and escapes for the name, and such paths are outside of the theorem. `IsArchive` is what can
be archived: no two members have the same name, none is named like the trailer; the
members of one inode are one file, with one mode, one content and a link count above 1,
and no directory; a directory has no contents and a symbolic link has some. Both are
facts about git and cpio. `IsDisk` is the image of one file or link of any size, with its
names in the root, in a directory or both, and blocks of `MinBlock` doubled any number of
times; a target is no longer than a block. `WrittenAssumption` says no more than that the
inputs are such trees, archives and images. `EntriesAreServed`, `MembersAreServed` and
`DiskIsServed` are the theorems for one input; lengths of paths, names, contents, listings
and archives, the order of the members, and the sizes of files and blocks are arbitrary.
`Ext2Assumption` gives `MinBlock`, `NDirBlocks`, `PointerSize` and `InlineSize` any values of
the kind that 1024, 12, 4 and 60 are. `Ext2Served` states what the code does, its limits
included: a file that fills the doubly indirect blocks ends the process, a name in a
later block of a directory is not found, and a target of exactly `InlineSize` bytes is
read from the inode.

*Induction.* The theorems of the library that state induction take an operator as
parameter, which no installed prover can instantiate. The module `Induction` states it
with sets: `LeastNumber` says that a nonempty set of numbers has a least element (from
the well-foundedness of the finite subsets of a set, which the library has without a
parameter), and `Induct`, `InductUpTo` and `SeqInduct` that a set that holds 0 or the
empty sequence, and with each number or sequence the next, holds all. `LoopRuns` gives
the equation of a function that is defined by recursion over the turns of a loop, and
`FlattenAppend` those of `FlattenSeq`. With them, `WalkReaches` of
`DirectoryContainerProofs` shows that the walk along a path of any length ends at the
object that `files` has for the path, and `ReaderProofs` follows the loops of
`SplitStringUsing`, of both `LoadDirectory` and of `WalkDir` over inputs of any length.

Only model-checked: `JsonRoundTrip`, `TreeWholeOrNothing` and `BlobDecoded`, and all
liveness. Liveness under fairness and ENABLED are out of the prover's reach. The JSON
parser is mutually recursive over the nesting of values, as its code is, and RECURSIVE
operators cost the prover its SMT backend; the other two properties of git-githubfs go
through it.

## 5. Not modelled

Metadata (after a dedupe, owner, mode, times and extended attributes are those of the
item; no line of the repository promises otherwise), directories and symbolic links of
cowfs, the flock on `--lock_path` (its result is not looked at; the model has one
daemon), the sweep of abandoned `.tmp` files of the cache (the code never does it),
the owner and link count that getattr fills in, uptodate checks of ninja beyond
"built once", a truncated answer about a single tree (git-githubfs would repeat the
same call without an end), the fork in `PopenAndReadOrDie2` (that of `GitCatFile`
without requests), signs, fractions and exponents in JSON numbers, paths that git ls-tree
quotes, a second device in a cpio archive, triple indirection and unused entries of ext2, and the components
marked `not_modelled` in `PROJECT.json` with their reasons. A read-only handle keeps the inode it was opened
on when a writer breaks the link afterwards; the properties speak of what a new open
sees.

## 6. Plan

Done, in this order: `CowFs` with `PlainFs`, `ConcurrencyLimit`, `BlobCache` and
their first theorems; then `DirectoryContainer` with `GithubLoader`, `GitCatFile`,
`NinjaFs` and their theorems, and the readers; then that `CowFs` implements `PlainFs`;
then what it leaves behind, and the two copies of the directory tree; then the readers of
git ls-tree, of cpio archives and of ext2 images, for inputs of any length.
To come:

1. Proofs: `Base64` and `JsonParser` as recursive functions over the turns of their loops,
   as `CpioFs` and `Ext2Fs` are.
2. `GitCatFile` as the fetch of `BlobCache`: the object a caller gets is the blob the
   cache publishes.
3. `Ptfs`: directories, symbolic links and the calls by path.
