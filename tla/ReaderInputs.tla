----------------------------- MODULE ReaderInputs -----------------------------
(***************************************************************************)
(* The readers take what somebody else wrote.  A behaviour takes one       *)
(* input; an input is what the writer was given, and a property relates    *)
(* what the reader makes of the writer's bytes to it.  Here are the        *)
(* readers of gitlstree, of cpiofs and of ext2.                            *)
(***************************************************************************)
EXTENDS GitLsTree, CpioFs, Ext2Fs

CONSTANTS
  Listings,      \* trees git ls-tree may be asked for: their entries
  Archives,      \* archives: their members
  Disks          \* images of a disk: the file they have

ASSUME WrittenAssumption ==
  /\ Listings \subseteq Seq(GitEntry)
  /\ \A members \in Archives : IsArchive(members)
  /\ \A d \in Disks : IsDisk(d)

VARIABLE input

ReadInit == input = <<"none">>

Take(inputs) == input = <<"none">> /\ input' \in inputs

TakeListing == Take({"listing"} \X Listings)
TakeArchive == Take({"cpio"} \X Archives)
TakeDisk == Take({"ext2"} \X Disks)

WrittenNext == TakeListing \/ TakeArchive \/ TakeDisk

WrittenSpec == ReadInit /\ [][WrittenNext]_input

-----------------------------------------------------------------------------

\* The lines of git ls-tree come out as the entries of the tree, and only a
\* path with a space is lost: LoadDirectory of gitlstree.
ListingServed == input[1] = "listing" => EntriesServed(input[2])

\* Padding and hard links never make cpiofs serve something else than was
\* archived.
CpioServed == input[1] = "cpio" => MembersServed(input[2])

\* Every way to point to a block gives the byte that was written there.
Ext2Served == input[1] = "ext2" => DiskServed(input[2])
=============================================================================
