\* A daemon may end or refuse to start, and a reader stops after its input.
CONSTANTS
  Refs = {"big", "nil", "gone"}
  Size <- MCSize
  MissingRefs = {"gone"}
  Callers = {c1, c2}
  Nobody = Nobody
  NoRef = NoRef
  MaxHeader = 3
  PipeSize = 4
  MaxStrays = 1
  MaxLate = 0
  MaxSaid = 0
  ChildMayDie = TRUE
  Targets <- MCTargets
  Phony <- MCPhony
  Large <- MCLarge
  AbsolutePaths = TRUE
  Deps <- MCDeps
  LogPath <- MCLogPath
  Workers = {w1, w2}
  Free = Free
  MaxBuilds = 2
  MaxHandles = 1
  Listings <- MCListings
  Archives <- MCArchives
  Disks <- MCDisks
  FloatBits = 4
  MinBlock = 16
  NDirBlocks = 2
  PointerSize = 8
  InlineSize = 12
SPECIFICATION Spec
INVARIANTS
  AnswersMatch
  InSync
  AbortsOnlyFor
  ReadsWhole
  FailureLogged
  DiesOnlyFor
  JsonRoundTrip
  TreeWholeOrNothing
  BlobDecoded
  ListingServed
  CpioServed
  Ext2Served
PROPERTIES
  RequestsReturn
  NinjaReturns
CHECK_DEADLOCK FALSE
