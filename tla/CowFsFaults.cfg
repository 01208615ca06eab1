\* One path at a time; any call of the host may fail, inodes
\* run out, and the daemon is killed and started again.
SPECIFICATION Spec
CONSTANTS
  f1 = f1  f2 = f2  a = a  b = b  t1 = t1  t2 = t2  h1 = h1  h2 = h2
  Empty = Empty
  None = None
  Files <- TwoFiles
  Contents <- OneContent
  Threads <- OneThread
  Handles <- OneHandle
  Inodes <- Inodes4
  ClientOps = {"unlink", "rename"}
  SharedPaths = FALSE
  IoErrors = TRUE
  ShortCopies = FALSE
  MaxKills = 1
SYMMETRY Symmetry
INVARIANTS RepoIntact
PROPERTIES PlainSpec
