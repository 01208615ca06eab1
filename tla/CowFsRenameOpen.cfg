\* A rename may come before the RELEASE of a handle that was closed.
SPECIFICATION Spec
CONSTANTS
  f1 = f1  f2 = f2  a = a  b = b  t1 = t1  t2 = t2  h1 = h1  h2 = h2
  Empty = Empty
  None = None
  Files <- TwoFiles
  Contents <- OneContent
  Threads <- OneThread
  Handles <- OneHandle
  Inodes <- Inodes8
  ClientOps = {"rename"}
  SharedPaths = TRUE
  IoErrors = FALSE
  ShortCopies = FALSE
  MaxKills = 0
SYMMETRY Symmetry
INVARIANTS NoAbort
