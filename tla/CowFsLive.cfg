\* A fair thread: handlers return, the startup ends, equal files are one inode.
SPECIFICATION FairSpec
CONSTANTS
  f1 = f1  f2 = f2  a = a  b = b  t1 = t1  t2 = t2  h1 = h1  h2 = h2
  Empty = Empty
  None = None
  Files <- TwoFiles
  Contents <- TwoContents
  Threads <- OneThread
  Handles <- OneHandle
  Inodes <- Inodes8
  ClientOps = {"read", "unlink", "link", "rename"}
  SharedPaths = FALSE
  IoErrors = FALSE
  ShortCopies = FALSE
  MaxKills = 0
INVARIANTS Deduped
PROPERTIES StartupEnds HandlersReturn
