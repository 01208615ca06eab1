\* Clients may use one path in several operations at once.
SPECIFICATION Spec
CONSTANTS
  f1 = f1  f2 = f2  a = a  b = b  t1 = t1  t2 = t2  h1 = h1  h2 = h2
  Empty = Empty
  None = None
  Files <- OneFile
  Contents <- EmptyOnly
  Threads <- TwoThreads
  Handles <- TwoHandles
  Inodes <- Inodes8
  ClientOps = {"unlink", "truncate"}
  SharedPaths = TRUE
  IoErrors = FALSE
  ShortCopies = TRUE
  MaxKills = 1
SYMMETRY Symmetry
INVARIANTS LockExclusive
PROPERTIES FilesKept
