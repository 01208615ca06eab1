\* Clients use one path at a time; the handlers of different paths race.
SPECIFICATION Spec
CONSTANTS
  f1 = f1  f2 = f2  a = a  b = b  t1 = t1  t2 = t2  h1 = h1  h2 = h2
  Empty = Empty
  None = None
  Files <- TwoFiles
  Contents <- TwoContents
  Threads <- TwoThreads
  Handles <- TwoHandles
  Inodes <- Inodes8
  ClientOps = {"read", "unlink", "link"}
  SharedPaths = FALSE
  IoErrors = FALSE
  ShortCopies = FALSE
  MaxKills = 0
SYMMETRY Symmetry
INVARIANTS TypeOK WriterAlone NoAbort NoTempLeft NoGarbage
PROPERTIES PlainSpec
