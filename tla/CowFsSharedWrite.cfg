\* Two handles on one path.
SPECIFICATION Spec
CONSTANTS
  f1 = f1  f2 = f2  a = a  b = b  t1 = t1  t2 = t2  h1 = h1  h2 = h2
  Empty = Empty
  None = None
  Files <- TwoFiles
  Contents <- OneContent
  Threads <- OneThread
  Handles <- TwoHandles
  Inodes <- Inodes8
  ClientOps = {}
  SharedPaths = TRUE
  IoErrors = FALSE
  ShortCopies = FALSE
  MaxKills = 0
SYMMETRY Symmetry
PROPERTIES OthersIntact
