\* The daemon is killed once and started again.
SPECIFICATION FairSpec
CONSTANTS
  f1 = f1  f2 = f2  a = a  b = b  t1 = t1  t2 = t2  h1 = h1  h2 = h2
  Empty = Empty
  None = None
  Files <- OneFile
  Contents <- OneContent
  Threads <- OneThread
  Handles <- OneHandle
  Inodes <- Inodes8
  ClientOps = {}
  SharedPaths = FALSE
  IoErrors = FALSE
  ShortCopies = FALSE
  MaxKills = 1
PROPERTIES StartupEnds
