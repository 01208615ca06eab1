CONSTANTS
  f1 = f1
  f2 = f2
  ln = ln
  b1 = b1
  b2 = b2
  None = None
  Elements <- MCElements
  Blobs <- MCBlobs
  Symlinks <- NoElements
  Sha <- MCSha
  EmptyBlobs <- MCEmptyThird
  Threads = {t1, t2}
  Githubfs = TRUE
  IoErrors = TRUE
  MaxOpens = 1
  MaxKills = 1
SPECIFICATION FairSpec
INVARIANTS
  CacheIntact
  PointersValid
PROPERTIES HandlersReturn
