CONSTANTS
  f1 = f1
  f2 = f2
  ln = ln
  b1 = b1
  b2 = b2
  None = None
  Elements <- MCElements
  Blobs <- MCBlobs
  Symlinks <- MCSymlinks
  Sha <- MCSha
  EmptyBlobs <- MCNoBlobs
  Threads = {t1, t2, t3}
  Githubfs = FALSE
  IoErrors = TRUE
  MaxOpens = 2
  MaxKills = 1
SPECIFICATION Spec
INVARIANTS
  TypeOK
  ReadServed
  PublishesWhole
