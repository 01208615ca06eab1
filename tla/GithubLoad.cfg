CONSTANTS
  Jobs <- MCJobs
  kLimit = 1
  Trees <- MCTrees
  Files <- MCFiles
  Status = ".status"
  MayDefer = TRUE
  FetchFails = TRUE
SPECIFICATION LoadFairSpec
INVARIANTS
  TypeOK
  Bounded
  NoLostWakeup
  Complete
  TreeAgrees
PROPERTIES
  ServedIsFrozen
  LoadEnds
