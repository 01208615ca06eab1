CONSTANTS
  Jobs <- MCJobs
  kLimit = 1
  Trees <- MCTrees
  Files <- MCFiles
  Status = ".status"
  MayDefer = FALSE
  FetchFails = FALSE
SPECIFICATION LoadSpec
INVARIANTS
  CompleteOnRetry
