SPECIFICATION FairSpec
CONSTANTS
  Nodes = {1, 2, 3, 4}
  Deps <- JoinDeps
  Level <- JoinLevel
  Depth = 3
  Conditional = {3}
  MaxCalls = 3
  StoreFaults = TRUE
  MayCancel = TRUE
  MayCrash = TRUE
INVARIANTS DependenciesSettled CheckpointComplete
PROPERTIES RecordedNodeNotRerun CallReturns
