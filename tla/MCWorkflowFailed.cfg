SPECIFICATION Spec
CONSTANTS
  Nodes = {1, 2, 3, 4}
  Deps <- JoinDeps
  Level <- JoinLevel
  Depth = 3
  Conditional = {3}
  MaxCalls = 2
  StoreFaults = FALSE
  MayCancel = FALSE
  MayCrash = FALSE
INVARIANT ResumeSkipsOnlyCompleted
