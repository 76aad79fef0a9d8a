SPECIFICATION Spec
CONSTANTS
  Runs = {r1, r2}
  Workers = {w1}
  NoRun = NoRun
  QueueSize = 1
  MaxRetries = 1
  MaxCrashes = 0
  StoreFaults = FALSE
  SlowRuns = TRUE
INVARIANTS FailureIsDeadLettered
