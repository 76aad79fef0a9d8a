SPECIFICATION FairSpec
CONSTANTS
  Runs = {r1, r2}
  Workers = {w1, w2}
  NoRun = NoRun
  QueueSize = 1
  MaxRetries = 1
  MaxCrashes = 0
  StoreFaults = FALSE
  SlowRuns = FALSE
INVARIANT OnePlace
PROPERTIES ImplementsRunEvents QueuedRunSettles CancelTakesEffect
