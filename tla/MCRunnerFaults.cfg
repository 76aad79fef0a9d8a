SPECIFICATION Spec
CONSTANTS
  Runs = {r1, r2}
  Workers = {w1}
  NoRun = NoRun
  QueueSize = 1
  MaxRetries = 1
  MaxCrashes = 1
  StoreFaults = TRUE
  SlowRuns = TRUE
INVARIANTS DeadLetterMeansFailed CallbackOnce
PROPERTIES TerminalRowIsFinal
