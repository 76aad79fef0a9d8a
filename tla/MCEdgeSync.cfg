SPECIFICATION SyncSpec
CONSTANTS
  EdgeNodes = {"e1", "e2"}
  SyncRuns = {"r1", "r2"}
  HomeOf <- HomeOfMC
  BundleLimits = {2}
  MaxRunWrites = 2
  MaxSyncFaults = 0
PROPERTY NewerWins
