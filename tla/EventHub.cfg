SPECIFICATION HubFairSpec
CONSTANTS
  Runs = {r1, r2}
  Streams = {c1, c2}
  MaxRetries = 1
  BufferSize = 2
  MayCloseAll = TRUE
INVARIANT StreamFaithful
PROPERTY StreamEnds
