\* A fetch overlaps a fetch and a post of another thread: one index, two owners.
SPECIFICATION Spec
CONSTANTS
  t1 = t1
  t2 = t2
  None = None
  NoThread = NoThread
  Threads <- TwoThreads
  maxBuckets = 2
  chunksInBucket = 2
  OldBuckets = {}
  MaxFetches = 4
  Apart = FALSE
INVARIANT OneOwner
CHECK_DEADLOCK FALSE
