\* Fetches and posts in every order, overlapping where the lists can take it.
SPECIFICATION FairSpec
CONSTANTS
  t1 = t1
  t2 = t2
  None = None
  NoThread = NoThread
  Threads <- TwoThreads
  maxBuckets = 2
  chunksInBucket = 2
  OldBuckets = {1}
  MaxFetches = 3
  Apart = TRUE
INVARIANTS OneOwner Conserved
PROPERTIES KeepsIndexes CallReturns
CHECK_DEADLOCK FALSE
