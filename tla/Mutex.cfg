\* Three threads, unique sections nested two deep.
SPECIFICATION FairSpec
CONSTANTS
  t1 = t1
  t2 = t2
  t3 = t3
  Threads <- MCThreads
  NoThread = NoThread
  MaxDepth = 2
INVARIANTS LockInv Exclusion
PROPERTIES RWSpec WriterDrains SomebodyEnters
