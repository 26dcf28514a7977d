\* An aligned write after an unaligned one: file.cpp:701.
SPECIFICATION Spec
CONSTANTS
  x = x
  y = y
  NUL = NUL
  None = None
  Old = Old
  chunkSize = 2
  MaxSize = 4
  Bytes = {x}
  numInode = 1
  numCtd = 2
  NoEntry = NoEntry
INVARIANT GrowsOnly
CHECK_DEADLOCK FALSE
