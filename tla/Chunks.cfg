\* Every write and truncation of a small file, with a reader beside it.
SPECIFICATION Spec
CONSTANTS
  x = x
  y = y
  NUL = NUL
  None = None
  Old = Old
  chunkSize = 3
  MaxSize = 4
  Bytes = {x}
  numInode = 1
  numCtd = 2
  NoEntry = NoEntry
INVARIANTS ReadsWhatWasThere ChainKeepsList WritesFit
PROPERTY KeepsBytes
CHECK_DEADLOCK FALSE
