\* An overwrite of one file against a write of another: file.cpp:521.
SPECIFICATION Spec
CONSTANTS
  t1 = t1
  t2 = t2
  f1 = f1
  f2 = f2
  d1 = d1
  a = a
  b = b
  h1 = h1
  h2 = h2
  h3 = h3
  h4 = h4
  s1 = s1
  s2 = s2
  s3 = s3
  s4 = s4
  Zero = Zero
  None = None
  Threads <- TwoThreads
  Files = {f1, f2}
  Directories = {}
  NumPositions = 1
  Contents = {a}
  Hashes = {h1, h2, h3}
  Slots = {s1, s2, s3}
  FilesOf <- OwnFiles
  ContentsOf <- SharedContents
  MaxRemounts = 0
PROPERTY OtherFilesKept
CHECK_DEADLOCK FALSE
