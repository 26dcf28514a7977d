\* Holes written before a remount are shortened after it: file.cpp:884.
SPECIFICATION Spec
CONSTANTS
  t1 = t1
  t2 = t2
  f1 = f1
  f2 = f2
  d1 = d1
  a = a
  b = b
  h1 = h1
  h2 = h2
  h3 = h3
  h4 = h4
  s1 = s1
  s2 = s2
  s3 = s3
  s4 = s4
  Zero = Zero
  None = None
  Threads <- OneThread
  Files = {f1}
  Directories = {}
  NumPositions = 2
  Contents = {}
  Hashes = {h1}
  Slots = {s1}
  FilesOf <- AllFiles
  ContentsOf <- AllContents
  MaxRemounts = 1
INVARIANT RestedAlive
