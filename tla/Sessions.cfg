CONSTANTS
  p1 = p1
  p2 = p2
  pw1 = pw1
  pw2 = pw2
  empty = empty
  full = full
  Procs = {p1, p2}
  Passwords = {pw1, pw2}
  Contents = {empty, full}
  Empty = empty
  None = None
  Forged = Forged
  MaxRuns = 6
  MaxGen = 3
  MaxCrashes = 2
  Faults = {}
SPECIFICATION Spec
SYMMETRY Symmetry
INVARIANTS Usable OldKeyGone StoresForOwner
CHECK_DEADLOCK FALSE
