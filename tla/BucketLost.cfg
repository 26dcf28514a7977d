\* Stores run whenever they like.
SPECIFICATION Spec
CONSTANTS
  t1 = t1
  t2 = t2
  w = w
  s1 = s1
  s2 = s2
  e1 = e1
  e2 = e2
  e3 = e3
  e4 = e4
  Empty = Empty
  None = None
  Threads = {t1, t2}
  Writer = w
  Slots = {s1, s2}
  Entries = {e1, e2, e3}
  LogSize = 1
  Arrays = {1, 2, 3, 4}
  Logs = {1, 2, 3, 4}
  Exclusive = FALSE
SYMMETRY EntrySymmetry
INVARIANT ReadsBack
CHECK_DEADLOCK FALSE
