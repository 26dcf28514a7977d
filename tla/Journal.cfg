\* Whole stores between calls, files closed before them; nothing is used after a replay.
SPECIFICATION Spec
CONSTANTS
  a = a
  b = b
  i1 = i1
  i2 = i2
  v1 = v1
  v2 = v2
  m1 = m1
  m2 = m2
  None = None
  Names = {a, b}
  Inos = {i1, i2}
  Values = {v1, v2}
  Modes = {m1, m2}
  mode0 = m1
  NumSlots = 4
  MaxCalls = 4
  MaxCrashes = 2
  Faults = {}
SYMMETRY Symmetry
INVARIANTS Durable ShowsCalls CountsRecovered
CHECK_DEADLOCK FALSE
