CONSTANTS
  c1 = c1
  c2 = c2
  w1 = w1
  w2 = w2
  d1 = d1
  d2 = d2
  Callers = {c1, c2}
  Writers = {w1, w2}
  DataIds = {d1, d2}
  destructor = destructor
  Nobody = Nobody
  NoText = NoText
  PerRecord = 1
  MaxCalls = 2
SPECIFICATION Spec
INVARIANTS ListStored
CHECK_DEADLOCK FALSE
