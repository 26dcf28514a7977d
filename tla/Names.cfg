\* Root and a user in a tree of two levels.
SPECIFICATION Spec
CONSTANTS
  a = a
  b = b
  i0 = i0
  i1 = i1
  i2 = i2
  i3 = i3
  i4 = i4
  u = u
  superuser = superuser
  None = None
  NoFile = NoFile
  Names = {a, b}
  Inos = {i0, i1, i2, i3, i4}
  rootIndex = i0
  Contexts <- Both
  Modes <- TwoModes
  Trees <- MCTrees
  MaxDepth = 2
  maxOpenFiles = 2
  MaxOpens = 2
  MaxCalls = 3
  Steady = TRUE
SYMMETRY Symmetry
INVARIANTS LinksMatchNames PathsResolve HandlesMatch
PROPERTY TreeSpec
CHECK_DEADLOCK FALSE
