CONSTANTS
  v1 = v1
  v2 = v2
  p1 = p1
  p2 = p2
  p3 = p3
  f1 = f1
  f2 = f2
  Vnodes = {v1, v2}
  Procs = {p1, p2, p3}
  Files = {f1, f2}
  None = None
  desiredvnodes = 1
  IdMod = 5
SYMMETRY Symmetry
SPECIFICATION Spec
INVARIANTS TypeOK FreeListExact VgetIsRight RefKeepsFile CacheIsRight CleanerWakes
CHECK_DEADLOCK FALSE
