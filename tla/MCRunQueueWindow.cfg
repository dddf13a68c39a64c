CONSTANTS
  p1 = p1
  p2 = p2
  p3 = p3
  Procs = {p1, p2, p3}
  None = None
  NQS = 2
  PPQ = 2
  PUSER = 1
  Window = TRUE
SPECIFICATION Spec
INVARIANT WhichqsTells
CHECK_DEADLOCK FALSE
