CONSTANTS
  p1 = p1
  p2 = p2
  p3 = p3
  Procs = {p1, p2, p3}
  None = None
  NQS = 3
  PPQ = 2
  PUSER = 3
  Window = FALSE
SPECIFICATION FairSpec
INVARIANTS TypeOK WhichqsTells OnItsQueue NoPanic
PROPERTY NotIdleForEver
