CONSTANTS
  init = init
  p1 = p1
  p2 = p2
  p3 = p3
  s1 = s1
  s2 = s2
  s3 = s3
  Procs = {init, p1, p2, p3}
  initproc = init
  Sessions = {s1, s2, s3}
  None = None
  PidLow = 3
  PID_MAX = 6
  maxproc = 6
SYMMETRY Symmetry
SPECIFICATION Spec
INVARIANTS TypeOK RangeIsFree ParentLives JobcExact SessionCount NoLostZombie
PROPERTY FreshPid
