CONSTANTS
  p1 = p1
  p2 = p2
  o1 = o1
  Procs = {p1, p2}
  Objs = {o1}
  None = None
  NotOpen = NotOpen
SPECIFICATION FairSpec
INVARIANTS TypeOK NoLostWakeup ScanIsCurrent
PROPERTIES SelectReturns TimedSelectReturns
