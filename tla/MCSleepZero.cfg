CONSTANTS
  p1 = p1
  p2 = p2
  Procs = {p1, p2}
  Proc0 = proc0
  None = None
  Chans = {}
  Selwait = selwait
  Hash <- OneChain
  Parent <- ParentOf
  Sigs = {18, 19}
  CatchP2 = {18}
  HoldP1 = {}
  Catch <- CatchOf
  Hold <- HoldOf
  NoCldStop = {}
  PPWait = {}
  Orphaned = {}
  Swappable = {}
SPECIFICATION Spec
INVARIANT ReturnsZeroIfAwakened
CHECK_DEADLOCK FALSE
