CONSTANTS
  p1 = p1
  p2 = p2
  Procs = {p1, p2}
  Proc0 = proc0
  None = None
  Chans = {}
  Selwait = selwait
  Hash <- OneChain
  Parent <- ParentOf
  Sigs = {18,19,20,30}
  CatchP2 = {30}
  HoldP1 = {19}
  Catch <- CatchOf
  Hold <- HoldOf
  NoCldStop = {p1}
  PPWait = {p1}
  Orphaned = {p1}
  Swappable = {p1, p2}
SPECIFICATION Spec
INVARIANT QueueDiscipline
