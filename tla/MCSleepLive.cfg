CONSTANTS
  p1 = p1
  p2 = p2
  c1 = c1
  Procs = {p1, p2}
  Proc0 = proc0
  None = None
  Chans = {c1}
  Selwait = selwait
  Hash <- OneChain
  Parent <- ParentOf
  Sigs = {}
  CatchP2 = {}
  HoldP1 = {}
  Catch <- CatchOf
  Hold <- HoldOf
  NoCldStop = {}
  PPWait = {}
  Orphaned = {}
  Swappable = {p2}
SPECIFICATION FairSpec
PROPERTY RunnableRuns
