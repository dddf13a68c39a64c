CONSTANTS
  p1 = p1
  p2 = p2
  Procs = {p1, p2}
  Proc0 = proc0
  None = None
  Chans = {}
  Selwait = selwait
  Hash <- OneChain
  Parent <- ParentOf
  Sigs = {9, 17, 19, 20}
  CatchP2 = {19}
  HoldP1 = {}
  Catch <- CatchOf
  Hold <- HoldOf
  NoCldStop = {}
  PPWait = {}
  Orphaned = {}
  Swappable = {}
SPECIFICATION Spec
INVARIANTS TypeOK NoPanic QueueDiscipline TimeoutOfThisSleep ReturnValueIsTrue UninterruptibleNeverStopped
