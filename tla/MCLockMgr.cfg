CONSTANTS
  p1 = p1
  p2 = p2
  kern = kern
  Pids = {p1, p2, kern}
  KernProc = kern
  NoProc = NoProc
  Requests = {"SHARED", "EXCLUSIVE", "UPGRADE", "EXCLUPGRADE", "DOWNGRADE", "RELEASE", "DRAIN"}
  MaxHold = 3
SPECIFICATION Spec
INVARIANTS TypeOK ExclusiveIsExclusive
CHECK_DEADLOCK FALSE
