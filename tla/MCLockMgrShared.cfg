CONSTANTS
  p1 = p1
  p2 = p2
  kern = kern
  Pids = {p1, p2, kern}
  KernProc = kern
  NoProc = NoProc
  Requests = {"SHARED", "EXCLUSIVE", "UPGRADE", "EXCLUPGRADE", "DOWNGRADE", "RELEASE"}
  MaxHold = 3
SPECIFICATION Spec
INVARIANT SharedExcludesExclusive
CHECK_DEADLOCK FALSE
