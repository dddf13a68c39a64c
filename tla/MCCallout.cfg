CONSTANTS
  s1 = s1
  s2 = s2
  f1 = f1
  f2 = f2
  Slots = {s1, s2}
  Timers = {f1, f2}
  Idle = Idle
  MaxTicks = 3
  MaxLate = 2
SPECIFICATION FairSpec
INVARIANTS TypeOK SlotsPartitioned DeltaEncoding DueIsRequested
PROPERTIES ImplementsAbs EventuallyCalled
CHECK_DEADLOCK FALSE
