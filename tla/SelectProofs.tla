---------------------------- MODULE SelectProofs ----------------------------
(***************************************************************************)
(* select(2) loses no wakeup, for any number of processes and objects.     *)
(*                                                                         *)
(* NoLostWakeup by itself is not inductive: what a process has registered  *)
(* when it goes to sleep is what ScanIsCurrent says of the scan before.    *)
(* ScanIsCurrent needs that only one process at a time scans, or one could *)
(* replace the other in a selinfo (selrecord only respects sleepers).      *)
(***************************************************************************)
EXTENDS Select, TLAPS

\* At the start nobody is in select.
LEMMA SelectInit == Init => IInv
BY SelectConstants DEF Init, IInv, TypeOK, NoLostWakeup, ScanIsCurrent, Inductive,
   InKernel, Pcs, Lefts

\* A step into selscan, from user mode or again: everything is still to do.
LEMMA BeginInv ==
  ASSUME IInv, NEW p \in Procs, NEW S \in SUBSET Descriptors, MayRun(p), Begin(p, S),
         pc[p] \in {"user", "check", "woken"},
         UNCHANGED objs, interest' = [interest EXCEPT ![p] = S],
         left' \in [Procs -> Lefts]
  PROVE  IInv'
<1> USE DEF IInv, Begin, objs, InKernel
<1>1. TypeOK' BY DEF TypeOK, Pcs
<1>2. NoLostWakeup' BY DEF TypeOK, NoLostWakeup, Registered
<1>3. ScanIsCurrent'
  BY DEF TypeOK, ScanIsCurrent, MayRun
<1>4. Inductive' BY DEF TypeOK, Inductive, MayRun
<1> QED BY <1>1, <1>2, <1>3, <1>4

\* A step out of select: the process has no registration to care for.
LEMMA FinishInv ==
  ASSUME IInv, NEW p \in Procs, Finish(p), UNCHANGED objs
  PROVE  IInv'
<1> USE DEF IInv, Finish, objs, InKernel
<1>1. TypeOK' BY DEF TypeOK, Pcs, Lefts
<1>2. NoLostWakeup' BY DEF TypeOK, NoLostWakeup, Registered
<1>3. ScanIsCurrent' BY DEF TypeOK, ScanIsCurrent, MustRetry, Registered
<1>4. Inductive' BY DEF TypeOK, Inductive
<1> QED BY <1>1, <1>2, <1>3, <1>4

\* selscan at one open descriptor: selrecord disturbs no sleeper.
LEMMA ScanOneInv ==
  ASSUME IInv, NEW p \in Procs, NEW o \in Objs, ScanOne(p, o)
  PROVE  IInv'
<1> USE DEF IInv, ScanOne, InKernel
<1>1. /\ si_pid' \in [Objs -> Procs \cup {None}] /\ si_coll' \subseteq Objs
      /\ \A x \in Objs \ {o} : si_pid'[x] = si_pid[x] /\ (x \in si_coll' <=> x \in si_coll)
  BY DEF TypeOK, selrecord
<1>2. o \notin ready => Registered(p, o)'
  BY SelectConstants DEF TypeOK, selrecord, Registered
<1>3. \A q \in Procs : pc[q] = "asleep" /\ Registered(q, o) => Registered(q, o)'
  BY SelectConstants DEF TypeOK, selrecord, Registered
<1>4. TypeOK' BY <1>1 DEF TypeOK
<1>5. NoLostWakeup'
  BY <1>1, <1>3 DEF TypeOK, NoLostWakeup, Registered
<1>6. ScanIsCurrent'
  <2> SUFFICES ASSUME NEW q \in InKernel, ~MustRetry(q),
                      NEW x \in interest[q] \ (todo'[q] \cup found'[q])
               PROVE  x \in Objs \ ready /\ Registered(q, x)'
    BY DEF ScanIsCurrent, MustRetry
  <2>1. q = p BY DEF Inductive
  <2>2. CASE x = o BY <1>2, <2>1, <2>2 DEF TypeOK
  <2>3. CASE x # o
    <3>1. x \in interest[q] \ (todo[q] \cup found[q]) BY <2>1, <2>3 DEF TypeOK
    <3>2. x \in Objs \ ready /\ Registered(q, x) BY <3>1 DEF ScanIsCurrent
    <3> QED BY <3>2, <2>3, <1>1 DEF Registered
  <2> QED BY <2>2, <2>3
<1>7. Inductive' BY DEF TypeOK, Inductive
<1> QED BY <1>4, <1>5, <1>6, <1>7

\* The end of the scan without anything found.
LEMMA ScanEndInv ==
  ASSUME IInv, NEW p \in Procs, ScanEnd(p), found[p] = {}
  PROVE  IInv'
<1> USE DEF IInv, ScanEnd, call, objs, InKernel
<1>1. TypeOK' BY DEF TypeOK, Pcs
<1>2. NoLostWakeup' BY DEF TypeOK, NoLostWakeup, Registered
<1>3. ScanIsCurrent' BY DEF TypeOK, ScanIsCurrent, MustRetry, Registered
<1>4. Inductive' BY DEF TypeOK, Inductive
<1> QED BY <1>1, <1>2, <1>3, <1>4

\* Going to sleep: what ScanIsCurrent said of the scan holds of the sleep.
LEMMA SleepInv ==
  ASSUME IInv, NEW p \in Procs, Sleep(p)
  PROVE  IInv'
<1> USE DEF IInv, Sleep, call, objs, InKernel
<1>1. TypeOK' BY DEF TypeOK, Pcs, MustRetry
<1>2. \A x \in interest[p] : x \in Objs \ ready /\ Registered(p, x)
  BY DEF ScanIsCurrent, Inductive
<1>3. NoLostWakeup' BY <1>2 DEF TypeOK, NoLostWakeup, Registered
<1>4. ScanIsCurrent' BY DEF TypeOK, ScanIsCurrent, MustRetry, Registered
<1>5. Inductive' BY DEF TypeOK, Inductive
<1> QED BY <1>1, <1>3, <1>4, <1>5

\* An event on o: whoever counts on it is woken or told to look again.
LEMMA ArriveInv ==
  ASSUME IInv, NEW o \in Objs, Arrive(o)
  PROVE  IInv'
<1> USE DEF IInv, Arrive, selwakeup, CountCollision, call
<1>1. Woken(o) \subseteq {p \in Procs : pc[p] = "asleep"} BY DEF Woken
<1>2. InKernel' = InKernel BY <1>1 DEF TypeOK, InKernel
<1>3. TypeOK' BY <1>1, <1>2 DEF TypeOK, Pcs
<1>4. \A x \in Objs \ {o} : si_pid'[x] = si_pid[x] /\ (x \in si_coll' <=> x \in si_coll)
  BY DEF TypeOK
<1>5. NoLostWakeup'
  <2> SUFFICES ASSUME NEW p \in Procs, pc'[p] = "asleep", NEW x \in interest[p]
               PROVE  x \in Objs \ ready' /\ Registered(p, x)'
    BY DEF NoLostWakeup
  <2>1. pc[p] = "asleep" /\ p \notin Woken(o) BY DEF TypeOK
  <2>2. x \in Objs \ ready /\ Registered(p, x) BY <2>1 DEF NoLostWakeup
  <2>3. x # o BY <2>1, <2>2, SelectConstants DEF Woken, Registered
  <2> QED BY <2>2, <2>3, <1>4 DEF Registered
<1>6. ScanIsCurrent'
  <2> SUFFICES ASSUME NEW p \in InKernel, ~MustRetry(p)',
                      NEW x \in interest[p] \ (todo[p] \cup found[p])
               PROVE  x \in Objs \ ready' /\ Registered(p, x)'
    BY <1>2 DEF ScanIsCurrent
  <2>1. ~MustRetry(p) BY <1>2 DEF MustRetry, TypeOK
  <2>2. x \in Objs \ ready /\ Registered(p, x) BY <2>1 DEF ScanIsCurrent
  <2>3. p \in Procs \ Woken(o) /\ pc[p] # "gone" BY <1>1 DEF InKernel
  <2>4. x # o BY <2>2, <2>3, SelectConstants DEF MustRetry, Registered
  <2> QED BY <2>2, <2>4, <1>4 DEF Registered
<1>7. Inductive' BY <1>1, <1>2 DEF TypeOK, Inductive
<1> QED BY <1>3, <1>5, <1>6, <1>7

\* The steps that leave selinfos, flags and scans alone.
LEMMA OutsideInv ==
  ASSUME IInv, NEW p \in Procs,
         \/ TimerFires(p) \/ Signal(p) \/ TimePasses(p) \/ Exit(p) \/ Fork(p)
         \/ \E o \in Objs : Consume(p, o)
  PROVE  IInv'
<1>1. /\ UNCHANGED <<si_pid, si_coll, p_select, moved, interest, todo, found>>
      /\ ready' \subseteq ready
      /\ pc' \in [Procs -> Pcs] /\ left' \in [Procs -> Lefts]
      /\ \A q \in Procs : \/ pc'[q] = pc[q]
                          \/ pc[q] \notin {"scan", "check"}
                             /\ pc'[q] \notin {"scan", "check", "asleep"}
  BY DEF IInv, TypeOK, TimerFires, Signal, TimePasses, Exit, Fork, Consume, objs, call,
         Pcs, Lefts
<1>2. InKernel' = InKernel BY <1>1 DEF InKernel
<1>3. TypeOK' BY <1>1, <1>2 DEF IInv, TypeOK
<1>4. NoLostWakeup' BY <1>1 DEF IInv, NoLostWakeup, Registered
<1>5. ScanIsCurrent' BY <1>1, <1>2 DEF IInv, ScanIsCurrent, MustRetry, Registered
<1>6. Inductive' BY <1>1, <1>2 DEF IInv, Inductive
<1> QED BY <1>3, <1>4, <1>5, <1>6 DEF IInv

\* Every step keeps the invariant.
LEMMA SelectStep == IInv /\ [Next]_vars => IInv'
<1> SUFFICES ASSUME IInv, [Next]_vars PROVE IInv'
  OBVIOUS
<1>1. ASSUME NEW p \in Procs, NEW S \in SUBSET Descriptors, NEW t \in Lefts, Select(p, S, t)
      PROVE  IInv'
  <2>1. left' \in [Procs -> Lefts] BY <1>1 DEF Select, IInv, TypeOK
  <2> QED BY <1>1, <2>1, BeginInv DEF Select
<1>2. ASSUME NEW p \in Procs, InSelect(p) PROVE IInv'
  <2>1. CASE \E o \in Objs : ScanOne(p, o) BY <2>1, ScanOneInv
  <2>2. CASE ScanBad(p) BY <2>2, FinishInv DEF ScanBad
  <2>3. CASE ScanEnd(p)
    <3>1. CASE found[p] = {} BY <2>3, <3>1, ScanEndInv
    <3>2. CASE found[p] # {} BY <2>3, <3>2, FinishInv DEF ScanEnd
    <3> QED BY <3>1, <3>2
  <2>4. CASE GiveUp(p) BY <2>4, FinishInv DEF GiveUp
  <2>5. CASE LookAgain(p)
    <3>1. MayRun(p) BY <2>5 DEF LookAgain, MayRun, InKernel, IInv, Inductive
    <3>2. interest[p] \in SUBSET Descriptors /\ left' \in [Procs -> Lefts]
          /\ interest' = [interest EXCEPT ![p] = interest[p]]
      BY <2>5 DEF LookAgain, IInv, TypeOK
    <3> QED BY <2>5, <3>1, <3>2, BeginInv DEF LookAgain
  <2>6. CASE Sleep(p) BY <2>6, SleepInv
  <2> QED BY <1>2, <2>1, <2>2, <2>3, <2>4, <2>5, <2>6 DEF InSelect
<1>3. ASSUME NEW p \in Procs, Resume(p) PROVE IInv'
  <2>1. CASE pc[p] = "woken"
    <3>1. interest[p] \in SUBSET Descriptors /\ left' \in [Procs -> Lefts]
          /\ interest' = [interest EXCEPT ![p] = interest[p]]
      BY <1>3, <2>1 DEF Resume, IInv, TypeOK
    <3> QED BY <1>3, <2>1, <3>1, BeginInv DEF Resume
  <2>2. CASE pc[p] # "woken" BY <1>3, <2>2, FinishInv DEF Resume
  <2> QED BY <2>1, <2>2
<1>4. CASE UNCHANGED vars
  <2> USE <1>4 DEF vars, objs, call, IInv
  <2>1. TypeOK' BY DEF TypeOK, InKernel
  <2>2. NoLostWakeup' BY DEF NoLostWakeup, Registered
  <2>3. ScanIsCurrent' BY DEF ScanIsCurrent, InKernel, MustRetry, Registered
  <2>4. Inductive' BY DEF Inductive, InKernel
  <2> QED BY <2>1, <2>2, <2>3, <2>4
<1> QED BY <1>1, <1>2, <1>3, <1>4, OutsideInv, ArriveInv DEF Next

\* The inductive invariant holds in every reachable state of select.
THEOREM SelectInvariant == Spec => []IInv
BY SelectInit, SelectStep, PTL DEF Spec

\* The types: P_SELECT is set only inside select (sys_generic.c, label done).
THEOREM SelectTypeOK == Spec => []TypeOK
<1>1. IInv => TypeOK BY DEF IInv
<1> QED BY <1>1, SelectInvariant, PTL

\* No process sleeps in select on a ready descriptor, nor on one whose next
\* event would not reach it (selrecord, selwakeup, the test before tsleep).
THEOREM SelectNoLostWakeup == Spec => []NoLostWakeup
<1>1. IInv => NoLostWakeup BY DEF IInv
<1> QED BY <1>1, SelectInvariant, PTL

\* The same holds during selscan unless select is going to look again.
THEOREM SelectScanIsCurrent == Spec => []ScanIsCurrent
<1>1. IInv => ScanIsCurrent BY DEF IInv
<1> QED BY <1>1, SelectInvariant, PTL
=============================================================================
