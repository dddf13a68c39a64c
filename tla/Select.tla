------------------------------- MODULE Select -------------------------------
(***************************************************************************)
(* select(2): select, selscan, selrecord and selwakeup of                  *)
(* kern/sys_generic.c, with soo_select (sys_socket.c) and sowakeup         *)
(* (uipc_socket2.c) as the objects waited for.                             *)
(*                                                                         *)
(* A selinfo remembers one process.  A second one sets SI_COLL, and the    *)
(* event then wakes every process in select.  The event may come at any    *)
(* time between two steps of selscan, from an interrupt: P_SELECT and      *)
(* nselcoll tell select that it has to look again.                         *)
(*                                                                         *)
(* One CPU, no preemption in the kernel: while a process is in select and  *)
(* awake, only interrupts come in between.  soo_select runs at splnet and  *)
(* the test before tsleep at splhigh, so each is one step.  nselcoll is    *)
(* kept as the set moved of processes whose ncoll it differs from.  The    *)
(* errors of copyin and itimerfix come before all of this and change       *)
(* nothing.                                                                *)
(***************************************************************************)
EXTENDS Integers, FiniteSets

CONSTANTS Procs, Objs,
          None,       \* si_pid = 0
          NotOpen     \* a descriptor that is not open

ASSUME SelectConstants == None \notin Procs /\ NotOpen \notin Objs

VARIABLES ready,     \* the objects with something to read
          si_pid,    \* si_pid of each object's selinfo
          si_coll,   \* the objects with SI_COLL
          p_select,  \* the processes with P_SELECT
          moved,     \* the processes with nselcoll # ncoll
          pc,        \* where a process is, see Pcs
          interest,  \* ibits: the descriptors a process asks for
          todo,      \* those selscan has not come to
          found,     \* obits
          left       \* the time left to atv, see Lefts

\* woken and ended: tsleep returns 0 or an error.
Pcs == {"user", "scan", "check", "asleep", "woken", "ended", "gone"}

\* none: no timeout was given; near: less than a clock tick.
Lefts == {"none", "far", "near", "past"}

objs == <<ready, si_pid, si_coll>>
call == <<interest, todo, found, left>>
vars == <<objs, p_select, moved, pc, call>>

Init == /\ ready = {} /\ si_coll = {}
        /\ si_pid = [o \in Objs |-> None]
        /\ p_select = {} /\ moved = {}
        /\ pc = [p \in Procs |-> "user"]
        /\ interest = [p \in Procs |-> {}]
        /\ todo = [p \in Procs |-> {}]
        /\ found = [p \in Procs |-> {}]
        /\ left = [p \in Procs |-> "none"]

InKernel == {q \in Procs : pc[q] \in {"scan", "check"}}

\* The CPU is free for p: nobody else is in the kernel.
MayRun(p) == InKernel \subseteq {p}

-----------------------------------------------------------------------------
\* retry: ncoll = nselcoll, P_SELECT is set and selscan starts.
Begin(p, S) == /\ pc' = [pc EXCEPT ![p] = "scan"]
               /\ todo' = [todo EXCEPT ![p] = S]
               /\ p_select' = p_select \cup {p}
               /\ moved' = moved \ {p}
               /\ UNCHANGED found

\* Mutant: select returns without clearing P_SELECT.
FinishFlagged(p) == /\ pc' = [pc EXCEPT ![p] = "user"]
                    /\ interest' = [interest EXCEPT ![p] = {}]
                    /\ todo' = [todo EXCEPT ![p] = {}]
                    /\ found' = [found EXCEPT ![p] = {}]
                    /\ left' = [left EXCEPT ![p] = "none"]
                    /\ moved' = moved \ {p}
                    /\ UNCHANGED p_select

\* done: P_SELECT is cleared, and select's locals are no more.
Finish(p) == /\ pc' = [pc EXCEPT ![p] = "user"]
             /\ p_select' = p_select \ {p}
             /\ interest' = [interest EXCEPT ![p] = {}]
             /\ todo' = [todo EXCEPT ![p] = {}]
             /\ found' = [found EXCEPT ![p] = {}]
             /\ left' = [left EXCEPT ![p] = "none"]
             /\ moved' = moved \ {p}

Select(p, S, t) ==
  /\ pc[p] = "user" /\ MayRun(p)
  /\ Begin(p, S)
  /\ interest' = [interest EXCEPT ![p] = S]
  /\ left' = [left EXCEPT ![p] = t]
  /\ UNCHANGED objs

\* Mutant: a second selector of o replaces the first.
selrecordLast(p, o) == /\ si_pid' = [si_pid EXCEPT ![o] = p]
                       /\ UNCHANGED si_coll

\* selrecord: the first selector is remembered, unless it is gone or no longer
\* asleep in select; another one is a collision.
selrecord(p, o) ==
  LET other == si_pid[o] IN
  IF other = p THEN UNCHANGED <<si_pid, si_coll>>
  ELSE IF other # None /\ other \in {q \in Procs : pc[q] = "asleep"}
       THEN si_coll' = si_coll \cup {o} /\ UNCHANGED si_pid
  ELSE si_pid' = [si_pid EXCEPT ![o] = p] /\ UNCHANGED si_coll

\* selscan comes to descriptor o: soo_select.
ScanOne(p, o) ==
  /\ pc[p] = "scan" /\ o \in todo[p]
  /\ todo' = [todo EXCEPT ![p] = @ \ {o}]
  /\ IF o \in ready
     THEN found' = [found EXCEPT ![p] = @ \cup {o}] /\ UNCHANGED <<si_pid, si_coll>>
     ELSE selrecord(p, o) /\ UNCHANGED found
  /\ UNCHANGED <<ready, p_select, moved, pc, interest, left>>

\* selscan comes to a descriptor that is not open: EBADF.
ScanBad(p) ==
  /\ pc[p] = "scan" /\ NotOpen \in todo[p]
  /\ Finish(p)
  /\ UNCHANGED objs

\* selscan returns: with a count, select is done.
ScanEnd(p) ==
  /\ pc[p] = "scan" /\ todo[p] = {}
  /\ IF found[p] # {} THEN Finish(p)
     ELSE pc' = [pc EXCEPT ![p] = "check"] /\ UNCHANGED <<p_select, moved, call>>
  /\ UNCHANGED objs

\* Something happened during the scan.
MustRetry(p) == p \notin p_select \/ p \in moved

\* At splhigh: give up, look again, or sleep.
GiveUp(p) ==
  /\ pc[p] = "check" /\ left[p] = "past"
  /\ Finish(p)
  /\ UNCHANGED objs

LookAgain(p) ==
  /\ pc[p] = "check" /\ left[p] # "past" /\ MustRetry(p)
  /\ Begin(p, interest[p])
  /\ UNCHANGED <<objs, interest, left>>

Sleep(p) ==
  /\ pc[p] = "check" /\ left[p] # "past" /\ ~MustRetry(p)
  /\ pc' = [pc EXCEPT ![p] = "asleep"]
  /\ p_select' = p_select \ {p}
  /\ UNCHANGED <<objs, moved, call>>

\* tsleep returns: 0 is a retry, EWOULDBLOCK, EINTR and ERESTART end select.
Resume(p) ==
  /\ pc[p] \in {"woken", "ended"} /\ MayRun(p)
  /\ IF pc[p] = "woken" THEN Begin(p, interest[p]) /\ UNCHANGED <<interest, left>>
     ELSE Finish(p)
  /\ UNCHANGED objs

-----------------------------------------------------------------------------
(* Interrupts *)

\* Mutant: a collision is not counted.
CollisionUncounted(o) == moved' = moved

\* nselcoll++ if o has had a collision.
CountCollision(o) == moved' = IF o \in si_coll THEN InKernel ELSE moved

\* Mutant: only the process in si_pid is woken.
WokenFirst(o) == {p \in Procs : pc[p] = "asleep" /\ p = si_pid[o]}

\* selwakeup: the sleepers taken off selwait.
Woken(o) ==
  IF si_pid[o] = None THEN {}
  ELSE {p \in Procs : pc[p] = "asleep" /\ (o \in si_coll \/ p = si_pid[o])}

selwakeup(o) ==
  /\ pc' = [p \in Procs |-> IF p \in Woken(o) THEN "woken" ELSE pc[p]]
  /\ IF si_pid[o] = None THEN UNCHANGED <<si_pid, si_coll, p_select, moved>>
     ELSE /\ CountCollision(o)
          /\ si_coll' = si_coll \ {o}
          /\ si_pid' = [si_pid EXCEPT ![o] = None]
          /\ p_select' = IF pc[si_pid[o]] # "gone" /\ si_pid[o] \notin Woken(o)
                         THEN p_select \ {si_pid[o]} ELSE p_select

\* Data arrives on o and sowakeup is called.
Arrive(o) ==
  /\ ready' = ready \cup {o}
  /\ selwakeup(o)
  /\ UNCHANGED call

\* hzto in clock ticks: it rounds down (far is one tick or more).
hzto(l) == IF l = "far" THEN 1 ELSE 0

\* Mutant: what hzto returns is used as it is.
TimoUnrounded(l) == IF l = "none" THEN 0 ELSE hzto(l)

\* The timeout handed to tsleep; 0 is none.
Timo(l) == IF l = "none" THEN 0 ELSE IF hzto(l) = 0 THEN 1 ELSE hzto(l)

\* tsleep's timeout ends the sleep.
TimerFires(p) ==
  /\ pc[p] = "asleep" /\ Timo(left[p]) # 0
  /\ pc' = [pc EXCEPT ![p] = "ended"]
  /\ UNCHANGED <<objs, p_select, moved, call>>

\* A signal does.
Signal(p) ==
  /\ pc[p] = "asleep"
  /\ pc' = [pc EXCEPT ![p] = "ended"]
  /\ UNCHANGED <<objs, p_select, moved, call>>

\* Time passes while p is awake (left of a sleeper is what it was at tsleep).
TimePasses(p) ==
  /\ pc[p] \in {"scan", "check", "woken"} /\ left[p] \in {"far", "near"}
  /\ left' = [left EXCEPT ![p] = IF @ = "far" THEN "near" ELSE "past"]
  /\ UNCHANGED <<objs, p_select, moved, pc, interest, todo, found>>

(* Other system calls *)

\* p reads all there is on o.
Consume(p, o) ==
  /\ pc[p] = "user" /\ MayRun(p) /\ o \in ready
  /\ ready' = ready \ {o}
  /\ UNCHANGED <<si_pid, si_coll, p_select, moved, pc, call>>

\* p exits; its process id may be used again.
Exit(p) == /\ pc[p] = "user" /\ MayRun(p)
           /\ pc' = [pc EXCEPT ![p] = "gone"]
           /\ UNCHANGED <<objs, p_select, moved, call>>

Fork(p) == /\ pc[p] = "gone" /\ MayRun(p)
           /\ pc' = [pc EXCEPT ![p] = "user"]
           /\ UNCHANGED <<objs, p_select, moved, call>>

-----------------------------------------------------------------------------
Descriptors == Objs \cup {NotOpen}

InSelect(p) == \/ \E o \in Objs : ScanOne(p, o)
               \/ ScanBad(p) \/ ScanEnd(p) \/ GiveUp(p) \/ LookAgain(p) \/ Sleep(p)

Next == \/ \E p \in Procs : \/ \E S \in SUBSET Descriptors, t \in Lefts : Select(p, S, t)
                            \/ InSelect(p) \/ Resume(p)
                            \/ TimerFires(p) \/ Signal(p) \/ TimePasses(p)
                            \/ Exit(p) \/ Fork(p)
                            \/ \E o \in Objs : Consume(p, o)
        \/ \E o \in Objs : Arrive(o)

Spec == Init /\ [][Next]_vars

\* A process in the kernel goes on, one that is runnable gets the CPU, and the
\* clock goes on.
FairSpec == Spec /\ \A p \in Procs : /\ WF_vars(InSelect(p)) /\ SF_vars(Resume(p))
                                     /\ WF_vars(TimerFires(p)) /\ SF_vars(TimePasses(p))

-----------------------------------------------------------------------------
(* Properties *)

\* The variables keep their types; P_SELECT is set and ncoll compared only
\* inside select, by a process that is awake.
TypeOK == /\ ready \subseteq Objs /\ si_coll \subseteq Objs
          /\ si_pid \in [Objs -> Procs \cup {None}]
          /\ pc \in [Procs -> Pcs]
          /\ p_select \subseteq InKernel /\ moved \subseteq InKernel
          /\ interest \in [Procs -> SUBSET Descriptors]
          /\ todo \in [Procs -> SUBSET Descriptors]
          /\ found \in [Procs -> SUBSET Objs]
          /\ left \in [Procs -> Lefts]

\* An event on o reaches p: through si_pid or as a collision.
Registered(p, o) == si_pid[o] = p \/ (o \in si_coll /\ si_pid[o] # None)

\* No lost wakeup: a process asleep in select has nothing to read on any
\* descriptor it asked for, and the next event will reach it, whichever
\* processes share the descriptors, time out, are signalled or exit.
NoLostWakeup ==
  \A p \in Procs : pc[p] = "asleep" =>
     \A o \in interest[p] : o \in Objs \ ready /\ Registered(p, o)

\* The same during the scan: unless select already knows that it must look
\* again, what it has passed is not ready and will reach it.
ScanIsCurrent ==
  \A p \in InKernel : ~MustRetry(p) =>
     \A o \in interest[p] \ (todo[p] \cup found[p]) : o \in Objs \ ready /\ Registered(p, o)

\* What makes the two inductive: one process at a time is in the kernel, and
\* when the scan is over nothing is left to scan and nothing was found.
Inductive == /\ \A p, q \in InKernel : p = q
             /\ \A p \in Procs : pc[p] = "check" => todo[p] = {} /\ found[p] = {}

IInv == TypeOK /\ NoLostWakeup /\ ScanIsCurrent /\ Inductive

\* A process does not stay in select while a descriptor it asked for stays
\* ready, however many processes collide on it.
SelectReturns ==
  \A p \in Procs, o \in Objs : []<>~(o \in ready /\ o \in interest[p])

\* A select with a timeout returns, also if less than a tick is left when it
\* goes to sleep and hzto is 0 (which tsleep takes for no timeout at all).
TimedSelectReturns ==
  \A p \in Procs : left[p] # "none" ~> left[p] = "none"
=============================================================================
