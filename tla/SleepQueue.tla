----------------------------- MODULE SleepQueue -----------------------------
(***************************************************************************)
(* Sleeping, waking, stopping and swapping of processes:                   *)
(*   kern_synch.c   tsleep, endtsleep, sleep, unsleep, wakeup, setrunnable *)
(*   kern_sig.c     psignal, issignal, stop, and postsig's two outcomes    *)
(*   vm/vm_glue.c   scheduler (the swapper, proc0) and swapout             *)
(*   vm/vm_meter.c  vmmeter; sys_generic.c selwakeup; i386 Xswitch, userret*)
(*                                                                         *)
(* One CPU, and no preemption inside the kernel: a process gives up the    *)
(* CPU only where the code calls mi_switch.  Interrupts (wakeup, psignal,  *)
(* endtsleep, vmmeter) come between any two steps except while the         *)
(* current process is at splhigh, which is Masked.  Code at splhigh is a   *)
(* state transformer on K = [proc, panicstr], so that a handler is one     *)
(* step with every call it makes.                                          *)
(*                                                                         *)
(* Left out: P_TRACED (ptrace returns ENOSYS in sys_process.c, so nothing  *)
(* sets it), priorities (see RunQueue), and the cold/panicstr early return.*)
(***************************************************************************)
EXTENDS Integers, FiniteSets

CONSTANTS Procs,     \* user processes
          Proc0,     \* the swapper; its own address is its wait channel
          None,      \* no process, channel or signal
          Chans,     \* wait channels other than process addresses
          Selwait,   \* the channel of select()
          Hash,      \* LOOKUP: channel -> hash chain of slpque
          Parent,    \* p_pptr, or None for a parent outside the model
          Sigs,      \* signal numbers
          Catch,     \* p_sigcatch of each process
          Hold,      \* p_sigmask of each process
          NoCldStop, \* processes with P_NOCLDSTOP: no SIGCHLD for a stop
          PPWait,    \* processes with P_PPWAIT (vfork children)
          Orphaned,  \* processes whose group has pg_jobc = 0
          Swappable  \* processes swapout_threads may pick

SIGKILL == 9
SIGSTOP == 17
SIGTSTP == 18
SIGCONT == 19
SIGCHLD == 20
SIGTTIN == 21
SIGTTOU == 22

AllProcs == Procs \cup {Proc0}
AllChans == Chans \cup {Selwait} \cup AllProcs

ASSUME SleepConstants ==
  /\ None \notin AllChans /\ None \notin Sigs /\ Proc0 \notin Procs
  /\ (Chans \cup {Selwait}) \cap AllProcs = {} /\ \A p \in Procs : Parent[p] # p
  /\ Sigs \subseteq 1..31
  /\ Parent \in [Procs -> Procs \cup {None}]
  /\ Catch \in [Procs -> SUBSET (Sigs \ {SIGKILL, SIGSTOP})]
  /\ Hold \in [Procs -> SUBSET (Sigs \ {SIGKILL, SIGSTOP})]
  /\ NoCldStop \subseteq Procs /\ PPWait \subseteq Procs
  /\ Orphaned \subseteq Procs /\ Swappable \subseteq Procs
  /\ DOMAIN Hash = AllChans

VARIABLES proc,     \* the process table
          curproc,  \* the running process; None when idle
          panicstr  \* "none" or the message of the panic

vars == <<proc, curproc, panicstr>>

\* sigprop: SA_TTYSTOP, SA_STOP (which is stopsigmask), and SA_IGNORE with SIGURG, SIGIO,
\* SIGWINCH and SIGINFO.
TtyStops   == {SIGTSTP, SIGTTIN, SIGTTOU}
StopSigs   == ({SIGSTOP} \cup TtyStops) \cap Sigs
IgnoreSigs == {16, SIGCONT, SIGCHLD, 23, 28, 29}

Ignored(p) == IgnoreSigs \ ({SIGCONT} \cup Catch[p])    \* p_sigignore

(***************************************************************************)
(* A process.  pc says where it is:                                        *)
(*   kern      in the kernel or in user mode, outside tsleep and issignal  *)
(*   issig     at the top of issignal's loop, called at place ctx          *)
(*   stopping  issignal has called stop() and not yet mi_switch            *)
(*   stopped   in the mi_switch of issignal                                *)
(*   slept     in the mi_switch of tsleep or sleep                         *)
(*   resume    in tsleep after its splx(s)                                 *)
(*   return    tsleep returns ret                                          *)
(*   preempted in the mi_switch of trap()                                  *)
(*   scan, gosleep, swapin, dead                                           *)
(* catch, timo, sig are tsleep's locals and taking is issignal's mask.     *)
(* pcatch, woken and expired are history: what this sleep asked for and    *)
(* what has happened to it.                                                *)
(***************************************************************************)
Fresh(pc) ==
  [stat |-> "SRUN", wchan |-> None, onslp |-> FALSE, onrun |-> TRUE, inmem |-> TRUE,
   sintr |-> FALSE, tmout |-> FALSE, callout |-> FALSE, siglist |-> {},
   pc |-> pc, ctx |-> "none", catch |-> FALSE, timo |-> FALSE, sig |-> None,
   taking |-> None, ret |-> "none", pcatch |-> FALSE, woken |-> FALSE, expired |-> FALSE]

Init == /\ proc = [p \in AllProcs |-> Fresh(IF p = Proc0 THEN "scan" ELSE "kern")]
        /\ curproc = None
        /\ panicstr = "none"

K == [proc |-> proc, panicstr |-> panicstr]

Commit(k) == proc' = k.proc /\ panicstr' = k.panicstr

Panic(k, msg) == [proc |-> k.proc, panicstr |-> msg]

\* k with q for the process p.
Put(k, p, q) == [proc |-> [k.proc EXCEPT ![p] = q], panicstr |-> k.panicstr]

\* The current process is inside tsleep, still at splhigh.
Masked == /\ curproc # None
          /\ proc[curproc].pc \in {"issig", "stopping"}
          /\ proc[curproc].ctx = "before"
          /\ proc[curproc].wchan # None

Up == panicstr = "none"
Interrupts == Up /\ ~Masked

-----------------------------------------------------------------------------
(* kern_synch.c *)

\* Mutant: p_wchan is cleared, the queue link stays.
unsleepStaysLinked(k, p) ==
  IF k.proc[p].wchan = None THEN k
  ELSE Put(k, p, [k.proc[p] EXCEPT !.wchan = None])

unsleep(k, p) ==
  IF k.proc[p].wchan = None THEN k
  ELSE Put(k, p, [k.proc[p] EXCEPT !.wchan = None, !.onslp = FALSE])

setrunqueue(k, p) ==
  IF k.proc[p].onrun THEN Panic(k, "setrunqueue")
  ELSE Put(k, p, [k.proc[p] EXCEPT !.onrun = TRUE])

remrq(k, p) ==
  IF ~k.proc[p].onrun THEN Panic(k, "remrq")
  ELSE Put(k, p, [k.proc[p] EXCEPT !.onrun = FALSE])

\* The processes on the hash chain that wakeup(c) walks.
Chain(k, c) == {p \in AllProcs : k.proc[p].onslp /\ Hash[k.proc[p].wchan] = Hash[c]}

\* Mutant: a process that is swapped out goes on the run queue too.
WakeOneSwapped(q, c) ==
  IF q.onslp /\ q.wchan = c
  THEN LET off == [q EXCEPT !.wchan = None, !.onslp = FALSE, !.woken = TRUE]
       IN IF q.stat = "SSLEEP" THEN [off EXCEPT !.stat = "SRUN", !.onrun = TRUE] ELSE off
  ELSE q

WakeOne(q, c) ==
  IF q.onslp /\ q.wchan = c
  THEN LET off == [q EXCEPT !.wchan = None, !.onslp = FALSE, !.woken = TRUE]
       IN IF q.stat = "SSLEEP"
          THEN [off EXCEPT !.stat = "SRUN", !.onrun = q.inmem]
          ELSE off
  ELSE q

WakeChain(k, c) ==
  IF \E p \in Chain(k, c) : k.proc[p].onrun \/ k.proc[p].stat \notin {"SSLEEP", "SSTOP"}
  THEN Panic(k, "wakeup")
  ELSE [proc |-> [p \in AllProcs |-> WakeOne(k.proc[p], c)], panicstr |-> k.panicstr]

\* A process made runnable while swapped out wakes the swapper.
wakeup(k, c) ==
  LET k1 == WakeChain(k, c)
  IN IF \E p \in AllProcs : /\ k.proc[p].stat = "SSLEEP" /\ k1.proc[p].stat = "SRUN"
                            /\ ~k1.proc[p].inmem
     THEN WakeChain(k1, Proc0) ELSE k1

\* Mutant: the process stays on its sleep queue.
setrunnableAsleep(k, p) ==
  IF k.proc[p].stat \notin {"SSLEEP", "SSTOP"} THEN Panic(k, "setrunnable")
  ELSE LET k1 == Put(k, p, [k.proc[p] EXCEPT !.stat = "SRUN"])
       IN IF k1.proc[p].inmem THEN setrunqueue(k1, p) ELSE wakeup(k1, Proc0)

setrunnable(k, p) ==
  IF k.proc[p].stat \notin {"SSLEEP", "SSTOP"} THEN Panic(k, "setrunnable")
  ELSE LET k0 == unsleep(k, p)
           k1 == Put(k0, p, [k0.proc[p] EXCEPT !.stat = "SRUN"])
       IN IF k1.proc[p].inmem THEN setrunqueue(k1, p) ELSE wakeup(k1, Proc0)

\* Mutant: the test of p_wchan is gone.
endtsleepAlways(k, p) ==
  LET k1 == IF k.proc[p].stat = "SSLEEP" THEN setrunnable(k, p) ELSE unsleep(k, p)
  IN Put(k1, p, [k1.proc[p] EXCEPT !.tmout = TRUE, !.expired = TRUE])

endtsleep(k, p) ==
  IF k.proc[p].wchan = None THEN k
  ELSE LET k1 == IF k.proc[p].stat = "SSLEEP" THEN setrunnable(k, p) ELSE unsleep(k, p)
       IN Put(k1, p, [k1.proc[p] EXCEPT !.tmout = TRUE, !.expired = TRUE])

selwakeup(k, p) ==
  IF k.proc[p].wchan # Selwait THEN k
  ELSE LET k1 == IF k.proc[p].stat = "SSLEEP" THEN setrunnable(k, p) ELSE unsleep(k, p)
       IN Put(k1, p, [k1.proc[p] EXCEPT !.woken = TRUE])

-----------------------------------------------------------------------------
(* kern_sig.c *)

action(p, s) == IF s \in Hold[p] THEN "HOLD" ELSE IF s \in Catch[p] THEN "CATCH" ELSE "DFL"

\* Mutant: sigmask(s) is 1 << s, the bit of the next signal.
PostSigShifted(k, p, s) ==
  Put(k, p, [k.proc[p] EXCEPT !.siglist =
     (IF s = SIGCONT THEN @ \ StopSigs ELSE IF s \in StopSigs THEN @ \ {SIGCONT} ELSE @)
     \cup {s + 1}])

\* psignal up to p_siglist |= mask.
PostSig(k, p, s) ==
  Put(k, p, [k.proc[p] EXCEPT !.siglist =
     (IF s = SIGCONT THEN @ \ StopSigs ELSE IF s \in StopSigs THEN @ \ {SIGCONT} ELSE @)
     \cup {s}])

DropSig(k, p, s) == Put(k, p, [k.proc[p] EXCEPT !.siglist = @ \ {s}])

\* psignal's switch on p_stat; stopped is the state after stopping p at once.
Deliver(k, p, s, stopped) ==
  LET q == k.proc[p]
      a == action(p, s)
  IN CASE q.stat = "SSLEEP" ->
            IF ~q.sintr THEN k
            ELSE IF s = SIGCONT /\ a = "DFL" THEN DropSig(k, p, s)
            ELSE IF s \in StopSigs /\ a = "DFL"
                 THEN IF p \in PPWait THEN k
                      ELSE stopped
            ELSE setrunnable(k, p)
       [] q.stat = "SSTOP" ->
            IF s = SIGKILL THEN setrunnable(k, p)
            ELSE IF s = SIGCONT
                 THEN LET k1 == IF a = "DFL" THEN DropSig(k, p, s) ELSE k
                      IN IF a = "CATCH" \/ q.wchan = None THEN setrunnable(k1, p)
                         ELSE Put(k1, p, [k1.proc[p] EXCEPT !.stat = "SSLEEP"])
            ELSE IF s \in StopSigs THEN DropSig(k, p, s)
            ELSE IF q.wchan # None /\ q.sintr THEN unsleep(k, p)
            ELSE k
       [] OTHER -> k

\* psignal, given the state it leaves when it stops a sleeping process.
Psignal1(k, p, s, stopped) ==
  IF \/ s \in Ignored(p)
     \/ (s \in TtyStops /\ p \in Orphaned /\ action(p, s) = "DFL")
  THEN k
  ELSE LET k1 == PostSig(k, p, s)
       IN IF action(p, s) = "HOLD" /\ (s # SIGCONT \/ k1.proc[p].stat # "SSTOP")
          THEN k1
          ELSE Deliver(k1, p, s, stopped)

\* psignal(p->p_pptr, SIGCHLD): SIGCHLD stops nobody.
Chld(k, p) == IF Parent[p] = None \/ SIGCHLD \notin Sigs THEN k
              ELSE IF k.proc[Parent[p]].stat = "SZOMB" THEN k
              ELSE Psignal1(k, Parent[p], SIGCHLD, k)

\* The SIGCHLD for a stopped child.
ChldStop(k, p) == IF Parent[p] \in NoCldStop THEN k ELSE Chld(k, p)

stop(k, p) ==
  LET k1 == Put(k, p, [k.proc[p] EXCEPT !.stat = "SSTOP"])
  IN IF Parent[p] = None THEN k1 ELSE wakeup(k1, Parent[p])

psignal(k, p, s) ==
  LET stopped == stop(ChldStop(DropSig(PostSig(k, p, s), p, s), p), p)
  IN Psignal1(k, p, s, stopped)

-----------------------------------------------------------------------------
(* The current process *)

Cur(p) == Up /\ curproc = p

\* p_siglist & ~p_sigmask: what CURSIG looks at.
Unblocked(p) == proc[p].siglist \ Hold[p]

\* p goes to sleep: the tail of tsleep and sleep, to the end of mi_switch.
SleepNow(k, p) == Put(k, p, [k.proc[p] EXCEPT !.stat = "SSLEEP", !.pc = "slept"])

\* Mutant: P_SINTR is set whether or not the sleep asked for it.
EnqueueSintr(k, p, c, catch, timo) ==
  Put(k, p, [k.proc[p] EXCEPT !.wchan = c, !.onslp = TRUE, !.catch = catch, !.pcatch = catch,
                              !.timo = timo, !.callout = timo, !.sintr = TRUE, !.sig = None,
                              !.woken = FALSE, !.expired = FALSE])

Enqueue(k, p, c, catch, timo) ==
  Put(k, p, [k.proc[p] EXCEPT !.wchan = c, !.onslp = TRUE, !.catch = catch, !.pcatch = catch,
                              !.timo = timo, !.callout = timo, !.sintr = catch, !.sig = None,
                              !.woken = FALSE, !.expired = FALSE])

\* tsleep(c, pri, wmesg, timo) up to CURSIG or to mi_switch.
Tsleep(p, c, catch, timo) ==
  /\ Cur(p) /\ proc[p].pc = "kern"
  /\ IF proc[p].stat # "SRUN" \/ proc[p].onrun
     THEN Commit(Panic(K, "tsleep")) /\ UNCHANGED curproc
     ELSE LET k == Enqueue(K, p, c, catch, timo)
          IN IF catch /\ Unblocked(p) # {}
             THEN /\ Commit(Put(k, p, [k.proc[p] EXCEPT !.pc = "issig", !.ctx = "before"]))
                  /\ UNCHANGED curproc
             ELSE Commit(SleepNow(k, p)) /\ curproc' = None

\* What issignal's caller does with its result s: tsleep before and after its mi_switch, and
\* the way back to user mode, where postsig takes the signal or exit1 is called.
IssignalReturns(k, p, s) ==
  LET q == k.proc[p] IN
  CASE q.ctx = "before" /\ s # None ->
         LET k1 == unsleep(k, p) IN
         /\ Commit(Put(k1, p, [k1.proc[p] EXCEPT !.stat = "SRUN", !.sig = s,
                                                 !.pc = "resume", !.ctx = "none"]))
         /\ UNCHANGED curproc
    [] q.ctx = "before" /\ s = None /\ q.wchan = None ->
         /\ Commit(Put(k, p, [q EXCEPT !.catch = FALSE, !.pc = "resume", !.ctx = "none"]))
         /\ UNCHANGED curproc
    [] q.ctx = "before" /\ s = None /\ q.wchan # None ->
         Commit(SleepNow(Put(k, p, [q EXCEPT !.ctx = "none"]), p)) /\ curproc' = None
    [] q.ctx = "after" ->
         /\ Commit(Put(k, p, [q EXCEPT !.pc = "return", !.ctx = "none",
                                       !.ret = IF s = None THEN "0" ELSE "EINTR"]))
         /\ UNCHANGED curproc
    [] q.ctx = "user" /\ s = None ->
         /\ Commit(Put(k, p, [q EXCEPT !.pc = "kern", !.ctx = "none"]))
         /\ UNCHANGED curproc
    [] q.ctx = "user" /\ s # None /\ s \in Catch[p] ->
         Commit(DropSig(k, p, s)) /\ UNCHANGED curproc
    [] q.ctx = "user" /\ s # None /\ s \notin Catch[p] ->
         LET k1 == DropSig(k, p, s)
             k2 == Put(k1, p, [k1.proc[p] EXCEPT !.stat = "SZOMB", !.pc = "dead", !.ctx = "none"])
             k3 == Chld(k2, p)
         IN /\ Commit(IF Parent[p] = None THEN k3 ELSE wakeup(k3, Parent[p]))
            /\ curproc' = None

\* One turn of issignal's loop.
Issignal(p) ==
  /\ Cur(p) /\ proc[p].pc = "issig"
  /\ LET mask == Unblocked(p) \ (IF p \in PPWait THEN StopSigs ELSE {})
     IN IF mask = {} THEN IssignalReturns(K, p, None)
        ELSE LET s == CHOOSE x \in mask : \A y \in mask : x <= y    \* ffs
             IN CASE s \in Catch[p] -> IssignalReturns(K, p, s)
                  [] s \notin Catch[p] /\ s \in StopSigs /\ ~(s \in TtyStops /\ p \in Orphaned) ->
                       /\ LET k == ChldStop(stop(K, p), p)
                          IN Commit(Put(k, p, [k.proc[p] EXCEPT !.pc = "stopping", !.taking = s]))
                       /\ UNCHANGED curproc
                  [] s \notin Catch[p] /\ (\/ s \in IgnoreSigs
                                           \/ (s \in TtyStops /\ p \in Orphaned)) ->
                       Commit(DropSig(K, p, s)) /\ UNCHANGED curproc
                  [] OTHER -> IssignalReturns(K, p, s)

\* The mi_switch of issignal.
StopSwitch(p) ==
  /\ Cur(p) /\ proc[p].pc = "stopping"
  /\ curproc' = None
  /\ proc' = [proc EXCEPT ![p] = [@ EXCEPT !.pc = "stopped"]]
  /\ UNCHANGED panicstr

\* Mutant: no untimeout(endtsleep, p).
ResumeArmed(q) == [q EXCEPT !.sintr = FALSE, !.tmout = FALSE]

\* What tsleep resets at label resume: P_SINTR, P_TIMEOUT, the callout.
ResumeResets(q) == [q EXCEPT !.sintr = FALSE, !.tmout = FALSE,
                             !.callout = IF q.tmout \/ ~q.timo THEN @ ELSE FALSE]

\* tsleep from label resume to its return, or to its second CURSIG.
Resume(p) ==
  /\ Cur(p) /\ proc[p].pc = "resume"
  /\ LET q  == proc[p]
         q1 == ResumeResets(q)
         returns(r) == Commit(Put(K, p, [q1 EXCEPT !.pc = "return", !.ret = r]))
     IN CASE q.tmout /\ q.sig = None -> returns("EWOULDBLOCK")
          [] q.catch /\ q.sig # None -> returns("EINTR")
          [] q.catch /\ q.sig = None /\ ~q.tmout /\ Unblocked(p) # {} ->
               Commit(Put(K, p, [q1 EXCEPT !.pc = "issig", !.ctx = "after"]))
          [] OTHER -> returns("0")
  /\ UNCHANGED curproc

\* The caller of tsleep goes on.
Return(p) ==
  /\ Cur(p) /\ proc[p].pc = "return"
  /\ proc' = [proc EXCEPT ![p] =
                [@ EXCEPT !.pc = "kern", !.ret = "none", !.sig = None, !.catch = FALSE,
                          !.pcatch = FALSE, !.timo = FALSE, !.woken = FALSE, !.expired = FALSE,
                          !.taking = None]]
  /\ UNCHANGED <<curproc, panicstr>>

\* The way back to user mode looks for signals (trap.c, while CURSIG postsig).
UserRet(p) ==
  /\ Cur(p) /\ proc[p].pc = "kern" /\ Unblocked(p) # {}
  /\ proc' = [proc EXCEPT ![p] = [@ EXCEPT !.pc = "issig", !.ctx = "user"]]
  /\ UNCHANGED <<curproc, panicstr>>

\* want_resched on the way back to user mode.
Preempt(p) ==
  /\ Cur(p) /\ proc[p].pc = "kern"
  /\ LET k == setrunqueue(K, p)
     IN Commit(Put(k, p, [k.proc[p] EXCEPT !.pc = "preempted"]))
  /\ curproc' = None

-----------------------------------------------------------------------------
(* proc0: scheduler(), which runs at spl0 *)

Swapin(p) == proc[p].stat = "SRUN" /\ ~proc[p].inmem

SchedScan ==
  /\ Cur(Proc0) /\ proc[Proc0].pc = "scan"
  /\ proc' = [proc EXCEPT ![Proc0] =
                [@ EXCEPT !.pc = IF \E p \in Procs : Swapin(p) THEN "swapin" ELSE "gosleep"]]
  /\ UNCHANGED <<curproc, panicstr>>

\* Nothing to do, back to sleep: tsleep(&proc0, PVM, "scheduler", 0).
SchedSleep ==
  /\ Cur(Proc0) /\ proc[Proc0].pc = "gosleep"
  /\ Commit(SleepNow(Enqueue(K, Proc0, Proc0, FALSE, FALSE), Proc0))
  /\ curproc' = None

SchedSwapin ==
  /\ Cur(Proc0) /\ proc[Proc0].pc = "swapin"
  /\ \E p \in Procs :
       /\ Swapin(p)
       /\ LET k  == setrunqueue(K, p)
              k1 == Put(k, p, [k.proc[p] EXCEPT !.inmem = TRUE])
          IN Commit(Put(k1, Proc0, [k1.proc[Proc0] EXCEPT !.pc = "scan"]))
  /\ UNCHANGED curproc

\* The pageout daemon, a process of its own, swaps p out.
Swapout(p) ==
  /\ Up /\ curproc = None
  /\ proc[p].inmem /\ proc[p].stat # "SZOMB"
  /\ LET k == IF proc[p].stat # "SRUN" THEN K ELSE remrq(K, p)
     IN Commit(Put(k, p, [k.proc[p] EXCEPT !.inmem = FALSE]))
  /\ UNCHANGED curproc

-----------------------------------------------------------------------------
(* cpu_switch picks a process of the run queue *)

\* What a process does first when it gets the CPU back from mi_switch; after
\* a stop issignal takes the signal off p_siglist.
Resumed(p, q) ==
  [q EXCEPT !.onrun = FALSE,
            !.siglist = IF q.pc = "stopped" THEN @ \ {q.taking} ELSE @,
            !.taking = None,
            !.pc = CASE q.pc = "slept" /\ p = Proc0 -> "scan"
                     [] q.pc = "slept" /\ p # Proc0 -> "resume"
                     [] q.pc = "stopped" -> "issig"
                     [] q.pc = "preempted" -> "kern"
                     [] OTHER -> q.pc]

Switch(p) ==
  /\ Up /\ curproc = None /\ proc[p].onrun
  /\ IF proc[p].wchan # None \/ proc[p].stat # "SRUN"
     THEN Commit(Panic(K, "Xswitch")) /\ UNCHANGED curproc
     ELSE /\ curproc' = p
          /\ proc' = [proc EXCEPT ![p] = Resumed(p, @)]
          /\ UNCHANGED panicstr

(* Interrupts, and calls made by the current process *)

Wakeup(c)     == Interrupts /\ Commit(wakeup(K, c)) /\ UNCHANGED curproc
Signal(p, s)  == /\ Interrupts /\ proc[p].stat # "SZOMB"
                 /\ Commit(psignal(K, p, s)) /\ UNCHANGED curproc
Endtsleep(p)  == /\ Interrupts /\ proc[p].callout
                 /\ Commit(endtsleep(Put(K, p, [proc[p] EXCEPT !.callout = FALSE]), p))
                 /\ UNCHANGED curproc
Selwakeup(p)  == Interrupts /\ Commit(selwakeup(K, p)) /\ UNCHANGED curproc

\* Mutant: vmmeter leaves the swapper alone.
VmmeterIdle   == Interrupts /\ proc[Proc0].stat = "SSLEEP" /\ UNCHANGED vars

\* vmmeter, once a second: wake a swapper that has slept for long.
Vmmeter       == /\ Interrupts /\ proc[Proc0].stat = "SSLEEP"
                 /\ Commit(wakeup(K, Proc0)) /\ UNCHANGED curproc

-----------------------------------------------------------------------------
ProcStep(p) == Issignal(p) \/ StopSwitch(p) \/ Resume(p) \/ Return(p)

SwapperStep == SchedScan \/ SchedSleep \/ SchedSwapin

Next ==
  \/ \E p \in Procs : \/ \E c \in Chans \cup {Selwait, p}, catch, timo \in BOOLEAN :
                             Tsleep(p, c, catch, timo)
                      \/ ProcStep(p) \/ UserRet(p) \/ Preempt(p)
  \/ SwapperStep
  \/ \E p \in Swappable : Swapout(p)
  \/ \E p \in AllProcs : Switch(p)
  \/ \E c \in Chans : Wakeup(c)
  \/ \E p \in Procs, s \in Sigs \ {SIGCHLD} : Signal(p, s)
  \/ \E p \in Procs : Endtsleep(p) \/ Selwakeup(p)
  \/ Vmmeter

Spec == Init /\ [][Next]_vars

(***************************************************************************)
(* Fairness.  The current process goes on and is preempted in the end      *)
(* (roundrobin sets want_resched); a process on the run queue is picked in *)
(* the end (its priority improves while it waits: schedcpu); vmmeter runs  *)
(* every second.  Nothing makes a wakeup, a signal or a swapout happen.    *)
(***************************************************************************)
Fairness == /\ \A p \in Procs : WF_vars(ProcStep(p)) /\ SF_vars(Preempt(p))
            /\ WF_vars(SwapperStep)
            /\ \A p \in AllProcs : SF_vars(Switch(p))
            /\ SF_vars(Vmmeter)

FairSpec == Spec /\ Fairness

-----------------------------------------------------------------------------
(* Properties *)

\* Every field of every process keeps its type.
TypeOK ==
  /\ panicstr \in {"none", "setrunqueue", "remrq", "wakeup", "setrunnable", "tsleep", "Xswitch"}
  /\ curproc \in AllProcs \cup {None}
  /\ \A p \in AllProcs : LET q == proc[p] IN
       /\ q.stat \in {"SRUN", "SSLEEP", "SSTOP", "SZOMB"}
       /\ q.wchan \in AllChans \cup {None}
       /\ {q.onslp, q.onrun, q.inmem, q.sintr, q.tmout, q.callout} \subseteq BOOLEAN
       /\ q.siglist \subseteq Sigs
       /\ q.pc \in {"kern", "issig", "stopping", "stopped", "slept", "resume", "return",
                    "preempted", "scan", "gosleep", "swapin", "dead"}

\* No DIAGNOSTIC or consistency panic of the scheduler can be reached: tsleep,
\* wakeup, setrunnable, setrunqueue, remrq and Xswitch always find the process
\* in a state they accept, whatever order wakeups, timeouts, signals, stops
\* and swaps come in.
NoPanic == panicstr = "none"

\* p_forw links either a sleep queue or a run queue, never both: a process is
\* on its sleep queue exactly while p_wchan is set, and on the run queue
\* exactly while it is runnable, in memory and not running.
QueueDiscipline ==
  \A p \in AllProcs : LET q == proc[p] IN
    /\ q.onslp <=> q.wchan # None
    /\ ~(q.onslp /\ q.onrun)
    /\ q.stat = "SSLEEP" => q.onslp
    /\ q.onrun <=> (q.stat = "SRUN" /\ q.inmem /\ p # curproc)
       \/ (p = curproc /\ q.pc = "stopping" /\ q.onrun)

\* The armed endtsleep callout and P_TIMEOUT belong to the sleep in progress:
\* a later sleep can never be ended by the timeout of an earlier one.
TimeoutOfThisSleep ==
  \A p \in Procs : LET q == proc[p] IN
    /\ q.callout => q.timo /\ q.pc \notin {"kern", "return", "preempted", "dead"}
    /\ q.tmout => q.timo /\ q.expired /\ q.wchan = None

\* tsleep tells the truth: EWOULDBLOCK only when this sleep's timeout expired
\* before any wakeup, EINTR only for a sleep with PCATCH, and without PCATCH
\* 0 only after a wakeup of the channel.
ReturnValueIsTrue ==
  \A p \in Procs : LET q == proc[p] IN
    q.pc = "return" =>
      /\ q.ret = "EWOULDBLOCK" => q.expired /\ ~q.woken
      /\ q.ret = "EINTR" => q.pcatch
      /\ q.ret = "0" /\ ~q.pcatch => q.woken

\* A process that sleeps without PCATCH is never stopped or interrupted by a
\* signal, and a stopped process is never on the run queue.
UninterruptibleNeverStopped ==
  \A p \in Procs : LET q == proc[p] IN
    q.stat = "SSTOP" => /\ q.wchan # None => q.pcatch
                        /\ ~q.onrun
                        /\ q.pc \in {"slept", "stopping", "stopped"}

\* The comment of tsleep: "Returns 0 if awakened".
ReturnsZeroIfAwakened ==
  \A p \in Procs : proc[p].pc = "return" /\ proc[p].ret = "0" => proc[p].woken

\* Every runnable process runs in the end, swapped out or not: the swapper may
\* miss a wakeup between its scan and its sleep, but not for ever.
RunnableRuns ==
  \A p \in Procs : proc[p].stat = "SRUN" ~> (curproc = p \/ panicstr # "none")
=============================================================================
