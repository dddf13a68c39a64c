------------------------------ MODULE RunQueue ------------------------------
(***************************************************************************)
(* The run queues of kern/i386/locore.s (setrunqueue, remrq, Xswitch and   *)
(* its idle loop) and their users: wakeups from interrupts, schedcpu's     *)
(* change of priority, and the process that gives up the CPU.              *)
(*                                                                         *)
(* Xswitch loads whichqs into a register, disables interrupts, takes the   *)
(* first process of the best queue and stores the register back.  Called   *)
(* at splhigh nothing comes in between; from the idle loop, and from       *)
(* issignal on the way to user mode, it runs at spl0.  Window says whether *)
(* an interrupt is delivered between the load and the cli.                 *)
(***************************************************************************)
EXTENDS Integers, Sequences, FiniteSets, TailQ

CONSTANTS Procs, None,
          NQS,      \* number of run queues (32 in the kernel)
          PPQ,      \* priorities per queue (4 in the kernel)
          PUSER,    \* the best priority of a process in user mode
          Window    \* interrupts arrive between Xswitch's load and cli

ASSUME RunQueueConstants == /\ NQS \in Nat \ {0} /\ PPQ \in Nat \ {0}
                            /\ None \notin Procs /\ Window \in BOOLEAN
                            /\ PUSER \in 0..(NQS * PPQ - 1)

Queues == 0..(NQS - 1)
Prios  == 0..(NQS * PPQ - 1)
UserPrios == {n \in Prios : n >= PUSER}    \* the values of p_usrpri

VARIABLES qs,        \* qs[i], the processes linked on queue i
          whichqs,   \* the queues whose bit is set
          p_back,    \* the processes with a non-null p_back
          priority,  \* p_priority
          stat,      \* p_stat: "SRUN", or "SSLEEP" for SSLEEP and SSTOP
          curproc,
          pc,        \* "run", "idle", "load" (sw1) or "pick" (after the load)
          spl0,      \* Xswitch runs with interrupts enabled
          edi,       \* the register copy of whichqs
          panicstr   \* the message, "none" while it is null

vars == <<qs, whichqs, p_back, priority, stat, curproc, pc, spl0, edi, panicstr>>

\* Mutant: the priority itself is the queue number.
QueueOfUnshifted(n) == n

\* The queue of priority n: shrb $2.
QueueOf(n) == n \div PPQ

Init == /\ qs = [i \in Queues |-> <<>>]
        /\ whichqs = {}
        /\ p_back = {}
        /\ priority \in [Procs -> Prios]
        /\ curproc \in Procs
        /\ stat = [p \in Procs |-> IF p = curproc THEN "SRUN" ELSE "SSLEEP"]
        /\ pc = "run" /\ spl0 = FALSE /\ edi = {}
        /\ panicstr = "none"

\* The three variables that setrunqueue and remrq change.
Q == [qs |-> qs, whichqs |-> whichqs, p_back |-> p_back, panicstr |-> panicstr]

Commit(q) == /\ qs' = q.qs /\ whichqs' = q.whichqs
             /\ p_back' = q.p_back /\ panicstr' = q.panicstr

setrunqueue(q, p, n) ==
  IF p \in q.p_back THEN [q EXCEPT !.panicstr = "setrunqueue"]
  ELSE [qs       |-> [q.qs EXCEPT ![QueueOf(n)] = TAILQ_INSERT_TAIL(@, p)],
        whichqs  |-> q.whichqs \cup {QueueOf(n)},
        p_back   |-> q.p_back \cup {p},
        panicstr |-> q.panicstr]

\* p is unlinked wherever it is.
Unlinked(q, p) == [j \in Queues |-> TAILQ_REMOVE(q[j], p)]

\* Mutant: the bit of an emptied queue stays set.
remrqKeepsBit(q, p) ==
  IF QueueOf(priority[p]) \notin q.whichqs THEN [q EXCEPT !.panicstr = "remrq"]
  ELSE [q EXCEPT !.qs = Unlinked(@, p), !.p_back = @ \ {p}]

\* The queue's bit is tested and cleared by the process's priority.
remrq(q, p) ==
  LET i == QueueOf(priority[p])
  IN IF i \notin q.whichqs THEN [q EXCEPT !.panicstr = "remrq"]
     ELSE [qs       |-> Unlinked(q.qs, p),
           whichqs  |-> IF Unlinked(q.qs, p)[i] = <<>> THEN q.whichqs \ {i} ELSE q.whichqs,
           p_back   |-> q.p_back \ {p},
           panicstr |-> q.panicstr]

Up == panicstr = "none"

\* Interrupts are delivered in the running process, in the idle loop, and in
\* Xswitch at spl0 before its cli.
Interrupts == /\ Up
              /\ \/ pc \in {"run", "idle"}
                 \/ pc = "load" /\ spl0
                 \/ pc = "pick" /\ spl0 /\ Window

-----------------------------------------------------------------------------
\* wakeup of a sleeping process, by an interrupt handler or the running
\* process; a signal (fast) first improves its priority to PUSER.
Wakeup(p, fast) ==
  /\ Interrupts /\ stat[p] = "SSLEEP"
  /\ stat' = [stat EXCEPT ![p] = "SRUN"]
  /\ priority' = IF fast /\ priority[p] > PUSER THEN [priority EXCEPT ![p] = PUSER] ELSE priority
  /\ Commit(setrunqueue(Q, p, priority'[p]))
  /\ UNCHANGED <<curproc, pc, spl0, edi>>

\* Mutant: the new priority is stored without moving the process.
SchedcpuNoMove(p, n) ==
  /\ Interrupts /\ priority[p] >= PUSER /\ n # priority[p]
  /\ priority' = [priority EXCEPT ![p] = n]
  /\ UNCHANGED <<qs, whichqs, p_back, stat, curproc, pc, spl0, edi, panicstr>>

\* schedcpu gives p a new priority n: the running process keeps off the
\* queues, a queued one moves when its queue changes.
Schedcpu(p, n) ==
  /\ Interrupts /\ priority[p] >= PUSER /\ n # priority[p]
  /\ priority' = [priority EXCEPT ![p] = n]
  /\ IF p # curproc /\ stat[p] = "SRUN" /\ QueueOf(n) # QueueOf(priority[p])
     THEN LET q == remrq(Q, p)
          IN Commit(IF q.panicstr = "none" THEN setrunqueue(q, p, n) ELSE q)
     ELSE UNCHANGED <<qs, whichqs, p_back, panicstr>>
  /\ UNCHANGED <<stat, curproc, pc, spl0, edi>>

\* The running process sleeps with priority n: tsleep, at splhigh.
Sleep(p, n) ==
  /\ Up /\ pc = "run" /\ curproc = p
  /\ stat' = [stat EXCEPT ![p] = "SSLEEP"]
  /\ priority' = [priority EXCEPT ![p] = n]
  /\ curproc' = None /\ pc' = "load" /\ spl0' = FALSE
  /\ UNCHANGED <<qs, whichqs, p_back, edi, panicstr>>

\* It stops in issignal, at spl0.
Stop(p) ==
  /\ Up /\ pc = "run" /\ curproc = p
  /\ stat' = [stat EXCEPT ![p] = "SSLEEP"]
  /\ curproc' = None /\ pc' = "load" /\ spl0' = TRUE
  /\ UNCHANGED <<qs, whichqs, p_back, priority, edi, panicstr>>

\* trap() gives the process its user priority n, puts it back on its queue at
\* splclock and switches.
Preempt(p, n) ==
  /\ Up /\ pc = "run" /\ curproc = p
  /\ priority' = [priority EXCEPT ![p] = n]
  /\ Commit(setrunqueue(Q, p, n))
  /\ curproc' = None /\ pc' = "load" /\ spl0' = FALSE
  /\ UNCHANGED <<stat, edi>>

-----------------------------------------------------------------------------
(* Xswitch *)

\* sw1: movl _whichqs,%edi
Load == /\ Up /\ pc = "load"
        /\ edi' = whichqs /\ pc' = "pick"
        /\ UNCHANGED <<qs, whichqs, p_back, priority, stat, curproc, spl0, panicstr>>

\* cli; no bit set: to the idle loop
PickNone == /\ Up /\ pc = "pick" /\ edi = {}
            /\ pc' = "idle" /\ spl0' = TRUE
            /\ UNCHANGED <<qs, whichqs, p_back, priority, stat, curproc, edi, panicstr>>

\* Mutant: the bit of queue i stays set when its last process is taken.
StoredBackSet(i) == edi

\* The register as Xswitch stores it back to whichqs.
StoredBack(i) == IF Tail(qs[i]) = <<>> THEN edi \ {i} ELSE edi

\* cli; the head of the best queue whose bit is set in the register
Pick ==
  /\ Up /\ pc = "pick" /\ edi # {}
  /\ LET i == CHOOSE x \in edi : \A y \in edi : x <= y      \* bsfl
     IN IF qs[i] = <<>>
        THEN panicstr' = "Xswitch"
             /\ UNCHANGED <<qs, whichqs, p_back, curproc, pc, spl0, edi>>
        ELSE LET p == Head(qs[i]) IN
             /\ qs' = [qs EXCEPT ![i] = Tail(@)]
             /\ edi' = {}
             /\ whichqs' = StoredBack(i)
             /\ p_back' = p_back \ {p}
             /\ panicstr' = IF stat[p] # "SRUN" THEN "Xswitch" ELSE "none"
             /\ curproc' = p /\ pc' = "run" /\ spl0' = FALSE
  /\ UNCHANGED <<priority, stat>>

\* Mutant: the idle loop tests the register instead of whichqs.
IdleStale == /\ Up /\ pc = "idle"
             /\ pc' = IF edi # {} THEN "load" ELSE "idle"
             /\ UNCHANGED <<qs, whichqs, p_back, priority, stat, curproc, spl0, edi, panicstr>>

\* idle: spl0, then back to sw1 as soon as some bit is set
Idle == /\ Up /\ pc = "idle" /\ whichqs # {}
        /\ pc' = "load"
        /\ UNCHANGED <<qs, whichqs, p_back, priority, stat, curproc, spl0, edi, panicstr>>

Xswitch == Load \/ PickNone \/ Pick \/ Idle

Next == \/ \E p \in Procs : \/ \E fast \in BOOLEAN : Wakeup(p, fast)
                            \/ \E n \in UserPrios : Schedcpu(p, n) \/ Preempt(p, n)
                            \/ \E n \in Prios : Sleep(p, n)
                            \/ Stop(p)
        \/ Xswitch

Spec == Init /\ [][Next]_vars

\* The CPU executes Xswitch; the idle loop's hlt ends with the next interrupt.
FairSpec == Spec /\ WF_vars(Xswitch)

-----------------------------------------------------------------------------
(* Properties *)

\* The variables keep their types.
TypeOK == /\ qs \in [Queues -> Seq(Procs)]
          /\ whichqs \subseteq Queues /\ edi \subseteq Queues
          /\ p_back \subseteq Procs
          /\ priority \in [Procs -> Prios]
          /\ stat \in [Procs -> {"SRUN", "SSLEEP"}]
          /\ curproc \in Procs \cup {None}
          /\ pc \in {"run", "idle", "load", "pick"} /\ spl0 \in BOOLEAN
          /\ panicstr \in {"none", "setrunqueue", "remrq", "Xswitch"}

\* "_whichqs tells which of the 32 queues _qs have processes in them."
WhichqsTells == \A i \in Queues : i \in whichqs <=> qs[i] # <<>>

\* Every runnable process but the running one is on exactly one queue, once,
\* the queue its priority says; nobody else is on a queue.
OnItsQueue ==
  panicstr = "none" =>
  \A i \in Queues :
    /\ \A j, k \in DOMAIN qs[i] : qs[i][j] = qs[i][k] => j = k
    /\ ToSet(qs[i]) = {p \in Procs : stat[p] = "SRUN" /\ p # curproc /\ i = QueueOf(priority[p])}

\* Neither setrunqueue nor remrq nor Xswitch ever panics.
NoPanic == panicstr = "none"

\* The CPU does not stay idle while a process is runnable.
NotIdleForEver == (\E p \in Procs : stat[p] = "SRUN") ~> (curproc # None \/ panicstr # "none")
=============================================================================
