----------------------------- MODULE ProcTable -----------------------------
(***************************************************************************)
(* The life of a process: fork1 (kern_fork.c), exit1 and wait1             *)
(* (kern_exit.c), process ids, process groups, sessions and the job        *)
(* control counts (kern_proc.c), setuid, setsid and setpgid (kern_prot.c). *)
(*                                                                         *)
(* One CPU and no preemption in the kernel: an action is what a process    *)
(* does between two places where it may sleep.  Those are fork1's MALLOC   *)
(* of the new process and vm_fork, vfork's wait, exit1's fdfree and        *)
(* vm_map_remove, wait1's tsleep and its vrele.  The search for a pid      *)
(* does not sleep; it is cut into steps because it is a loop, and nothing  *)
(* else moves while scan is not NoScan.                                    *)
(*                                                                         *)
(* Not here: MALLOC does not sleep in enterpgrp, in chgproccnt and for     *)
(* the child's p_cred and descriptors; accounting is off (acct_process     *)
(* would sleep in exit1); ptrace and execve, which return ENOSYS in this   *)
(* kernel, so that P_TRACED, p_oppid and P_EXEC are never set; stopped     *)
(* children and orphanpg's signals, which are SleepQueue's; controlling    *)
(* terminals (exit1's ttywait is one more sleep where Exit has ended).     *)
(***************************************************************************)
EXTENDS Integers, FiniteSets

CONSTANTS Procs,        \* memory for struct proc
          initproc,
          Sessions,     \* memory for struct session
          None,
          PidLow,       \* where process ids start again: 100
          PID_MAX,
          maxproc

\* proc0 and the pageout daemon (pids 0 and 2) are always there.
KernelProcs == 2

ASSUME ProcConstants ==
  /\ initproc \in Procs /\ None \notin Procs \cup Sessions /\ IsFiniteSet(Procs)
  /\ Sessions # {}
  /\ PidLow \in Nat /\ PID_MAX \in Nat /\ 2 < PidLow /\ PidLow < PID_MAX
  /\ maxproc \in Nat

VARIABLES stat, pid, pptr, pgid, ppwait,  \* struct proc; pgid is p_pgrp->pg_id
          pc,         \* where the process is, see Pcs
          arg,        \* the child of a fork, wait1's pid, or the zombie it frees
          pg_session, pg_jobc,        \* struct pgrp, by pg_id
          s_leader, s_count,          \* struct session
          nextpid, pidchecked,        \* fork1's static variables
          nprocs,
          scan        \* the search for a pid: who, the rest of the list, doingzomb

entry == <<stat, pid, pptr, ppwait>>
at    == <<pc, arg>>
group == <<pgid, pg_session, pg_jobc, s_leader, s_count>>
pids  == <<nextpid, pidchecked, scan>>
vars  == <<entry, at, group, nprocs, pids>>

Stats == {"free", "SIDL", "SRUN", "SZOMB"}
Pcs   == {"user", "forkmem", "vmfork", "ppwait", "pptest",
          "exit", "waitloop", "wait", "reap", "none"}

Pids == 1 .. PID_MAX - 1
WAIT_ANY == -1
NoScan == [by |-> None, todo |-> {}, doingzomb |-> TRUE]

allproc   == {p \in Procs : stat[p] \in {"SIDL", "SRUN"}}
zombproc  == {p \in Procs : stat[p] = "SZOMB"}
children(p) == {q \in allproc \cup zombproc : pptr[q] = p}
members(g)  == {q \in allproc \cup zombproc : pgid[q] = g}
session(p)  == pg_session[pgid[p]]
SESS_LEADER(p) == s_leader[session(p)] = p

\* init, in a session of its own as its program makes it; nextpid is the pid of
\* the pageout daemon.  What is not in use is 0, None or FALSE throughout.
Init ==
  /\ stat = [p \in Procs |-> IF p = initproc THEN "SRUN" ELSE "free"]
  /\ pid = [p \in Procs |-> IF p = initproc THEN 1 ELSE 0]
  /\ pptr = [p \in Procs |-> None]
  /\ ppwait = [p \in Procs |-> FALSE]
  /\ pc = [p \in Procs |-> IF p = initproc THEN "user" ELSE "none"]
  /\ arg = [p \in Procs |-> None]
  /\ pgid = [p \in Procs |-> IF p = initproc THEN 1 ELSE 0]
  /\ pg_jobc = [g \in Pids |-> 0]
  /\ \E s0 \in Sessions :
       /\ pg_session = [g \in Pids |-> IF g = 1 THEN s0 ELSE None]
       /\ s_leader = [s \in Sessions |-> IF s = s0 THEN initproc ELSE None]
       /\ s_count = [s \in Sessions |-> IF s = s0 THEN 1 ELSE 0]
  /\ nextpid = 2 /\ pidchecked = PID_MAX
  /\ nprocs = KernelProcs + 1
  /\ scan = NoScan

\* p is in user mode, or asleep at c and about to go on; nobody is in the loop.
At(p, c) == pc[p] = c /\ scan = NoScan

Goto(p, c, a) == /\ pc' = [pc EXCEPT ![p] = c]
                 /\ arg' = [arg EXCEPT ![p] = a]

\* wakeup(p) for every p of S, on pc: wait1 and vfork both sleep on the process.
Woken(f, S) == [p \in Procs |->
  IF p \in S /\ f[p] = "wait" THEN "waitloop"
  ELSE IF p \in S /\ f[p] = "ppwait" THEN "pptest"
  ELSE f[p]]

-----------------------------------------------------------------------------
(* fork1 *)

\* The limit, from which a nonprivileged user may not have the last process.
TableFull(uid) == (nprocs >= maxproc - 1 /\ uid # 0) \/ nprocs >= maxproc

\* The numbers of processes, of zombies and of the groups they are in.
used    == allproc \cup zombproc
UsedIds == {pid[p] : p \in used} \cup {pgid[p] : p \in used}

\* Bound: with the forks in progress, no more processes than the model has memory
\* for, nor numbers (maxproc is far below PID_MAX).
Room == LET forks == Cardinality({p \in Procs : pc[p] = "forkmem"}) IN
        /\ Cardinality(used) + forks < Cardinality(Procs)
        /\ Cardinality({n \in UsedIds : n >= PidLow}) + forks < PID_MAX - PidLow

Fork(p, uid) ==
  /\ At(p, "user")
  /\ ~TableFull(uid)
  /\ Room
  /\ Goto(p, "forkmem", None)
  /\ UNCHANGED <<entry, group, nprocs, pids>>

\* Mutant: the numbers end one later.
RetryOneMore(p, n, checked) ==
  LET wrap == n > PID_MAX
      n1   == IF wrap THEN PidLow ELSE n
      c1   == IF wrap THEN 0 ELSE checked
  IN /\ nextpid' = n1
     /\ IF n1 >= c1
        THEN /\ pidchecked' = PID_MAX
             /\ scan' = [by |-> p, todo |-> allproc, doingzomb |-> FALSE]
        ELSE /\ pidchecked' = c1
             /\ scan' = [by |-> p, todo |-> {}, doingzomb |-> TRUE]

\* retry, with nextpid = n: start again at PidLow when the numbers are used up,
\* and look at all processes unless n is in the range known to be free.
Retry(p, n, checked) ==
  LET wrap == n >= PID_MAX
      n1   == IF wrap THEN PidLow ELSE n
      c1   == IF wrap THEN 0 ELSE checked
  IN /\ nextpid' = n1
     /\ IF n1 >= c1
        THEN /\ pidchecked' = PID_MAX
             /\ scan' = [by |-> p, todo |-> allproc, doingzomb |-> FALSE]
        ELSE /\ pidchecked' = c1
             /\ scan' = [by |-> p, todo |-> {}, doingzomb |-> TRUE]

\* MALLOC returns and the search begins.
ForkPid(p) ==
  /\ At(p, "forkmem")
  /\ \E q \in Procs : stat[q] = "free"
  /\ Retry(p, nextpid + 1, pidchecked)
  /\ UNCHANGED <<entry, at, group, nprocs>>

\* Mutant: only processes have numbers.
InUsePid(q, n) == pid[q] = n

InUse(q, n) == pid[q] = n \/ pgid[q] = n

\* The next process of the list has the number, as its own or as its group's.
ScanHit(q) ==
  /\ q \in scan.todo /\ InUse(q, nextpid)
  /\ IF nextpid + 1 >= pidchecked THEN Retry(scan.by, nextpid + 1, pidchecked)
     ELSE nextpid' = nextpid + 1 /\ UNCHANGED <<pidchecked, scan>>
  /\ UNCHANGED <<entry, at, group, nprocs>>

\* Mutant: a group's number does not end the range.
AbovePid(q) == {n \in {pid[q]} : n > nextpid}

\* The numbers above nextpid that end the free range.
Above(q) == {n \in {pid[q], pgid[q]} : n > nextpid}

Lowest(S, c) == IF S = {} THEN c ELSE CHOOSE n \in S \cup {c} : \A k \in S \cup {c} : n <= k

ScanPast(q) ==
  /\ q \in scan.todo /\ ~InUse(q, nextpid)
  /\ pidchecked' = Lowest(Above(q), pidchecked)
  /\ scan' = [scan EXCEPT !.todo = @ \ {q}]
  /\ UNCHANGED <<entry, at, group, nprocs, nextpid>>

ScanZombies ==
  /\ scan.by # None /\ scan.todo = {} /\ ~scan.doingzomb
  /\ scan' = [scan EXCEPT !.todo = zombproc, !.doingzomb = TRUE]
  /\ UNCHANGED <<entry, at, group, nprocs, nextpid, pidchecked>>

\* The new process: it has its number, its parent and its parent's group, and
\* the parent goes on to vm_fork, where it may sleep.
ForkChild(isvfork) ==
  /\ scan.by # None /\ scan.todo = {} /\ scan.doingzomb
  /\ isvfork => scan.by # initproc
  /\ \E p \in {scan.by}, q \in {r \in Procs : stat[r] = "free"} :
        /\ stat' = [stat EXCEPT ![q] = "SIDL"]
        /\ pid' = [pid EXCEPT ![q] = nextpid]
        /\ pptr' = [pptr EXCEPT ![q] = p]
        /\ pgid' = [pgid EXCEPT ![q] = pgid[p]]
        /\ ppwait' = [ppwait EXCEPT ![q] = isvfork]
        /\ Goto(p, "vmfork", q)
  /\ nprocs' = nprocs + 1
  /\ scan' = NoScan
  /\ UNCHANGED <<pg_session, pg_jobc, s_leader, s_count, nextpid, pidchecked>>

\* The child runs; after vfork the parent sleeps.
ForkDone(p) ==
  /\ At(p, "vmfork")
  /\ stat' = [stat EXCEPT ![arg[p]] = "SRUN"]
  /\ IF ppwait[arg[p]]
     THEN /\ pc' = [pc EXCEPT ![arg[p]] = "user", ![p] = "ppwait"]
          /\ UNCHANGED arg
     ELSE /\ pc' = [pc EXCEPT ![arg[p]] = "user", ![p] = "user"]
          /\ arg' = [arg EXCEPT ![p] = None]
  /\ UNCHANGED <<pid, pptr, ppwait, group, nprocs, pids>>

\* while (p2->p_flag & P_PPWAIT): what woke the parent need not be this child.
PpTest(p) ==
  /\ At(p, "pptest")
  /\ IF ppwait[arg[p]] THEN Goto(p, "ppwait", arg[p]) ELSE Goto(p, "user", None)
  /\ UNCHANGED <<entry, group, nprocs, pids>>

-----------------------------------------------------------------------------
(* Process groups *)

\* hispgrp != pgrp && hispgrp->pg_session == mysession
Differs(sess, g, h) == h # g /\ pg_session[h] = sess

\* Mutant: a zombie child still counts.
AffectedZombies(p, g, sess) ==
  (IF pptr[p] # None /\ Differs(sess, g, pgid[pptr[p]]) THEN {p} ELSE {})
    \cup {q \in children(p) : Differs(sess, g, pgid[q])}

\* fixjobc, for p in group g of session sess: the processes that qualify a group
\* because of p are p itself and its children in other groups.
Affected(p, g, sess) ==
  (IF pptr[p] # None /\ Differs(sess, g, pgid[pptr[p]]) THEN {p} ELSE {})
    \cup {q \in children(p) : Differs(sess, g, pgid[q]) /\ stat[q] # "SZOMB"}

\* By how much the count of h changes: p counts for g, a child for its own group.
Share(p, g, sess, h) ==
  Cardinality({q \in Affected(p, g, sess) : h = IF q = p THEN g ELSE pgid[q]})

\* Mutant: a group of zombies is deleted.
RemainingAlive(p, g) == {q \in members(g) : stat[q] # "SZOMB"} \ {p}

\* pg_members once p is off the list; pgdelete if there are none.
Remaining(p, g) == members(g) \ {p}

\* enterpgrp for g of session sess, which is not p's group.  A new group starts with
\* pg_jobc 0; the old one goes with its last member, and so may its session.
enterpgrp(p, g, sess) ==
  LET old  == pgid[p]
      last == Remaining(p, old) = {}
      new  == members(g) = {}
      cnt  == [s_count EXCEPT ![sess] = IF new THEN @ + 1 ELSE @]
  IN /\ pgid' = [pgid EXCEPT ![p] = g]
     /\ pg_session' = [pg_session EXCEPT ![g] = sess, ![old] = IF last THEN None ELSE @]
     /\ pg_jobc' = [h \in Pids |-> IF h = old /\ last THEN 0 ELSE
          pg_jobc[h] + Share(p, g, sess, h) - Share(p, old, session(p), h)]
     /\ s_count' = [cnt EXCEPT ![session(p)] = IF last THEN @ - 1 ELSE @]

Setsid(p) ==
  /\ At(p, "user")
  /\ pgid[p] # pid[p] /\ members(pid[p]) = {}
  /\ \E s \in Sessions : /\ s_count[s] = 0
                         /\ enterpgrp(p, pid[p], s)
                         /\ s_leader' = [s_leader EXCEPT ![s] = p]
  /\ UNCHANGED <<entry, at, nprocs, pids>>

\* inferior: c is t or an ancestor of it.
Inferior(t, c) ==
  LET up[n \in 0 .. Cardinality(Procs)] ==
        IF n = 0 THEN t
        ELSE IF up[n - 1] = None THEN None ELSE pptr[up[n - 1]]
  IN \E n \in DOMAIN up : up[n] = c

Setpgid(c, t, g) ==
  /\ At(c, "user")
  /\ t \in allproc
  /\ t # c => Inferior(t, c) /\ session(t) = session(c)
  /\ ~SESS_LEADER(t)
  /\ g # pid[t] => members(g) # {} /\ pg_session[g] = session(c)
  /\ g # pgid[t]
  /\ enterpgrp(t, g, session(t))
  /\ UNCHANGED s_leader
  /\ UNCHANGED <<entry, at, nprocs, pids>>

-----------------------------------------------------------------------------
(* exit1 *)

\* Up to fdfree and vm_map_remove, which may sleep.
Exit(p) ==
  /\ At(p, "user")
  /\ ppwait' = [ppwait EXCEPT ![p] = FALSE]
  /\ Goto(p, "exit", None)
  /\ UNCHANGED <<stat, pid, pptr, group, nprocs, pids>>

\* Mutant: only the parent is woken.
NotifiedParent(p) == {pptr[p]}

\* The processes exit1 wakes: init if it inherits a child, and the parent.
Notified(p) == {pptr[p]} \cup (IF children(p) # {} THEN {initproc} ELSE {})

\* Mutant: children that are dead already stay with p.
AdoptedAlive(p) == children(p) \cap allproc

\* The children that init gets.
Adopted(p) == children(p)

\* The rest: the session loses its leader, the groups lose the process's
\* qualification, it becomes a zombie, its children become init's, and the
\* parent is told.
Zombie(p) ==
  /\ At(p, "exit")
  /\ s_leader' = IF SESS_LEADER(p) THEN [s_leader EXCEPT ![session(p)] = None] ELSE s_leader
  /\ pg_jobc' = [h \in Pids |-> pg_jobc[h] - Share(p, pgid[p], session(p), h)]
  /\ stat' = [stat EXCEPT ![p] = "SZOMB"]
  /\ pptr' = [q \in Procs |-> IF q \in Adopted(p) THEN initproc ELSE pptr[q]]
  /\ pc' = Woken([pc EXCEPT ![p] = "none"], Notified(p))
  /\ UNCHANGED <<pid, ppwait, arg, pgid, pg_session, s_count, nprocs, pids>>

-----------------------------------------------------------------------------
(* wait1 *)

Matching(p, t) == {q \in children(p) : t = WAIT_ANY \/ pid[q] = t \/ pgid[q] = -t}
Ripe(p, t)     == Matching(p, t) \cap zombproc

\* loop: a zombie is found, and vrele of its text may sleep; or p sleeps; or it
\* returns because no child matches (ECHILD) or it will not wait (WNOHANG).
WaitLoop(p, t) ==
  /\ \/ \E q \in Ripe(p, t) : Goto(p, "reap", q)
     \/ Ripe(p, t) = {} /\ Matching(p, t) # {} /\ Goto(p, "wait", t)
     \/ Ripe(p, t) = {} /\ Goto(p, "user", None)
  /\ UNCHANGED <<entry, group, nprocs, pids>>

\* The call: 0 means the caller's own group, as it is now.
Wait(p, t) == At(p, "user") /\ WaitLoop(p, IF t = 0 THEN -pgid[p] ELSE t)

\* tsleep returns 0: goto loop.
WaitAgain(p) == At(p, "waitloop") /\ WaitLoop(p, arg[p])

\* A caught signal ends the sleep.
WaitSignal(p) ==
  /\ At(p, "wait")
  /\ Goto(p, "user", None)
  /\ UNCHANGED <<entry, group, nprocs, pids>>

\* leavepgrp, and the entry is free.
leavepgrp(q) ==
  LET last == Remaining(q, pgid[q]) = {} IN
  /\ pgid' = [pgid EXCEPT ![q] = 0]
  /\ pg_session' = [pg_session EXCEPT ![pgid[q]] = IF last THEN None ELSE @]
  /\ pg_jobc' = [pg_jobc EXCEPT ![pgid[q]] = IF last THEN 0 ELSE @]
  /\ s_count' = [s_count EXCEPT ![session(q)] = IF last THEN @ - 1 ELSE @]
  /\ UNCHANGED s_leader

Reap(p) ==
  /\ At(p, "reap")
  /\ stat' = [stat EXCEPT ![arg[p]] = "free"]
  /\ pid' = [pid EXCEPT ![arg[p]] = 0]
  /\ pptr' = [pptr EXCEPT ![arg[p]] = None]
  /\ leavepgrp(arg[p])
  /\ Goto(p, "user", None)
  /\ nprocs' = nprocs - 1
  /\ UNCHANGED <<ppwait, pids>>

-----------------------------------------------------------------------------
WaitStep(p) == WaitAgain(p) \/ Reap(p)
ForkStep(p) == ForkPid(p) \/ ForkDone(p) \/ PpTest(p)
Scan        == \/ \E q \in Procs : ScanHit(q) \/ ScanPast(q)
               \/ ScanZombies
               \/ \E v \in BOOLEAN : ForkChild(v)

\* What programs do.  init (sbin/init/init.c) forks, and waits for any child; the
\* child it forks makes a session of its own (login_tty) before anything else.
\* All others do as they like, after that.
LoggedIn(p) == pc[p] # "none" /\ session(p) # session(initproc)

InitCall == Fork(initproc, 0) \/ Wait(initproc, WAIT_ANY)

Call(p) == \/ \E uid \in {0, 1} : Fork(p, uid)
           \/ \E t \in Procs, g \in Pids : Setpgid(p, t, g)
           \/ \E t \in {WAIT_ANY, 0} : Wait(p, t)

Next == \/ Scan \/ InitCall
        \/ \E p \in Procs : \/ LoggedIn(p) /\ Call(p)
                            \/ p # initproc /\ (Setsid(p) \/ Exit(p))
                            \/ ForkStep(p) \/ Zombie(p)
                            \/ WaitStep(p) \/ WaitSignal(p)

Spec == Init /\ [][Next]_vars

-----------------------------------------------------------------------------
(* Properties *)

\* The variables keep their types, and so do the numbers at the end of the range.
TypeOK ==
  /\ stat \in [Procs -> Stats]
  /\ pid \in [Procs -> 0 .. PID_MAX - 1] /\ pgid \in [Procs -> 0 .. PID_MAX - 1]
  /\ pptr \in [Procs -> Procs \cup {None}]
  /\ ppwait \in [Procs -> BOOLEAN]
  /\ pc \in [Procs -> Pcs]
  /\ pg_session \in [Pids -> Sessions \cup {None}]
  /\ pg_jobc \in [Pids -> Nat]
  /\ s_leader \in [Sessions -> Procs \cup {None}]
  /\ s_count \in [Sessions -> Nat]
  /\ nextpid \in Pids /\ pidchecked \in 0 .. PID_MAX
  /\ nprocs \in Nat

\* fork1's cached range, nextpid + 1 through pidchecked - 1, has no number that a
\* process, a zombie or a process group uses, however groups outlive their
\* leaders and the numbers wrap around.
RangeIsFree == scan = NoScan => \A n \in UsedIds : ~(nextpid < n /\ n < pidchecked)

\* fork1 never gives a new process a number that a process or a zombie has or
\* that still names a group.
FreshPid == [][\A p \in Procs : stat[p] = "free" /\ stat'[p] = "SIDL" =>
                 pid'[p] \in Pids \ UsedIds]_vars

\* Two processes, zombies included, never have the same number: pfind and wait4
\* mean one process.
PidsUnique == \A p, q \in used : pid[p] = pid[q] => p = q

\* The parent of a process or zombie is a process that can still wait for it:
\* exit1 leaves no child, dead or alive, with a zombie.
ParentLives == \A p \in used \ {initproc} : pptr[p] \in allproc

Qualifies(p) == /\ stat[p] # "SZOMB" /\ p # initproc
                /\ pgid[pptr[p]] # pgid[p] /\ session(pptr[p]) = session(p)

\* pg_jobc, which fixjobc only ever adjusts, is the number of processes in the
\* group with a parent in another group of the session.
JobcExact == \A g \in {pgid[p] : p \in used} :
               pg_jobc[g] = Cardinality({p \in members(g) : Qualifies(p)})

\* s_count is the number of the session's groups, so that the session is freed
\* with its last group and not before.
SessionCount == \A s \in Sessions :
  s_count[s] = Cardinality({g \in {pgid[p] : p \in used} : pg_session[g] = s})

\* No lost wakeup: a process asleep in wait1 has no zombie to collect, its own or
\* inherited, and one asleep in vfork has a child that has not finished exit1.
NoLostZombie ==
  \A p \in Procs : /\ pc[p] = "wait" => Ripe(p, arg[p]) = {}
                   /\ pc[p] = "ppwait" => ppwait[arg[p]] \/ pc[arg[p]] = "exit"
=============================================================================
