----------------------------- MODULE ProcProofs -----------------------------
(***************************************************************************)
(* What fork1's search for a process id guarantees, who waits for whom,    *)
(* and the counts of groups and sessions, for every number of processes    *)
(* and every range of numbers.                                             *)
(*                                                                         *)
(* RangeIsFree is inductive between forks, because only fork1 brings a new *)
(* number into use: a new group takes the number of a process that exists. *)
(* During the search the invariant is about the processes the loop has     *)
(* passed: none of their numbers is in nextpid .. pidchecked - 1.          *)
(*                                                                         *)
(* The counts are exact because every step exchanges, in each group, just  *)
(* the processes that fixjobc and leavepgrp reckon with (CountInv).        *)
(***************************************************************************)
EXTENDS ProcTable, FiniteSetTheorems, TLAPS

\* Part of TypeOK: what the numbers need.
NumbersOK ==
  /\ stat \in [Procs -> Stats]
  /\ pid \in [Procs -> 0 .. PID_MAX - 1] /\ pgid \in [Procs -> 0 .. PID_MAX - 1]
  /\ nextpid \in Nat /\ 2 <= nextpid /\ nextpid < PID_MAX
  /\ pidchecked \in Nat /\ pidchecked <= PID_MAX
  /\ scan \in [by : Procs \cup {None}, todo : SUBSET Procs, doingzomb : BOOLEAN]
  /\ scan.by = None => scan = NoScan

\* A number the loop must not give away or count as free.
Clear(q) == \A n \in {pid[q], pgid[q]} : ~(nextpid <= n /\ n < pidchecked)

Passed == (used \ scan.todo) \ (IF scan.doingzomb THEN {} ELSE zombproc)

\* The loop: there is memory for the new process, nextpid is in the range, and
\* the processes passed are clear of it.
ScanOK == scan.by # None =>
  /\ \E q \in Procs : stat[q] = "free"
  /\ scan.todo \subseteq used
  /\ 2 < nextpid /\ nextpid < pidchecked
  /\ \A q \in Passed : Clear(q)

PidInv == NumbersOK /\ RangeIsFree /\ ScanOK /\ PidsUnique

\* What a step that is not part of fork1's search does to the numbers.
Quiet == /\ UNCHANGED pids
         /\ scan = NoScan
         /\ used' \subseteq used
         /\ \A q \in used' : pid'[q] = pid[q] /\ pgid'[q] \in {pgid[q]} \cup UsedIds
         /\ stat' \in [Procs -> Stats]
         /\ pid' \in [Procs -> 0 .. PID_MAX - 1] /\ pgid' \in [Procs -> 0 .. PID_MAX - 1]

USE DEF Pids

\* Nothing but the search and the new process changes what PidInv is about.
LEMMA QuietPreserves ==
  ASSUME ProcConstants, PidInv, Quiet
  PROVE  PidInv'
<1>1. NumbersOK'
  BY DEF Quiet, PidInv, NumbersOK, pids, NoScan
<1>2. UsedIds' \subseteq UsedIds
  BY DEF Quiet, UsedIds
<1>3. RangeIsFree'
  BY <1>2 DEF RangeIsFree, PidInv, Quiet, pids
<1>4. ScanOK'
  BY DEF ScanOK, Quiet, pids, NoScan
<1>5. PidsUnique'
  BY DEF PidsUnique, PidInv, Quiet
<1> QED BY <1>1, <1>3, <1>4, <1>5 DEF PidInv

\* The numbers of a process are in range, and retry leaves nextpid below pidchecked:
\* either a range known to be free, or all of it with every process to look at.
LEMMA RetryStep ==
  ASSUME ProcConstants, NumbersOK,
         NEW p \in Procs, NEW n \in Nat, 2 < n, n <= PID_MAX,
         \E q \in Procs : stat[q] = "free",
         UNCHANGED <<entry, group>>,
         \A q \in used : \A k \in {pid[q], pgid[q]} : ~(n <= k /\ k < pidchecked),
         Retry(p, n, pidchecked)
  PROVE  NumbersOK' /\ ScanOK' /\ scan' # NoScan /\ scan'.by # None
<1> DEFINE wrap == n >= PID_MAX
           n1   == IF wrap THEN PidLow ELSE n
           c1   == IF wrap THEN 0 ELSE pidchecked
<1>0. /\ p # None /\ n1 \in Nat /\ c1 \in Nat /\ 2 < n1 /\ n1 < PID_MAX
      /\ c1 <= PID_MAX /\ PID_MAX \in Nat
  BY DEF ProcConstants, NumbersOK
<1>1. /\ nextpid' = n1
      /\ IF n1 >= c1
         THEN /\ pidchecked' = PID_MAX
              /\ scan' = [by |-> p, todo |-> allproc, doingzomb |-> FALSE]
         ELSE /\ pidchecked' = c1
              /\ scan' = [by |-> p, todo |-> {}, doingzomb |-> TRUE]
  BY DEF Retry
<1>2. /\ used' = used /\ allproc' = allproc /\ zombproc' = zombproc
      /\ pid' = pid /\ pgid' = pgid /\ stat' = stat
  BY DEF entry, group, used, allproc, zombproc
<1>3. allproc \subseteq Procs /\ allproc \subseteq used /\ used = allproc \cup zombproc
  BY DEF used, allproc, zombproc
<1> HIDE DEF n1, c1
<1>4. CASE n1 >= c1
  <2>1. /\ nextpid' = n1 /\ pidchecked' = PID_MAX
        /\ scan' = [by |-> p, todo |-> allproc, doingzomb |-> FALSE]
    BY <1>1, <1>4
  <2>2. scan'.by = p /\ scan'.todo = allproc /\ scan'.doingzomb = FALSE
    BY <2>1
  <2>3. NumbersOK'
    BY <2>1, <2>2, <1>0, <1>2, <1>3 DEF NumbersOK
  <2>4. Passed' = {}
    BY <2>2, <1>2, <1>3 DEF Passed
  <2>5. ScanOK'
    BY <2>1, <2>2, <2>4, <1>0, <1>2, <1>3 DEF ScanOK
  <2> QED BY <2>2, <2>3, <2>5, <1>0 DEF NoScan
<1>5. CASE ~(n1 >= c1)
  <2>1. /\ nextpid' = n1 /\ pidchecked' = c1
        /\ scan' = [by |-> p, todo |-> {}, doingzomb |-> TRUE]
    BY <1>1, <1>5
  <2>2. scan'.by = p /\ scan'.todo = {} /\ scan'.doingzomb = TRUE
    BY <2>1
  <2>3. NumbersOK'
    BY <2>1, <2>2, <1>0, <1>2 DEF NumbersOK
  <2>4. Passed' = used
    BY <2>2, <1>2 DEF Passed
  <2>5. n1 = n /\ c1 = pidchecked
    BY <1>5, <1>0 DEF n1, c1, ProcConstants
  <2>6. \A q \in used : Clear(q)'
    BY <2>5, <2>1, <1>2 DEF Clear
  <2>7. ScanOK'
    BY <2>1, <2>2, <2>4, <2>5, <2>6, <1>0, <1>5, <1>2 DEF ScanOK
  <2> QED BY <2>2, <2>3, <2>7, <1>0 DEF NoScan
<1> QED BY <1>4, <1>5

\* A step of the search leaves the processes alone, so that only the numbers
\* and the loop are left to check.
LEMMA SearchPreserves ==
  ASSUME PidInv, UNCHANGED <<entry, group>>, scan' # NoScan, NumbersOK', ScanOK'
  PROVE  PidInv'
BY DEF PidInv, RangeIsFree, PidsUnique, used, allproc, zombproc, entry, group

\* MALLOC returns: the search begins with the number after the last one given.
LEMMA ForkPidPid ==
  ASSUME ProcConstants, PidInv, NEW p \in Procs, ForkPid(p)
  PROVE  PidInv'
<1>1. /\ NumbersOK /\ scan = NoScan /\ \E q \in Procs : stat[q] = "free"
      /\ UNCHANGED <<entry, group>> /\ Retry(p, nextpid + 1, pidchecked)
  BY DEF PidInv, ForkPid, At
<1>2. nextpid + 1 \in Nat /\ 2 < nextpid + 1 /\ nextpid + 1 <= PID_MAX
  BY <1>1 DEF NumbersOK, ProcConstants
<1>3. \A q \in used : \A k \in {pid[q], pgid[q]} : ~(nextpid < k /\ k < pidchecked)
  BY <1>1 DEF PidInv, RangeIsFree, UsedIds
<1>4. used \subseteq Procs
  BY DEF used, allproc, zombproc
<1>5. \A q \in used : \A k \in {pid[q], pgid[q]} : ~(nextpid + 1 <= k /\ k < pidchecked)
  BY <1>1, <1>3, <1>4 DEF NumbersOK
<1>6. NumbersOK' /\ ScanOK' /\ scan' # NoScan
  BY <1>1, <1>2, <1>5, RetryStep
<1> QED BY <1>1, <1>6, SearchPreserves

\* The next process has the number: the one after it may still be free, or the
\* search starts again.
LEMMA ScanHitPid ==
  ASSUME ProcConstants, PidInv, NEW q \in Procs, ScanHit(q)
  PROVE  PidInv'
<1>1. /\ NumbersOK /\ ScanOK /\ q \in scan.todo /\ scan.by \in Procs /\ scan.by # None
      /\ UNCHANGED <<entry, group>>
  <2>1. NumbersOK /\ ScanOK /\ q \in scan.todo /\ UNCHANGED <<entry, group>>
    BY DEF PidInv, ScanHit
  <2>2. scan # NoScan
    BY <2>1 DEF NoScan
  <2> QED BY <2>1, <2>2 DEF NumbersOK
<1>2. /\ \E r \in Procs : stat[r] = "free"
      /\ scan.todo \subseteq used
      /\ 2 < nextpid /\ nextpid < pidchecked
      /\ \A r \in Passed : Clear(r)
  BY <1>1 DEF ScanOK
<1>3. used \subseteq Procs
  BY DEF used, allproc, zombproc
<1>4. /\ nextpid \in Nat /\ pidchecked \in Nat /\ pidchecked <= PID_MAX /\ PID_MAX \in Nat
      /\ \A r \in used : pid[r] \in Nat /\ pgid[r] \in Nat
  BY <1>1, <1>3 DEF NumbersOK, ProcConstants
<1>5. CASE nextpid + 1 >= pidchecked
  <2>1. Retry(scan.by, nextpid + 1, pidchecked)
    BY <1>5 DEF ScanHit
  <2>2. nextpid + 1 \in Nat /\ 2 < nextpid + 1 /\ nextpid + 1 <= PID_MAX
    BY <1>2, <1>4
  <2>3. \A r \in used : \A k \in {pid[r], pgid[r]} : ~(nextpid + 1 <= k /\ k < pidchecked)
    BY <1>5, <1>4
  <2>4. NumbersOK' /\ ScanOK' /\ scan' # NoScan
    BY <1>1, <1>2, <2>1, <2>2, <2>3, RetryStep
  <2> QED BY <1>1, <2>4, SearchPreserves
<1>6. CASE ~(nextpid + 1 >= pidchecked)
  <2>1. nextpid' = nextpid + 1 /\ pidchecked' = pidchecked /\ scan' = scan
    BY <1>6 DEF ScanHit
  <2>2. /\ used' = used /\ zombproc' = zombproc /\ Passed' = Passed
        /\ pid' = pid /\ pgid' = pgid /\ stat' = stat
    BY <1>1, <2>1 DEF entry, group, used, allproc, zombproc, Passed
  <2>3. NumbersOK'
    BY <1>1, <1>2, <1>4, <1>6, <2>1, <2>2 DEF NumbersOK
  <2>4. \A r \in Passed : Clear(r)'
    BY <1>2, <1>4, <2>1, <2>2 DEF Clear, Passed
  <2>5. ScanOK'
    BY <1>2, <1>4, <1>6, <2>1, <2>2, <2>4 DEF ScanOK
  <2>6. scan' # NoScan
    BY <1>1, <2>1 DEF NoScan
  <2> QED BY <1>1, <2>3, <2>5, <2>6, SearchPreserves
<1> QED BY <1>5, <1>6

\* Lowest is the minimum of at most two numbers and c.
LEMMA LowestFact ==
  ASSUME NEW a \in Nat, NEW b \in Nat, NEW c \in Nat, NEW S, S \subseteq {a, b}
  PROVE  /\ Lowest(S, c) \in S \cup {c}
         /\ \A k \in S \cup {c} : Lowest(S, c) <= k
<1>1. CASE S = {}
  BY <1>1 DEF Lowest
<1>2. CASE S # {}
  <2>1. \E n \in S \cup {c} : \A k \in S \cup {c} : n <= k
    <3>1. CASE S = {a}
      BY <3>1
    <3>2. CASE S = {b}
      BY <3>2
    <3>3. CASE S = {a, b}
      BY <3>3
    <3> QED BY <1>2, <3>1, <3>2, <3>3
  <2> QED BY <1>2, <2>1 DEF Lowest
<1> QED BY <1>1, <1>2

\* The next process does not have the number: the range ends below its own.
LEMMA ScanPastPid ==
  ASSUME ProcConstants, PidInv, NEW q \in Procs, ScanPast(q)
  PROVE  PidInv'
<1>1. /\ NumbersOK /\ ScanOK /\ q \in scan.todo /\ scan.by \in Procs /\ scan.by # None
      /\ UNCHANGED <<entry, group>> /\ nextpid' = nextpid /\ ~InUse(q, nextpid)
      /\ pidchecked' = Lowest(Above(q), pidchecked)
      /\ scan' = [scan EXCEPT !.todo = @ \ {q}]
  <2>1. /\ NumbersOK /\ ScanOK /\ q \in scan.todo
        /\ UNCHANGED <<entry, group>> /\ nextpid' = nextpid /\ ~InUse(q, nextpid)
        /\ pidchecked' = Lowest(Above(q), pidchecked)
        /\ scan' = [scan EXCEPT !.todo = @ \ {q}]
    BY DEF PidInv, ScanPast
  <2>2. scan # NoScan
    BY <2>1 DEF NoScan
  <2> QED BY <2>1, <2>2 DEF NumbersOK
<1>2. /\ \E r \in Procs : stat[r] = "free"
      /\ scan.todo \subseteq used
      /\ 2 < nextpid /\ nextpid < pidchecked
      /\ \A r \in Passed : Clear(r)
  BY <1>1 DEF ScanOK
<1>3. used \subseteq Procs
  BY DEF used, allproc, zombproc
<1>4. /\ nextpid \in Nat /\ pidchecked \in Nat /\ pidchecked <= PID_MAX /\ PID_MAX \in Nat
      /\ \A r \in used : pid[r] \in Nat /\ pgid[r] \in Nat
  BY <1>1, <1>3 DEF NumbersOK, ProcConstants
<1>5. q \in used /\ pid[q] \in Nat /\ pgid[q] \in Nat
  BY <1>1, <1>2, <1>4
<1>6. /\ pidchecked' \in Above(q) \cup {pidchecked}
      /\ \A k \in Above(q) \cup {pidchecked} : pidchecked' <= k
  <2>1. Above(q) \subseteq {pid[q], pgid[q]}
    BY DEF Above
  <2> QED BY <1>1, <1>4, <1>5, <2>1, LowestFact
<1>7. /\ pidchecked' \in Nat /\ nextpid < pidchecked' /\ pidchecked' <= pidchecked
      /\ pidchecked' <= PID_MAX
  BY <1>2, <1>4, <1>5, <1>6 DEF Above
<1>8. /\ scan'.by = scan.by /\ scan'.todo = scan.todo \ {q} /\ scan'.doingzomb = scan.doingzomb
      /\ scan' \in [by : Procs \cup {None}, todo : SUBSET Procs, doingzomb : BOOLEAN]
  BY <1>1 DEF NumbersOK
<1>9. /\ used' = used /\ zombproc' = zombproc /\ allproc' = allproc
      /\ pid' = pid /\ pgid' = pgid /\ stat' = stat
  BY <1>1 DEF entry, group, used, allproc, zombproc
<1>10. NumbersOK'
  BY <1>1, <1>7, <1>8, <1>9 DEF NumbersOK
<1>11. Passed' \subseteq Passed \cup {q}
  BY <1>8, <1>9 DEF Passed
<1>12. Clear(q)'
  BY <1>1, <1>4, <1>5, <1>6, <1>7, <1>9 DEF Clear, InUse, Above
<1>13. \A r \in Passed : Clear(r)'
  BY <1>1, <1>2, <1>4, <1>7, <1>9 DEF Clear, Passed
<1>14. ScanOK'
  <2>1. scan.todo \ {q} \subseteq used
    BY <1>2
  <2>2. \A r \in Passed' : Clear(r)'
    BY <1>11, <1>12, <1>13
  <2> QED BY <1>1, <1>2, <1>7, <1>8, <1>9, <2>1, <2>2 DEF ScanOK
<1>15. scan' # NoScan
  BY <1>1, <1>8 DEF NoScan
<1> QED BY <1>1, <1>10, <1>14, <1>15, SearchPreserves

\* The active processes are done; the zombies follow.
LEMMA ScanZombiesPid ==
  ASSUME ProcConstants, PidInv, ScanZombies
  PROVE  PidInv'
<1>1. /\ NumbersOK /\ ScanOK /\ scan.by # None /\ scan.todo = {} /\ ~scan.doingzomb
      /\ UNCHANGED <<entry, group>> /\ nextpid' = nextpid /\ pidchecked' = pidchecked
      /\ scan' = [scan EXCEPT !.todo = zombproc, !.doingzomb = TRUE]
  BY DEF PidInv, ScanZombies
<1>2. zombproc \subseteq Procs /\ zombproc \subseteq used
  BY DEF zombproc, used
<1>3. /\ scan'.by = scan.by /\ scan'.todo = zombproc /\ scan'.doingzomb = TRUE
      /\ scan' \in [by : Procs \cup {None}, todo : SUBSET Procs, doingzomb : BOOLEAN]
  BY <1>1, <1>2 DEF NumbersOK
<1>4. /\ used' = used /\ zombproc' = zombproc
      /\ pid' = pid /\ pgid' = pgid /\ stat' = stat
  BY <1>1 DEF entry, group, used, allproc, zombproc
<1>5. NumbersOK'
  BY <1>1, <1>3, <1>4 DEF NumbersOK
<1>6. Passed' = Passed
  BY <1>1, <1>3, <1>4 DEF Passed
<1>7. \A r \in Passed : Clear(r) => Clear(r)'
  BY <1>1, <1>4 DEF Clear
<1>8. ScanOK'
  BY <1>1, <1>2, <1>3, <1>4, <1>6, <1>7 DEF ScanOK
<1>9. scan' # NoScan
  BY <1>1, <1>3 DEF NoScan
<1> QED BY <1>1, <1>5, <1>8, <1>9, SearchPreserves

\* The search is over: no process has the number or a group of that number, and
\* none has one in the rest of the range.
LEMMA SearchDone ==
  ASSUME ProcConstants, PidInv, scan.by # None, scan.todo = {}, scan.doingzomb
  PROVE  /\ nextpid \in Pids \ UsedIds
         /\ \A n \in UsedIds : ~(nextpid < n /\ n < pidchecked)
<1>1. NumbersOK /\ 2 < nextpid /\ nextpid < pidchecked /\ \A q \in Passed : Clear(q)
  BY DEF PidInv, ScanOK
<1>2. Passed = used
  BY DEF Passed
<1>3. \A n \in UsedIds : n \in Nat /\ ~(nextpid <= n /\ n < pidchecked)
  <2>1. used \subseteq Procs
    BY DEF used, allproc, zombproc
  <2> QED BY <1>1, <1>2, <2>1 DEF Clear, UsedIds, NumbersOK, ProcConstants
<1>4. nextpid \in Pids
  BY <1>1 DEF NumbersOK, ProcConstants
<1> QED BY <1>1, <1>3, <1>4 DEF NumbersOK

\* The life of a process: who runs, whose child the process is that a fork makes,
\* a vfork waits for or a wait frees, and that init stays.
LifeOK ==
  /\ pptr \in [Procs -> Procs \cup {None}] /\ ppwait \in [Procs -> BOOLEAN]
  /\ pc \in [Procs -> Pcs] /\ arg = [p \in Procs |-> arg[p]]
  /\ pptr[initproc] = None /\ pc[initproc] \notin {"none", "exit"}
  /\ scan.by # None => pc[scan.by] = "forkmem"
  /\ \A p \in Procs :
       /\ stat[p] = "SRUN" <=> pc[p] # "none"
       /\ pc[p] \in {"vmfork", "ppwait", "pptest", "reap"} =>
            arg[p] \in Procs /\ pptr[arg[p]] = p
       /\ pc[p] = "vmfork" => stat[arg[p]] = "SIDL"
       /\ pc[p] \in {"ppwait", "pptest"} => stat[arg[p]] \in {"SRUN", "SZOMB"}
       /\ pc[p] = "reap" => stat[arg[p]] = "SZOMB"

LifeInv == NumbersOK /\ LifeOK /\ ParentLives /\ NoLostZombie

\* A process p has just been given number nextpid.
LEMMA ForkChildPid ==
  ASSUME ProcConstants, PidInv, LifeInv, NEW v \in BOOLEAN, ForkChild(v)
  PROVE  PidInv' /\ (\A q \in Procs : stat[q] = "free" /\ stat'[q] = "SIDL" =>
                        pid'[q] \in Pids \ UsedIds)
<1>1. /\ scan.by # None /\ scan.todo = {} /\ scan.doingzomb /\ NumbersOK /\ PidsUnique
      /\ scan' = NoScan /\ nextpid' = nextpid /\ pidchecked' = pidchecked
  BY DEF ForkChild, PidInv
<1>2. PICK q \in Procs :
        /\ stat[q] = "free"
        /\ stat' = [stat EXCEPT ![q] = "SIDL"]
        /\ pid' = [pid EXCEPT ![q] = nextpid]
        /\ pgid' = [pgid EXCEPT ![q] = pgid[scan.by]]
  BY DEF ForkChild
<1>3. /\ nextpid \in Pids \ UsedIds
      /\ \A n \in UsedIds : ~(nextpid < n /\ n < pidchecked)
  BY <1>1, SearchDone
<1>4. scan.by \in Procs /\ scan.by \in used
  BY <1>1 DEF LifeInv, LifeOK, used, allproc, NumbersOK
<1>5. /\ used' = used \cup {q} /\ q \notin used
      /\ \A r \in used : r \in Procs /\ pid'[r] = pid[r] /\ pgid'[r] = pgid[r]
      /\ pid'[q] = nextpid /\ pgid'[q] = pgid[scan.by]
  BY <1>1, <1>2 DEF used, allproc, zombproc, NumbersOK
<1>6. NumbersOK'
  <2>1. pgid[scan.by] \in 0 .. PID_MAX - 1 /\ nextpid \in 0 .. PID_MAX - 1
    BY <1>1, <1>4 DEF NumbersOK, ProcConstants
  <2>2. scan' \in [by : Procs \cup {None}, todo : SUBSET Procs, doingzomb : BOOLEAN]
    BY <1>1 DEF NoScan
  <2> QED BY <1>1, <1>2, <2>1, <2>2 DEF NumbersOK, Stats
<1>7. UsedIds' = UsedIds \cup {nextpid}
  BY <1>4, <1>5 DEF UsedIds
<1>8. RangeIsFree'
  BY <1>1, <1>3, <1>7 DEF RangeIsFree, NumbersOK
<1>9. ScanOK'
  BY <1>1 DEF ScanOK, NoScan
<1>10. PidsUnique'
  BY <1>1, <1>3, <1>5 DEF PidsUnique, UsedIds
<1>11. \A r \in Procs : stat[r] = "free" /\ stat'[r] = "SIDL" => r = q
  BY <1>1, <1>2 DEF NumbersOK
<1> QED BY <1>3, <1>5, <1>6, <1>8, <1>9, <1>10, <1>11 DEF PidInv

-----------------------------------------------------------------------------
(* The life of a process *)

\* One process moves and nothing else changes.
LEMMA GotoLife ==
  ASSUME ProcConstants, LifeInv, NumbersOK', UNCHANGED <<entry, pgid>>,
         scan' = scan \/ scan'.by = None,
         NEW p \in Procs, pc[p] \notin {"none", "exit"}, scan.by # p,
         NEW c \in Pcs \ {"none", "vmfork"}, NEW a, Goto(p, c, a),
         c = "exit" => p # initproc,
         c \in {"ppwait", "pptest"} =>
            a \in Procs /\ pptr[a] = p /\ stat[a] \in {"SRUN", "SZOMB"}
              /\ (c = "ppwait" => ppwait[a]),
         c = "reap" => a \in Procs /\ pptr[a] = p /\ stat[a] = "SZOMB",
         c = "wait" => Ripe(p, a) = {}
  PROVE  LifeInv'
<1>1. /\ pc' = [pc EXCEPT ![p] = c] /\ arg' = [arg EXCEPT ![p] = a]
      /\ pc \in [Procs -> Pcs] /\ arg = [q \in Procs |-> arg[q]]
      /\ stat' = stat /\ pptr' = pptr /\ ppwait' = ppwait /\ pid' = pid /\ pgid' = pgid
  BY DEF Goto, LifeInv, LifeOK, entry
<1>2. /\ pc'[p] = c /\ arg'[p] = a
      /\ \A q \in Procs \ {p} : pc'[q] = pc[q] /\ arg'[q] = arg[q]
  BY <1>1
<1>3. LifeOK'
  <2>1. pc' \in [Procs -> Pcs] /\ arg' = [q \in Procs |-> arg'[q]]
    BY <1>1
  <2>2. scan'.by # None => pc'[scan'.by] = "forkmem"
    BY <1>2 DEF LifeInv, LifeOK, NumbersOK
  <2>3. \A q \in Procs \ {p} :
       /\ stat'[q] = "SRUN" <=> pc'[q] # "none"
       /\ pc'[q] \in {"vmfork", "ppwait", "pptest", "reap"} =>
            arg'[q] \in Procs /\ pptr'[arg'[q]] = q
       /\ pc'[q] = "vmfork" => stat'[arg'[q]] = "SIDL"
       /\ pc'[q] \in {"ppwait", "pptest"} => stat'[arg'[q]] \in {"SRUN", "SZOMB"}
       /\ pc'[q] = "reap" => stat'[arg'[q]] = "SZOMB"
    BY <1>1, <1>2 DEF LifeInv, LifeOK
  <2>4. /\ stat'[p] = "SRUN" <=> pc'[p] # "none"
        /\ pc'[p] \in {"vmfork", "ppwait", "pptest", "reap"} =>
             arg'[p] \in Procs /\ pptr'[arg'[p]] = p
        /\ pc'[p] = "vmfork" => stat'[arg'[p]] = "SIDL"
        /\ pc'[p] \in {"ppwait", "pptest"} => stat'[arg'[p]] \in {"SRUN", "SZOMB"}
        /\ pc'[p] = "reap" => stat'[arg'[p]] = "SZOMB"
    BY <1>1, <1>2 DEF LifeInv, LifeOK
  <2>5. pptr'[initproc] = None /\ pc'[initproc] \notin {"none", "exit"}
    BY <1>1, <1>2 DEF LifeInv, LifeOK, ProcConstants
  <2> QED BY <1>1, <2>1, <2>2, <2>3, <2>4, <2>5 DEF LifeInv, LifeOK
<1>4. ParentLives'
  BY <1>1 DEF LifeInv, ParentLives, used, allproc, zombproc
<1>5. NoLostZombie'
  <2>1. ASSUME NEW q \in Procs, pc'[q] = "wait" PROVE Ripe(q, arg[q])' = {}
    <3>1. \A r : r \notin Ripe(q, arg[q])'
      <4>1. CASE q = p
        BY <2>1, <4>1, <1>1, <1>2 DEF Ripe, Matching, children, allproc, zombproc
      <4>2. CASE q # p
        <5>1. Ripe(q, arg[q]) = {}
          BY <2>1, <4>2, <1>2 DEF LifeInv, NoLostZombie
        <5> QED BY <4>2, <5>1, <1>1, <1>2 DEF Ripe, Matching, children, allproc, zombproc
      <4> QED BY <4>1, <4>2
    <3> QED BY <3>1
  <2>2. ASSUME NEW q \in Procs, pc'[q] = "ppwait"
        PROVE  ppwait'[arg'[q]] \/ pc'[arg'[q]] = "exit"
    <3>1. CASE q = p
      BY <2>2, <3>1, <1>1, <1>2
    <3>2. CASE q # p
      <4>1. arg'[q] = arg[q] /\ pc[q] = "ppwait" /\ arg[q] \in Procs
        BY <2>2, <3>2, <1>2 DEF LifeInv, LifeOK
      <4>2. ppwait[arg[q]] \/ pc[arg[q]] = "exit"
        BY <4>1 DEF LifeInv, NoLostZombie
      <4> QED BY <4>1, <4>2, <1>1, <1>2
    <3> QED BY <3>1, <3>2
  <2> QED BY <2>1, <2>2 DEF NoLostZombie
<1> QED BY <1>3, <1>4, <1>5 DEF LifeInv

\* A step of fork1's search moves nobody.
LEMMA SearchLife ==
  ASSUME LifeInv, NumbersOK', UNCHANGED <<entry, at, group>>,
         scan'.by # None => pc[scan'.by] = "forkmem"
  PROVE  LifeInv'
<1>1. /\ stat' = stat /\ pptr' = pptr /\ ppwait' = ppwait /\ pid' = pid /\ pgid' = pgid
      /\ pc' = pc /\ arg' = arg
  BY DEF entry, at, group
<1>2. LifeOK'
  BY <1>1 DEF LifeInv, LifeOK
<1>3. ParentLives'
  BY <1>1 DEF LifeInv, ParentLives, used, allproc, zombproc
<1>4. NoLostZombie'
  BY <1>1 DEF LifeInv, NoLostZombie, Ripe, Matching, children, allproc, zombproc
<1> QED BY <1>2, <1>3, <1>4 DEF LifeInv

\* setsid and setpgid: the group of one live process changes.
LEMMA GroupLife ==
  ASSUME LifeInv, NumbersOK', UNCHANGED <<entry, at, scan>>,
         \A q \in zombproc : pgid'[q] = pgid[q]
  PROVE  LifeInv'
<1>1. /\ stat' = stat /\ pptr' = pptr /\ ppwait' = ppwait /\ pid' = pid
      /\ pc' = pc /\ arg' = arg /\ scan' = scan
  BY DEF entry, at
<1>2. LifeOK'
  BY <1>1 DEF LifeInv, LifeOK
<1>3. ParentLives'
  BY <1>1 DEF LifeInv, ParentLives, used, allproc, zombproc
<1>4. NoLostZombie'
  BY <1>1 DEF LifeInv, NoLostZombie, Ripe, Matching, children, allproc, zombproc
<1> QED BY <1>2, <1>3, <1>4 DEF LifeInv

\* The new process belongs to the parent that waits for vm_fork.
LEMMA ForkChildLife ==
  ASSUME ProcConstants, LifeInv, NumbersOK', NEW v \in BOOLEAN, ForkChild(v)
  PROVE  LifeInv'
<1> DEFINE p == scan.by
<1>1. PICK q \in Procs :
        /\ stat[q] = "free"
        /\ stat' = [stat EXCEPT ![q] = "SIDL"]
        /\ pid' = [pid EXCEPT ![q] = nextpid]
        /\ pptr' = [pptr EXCEPT ![q] = p]
        /\ pgid' = [pgid EXCEPT ![q] = pgid[p]]
        /\ ppwait' = [ppwait EXCEPT ![q] = v]
        /\ pc' = [pc EXCEPT ![p] = "vmfork"]
        /\ arg' = [arg EXCEPT ![p] = q]
  BY DEF ForkChild, Goto
<1>2. /\ scan.by # None /\ scan' = NoScan
      /\ NumbersOK /\ LifeOK /\ ParentLives /\ NoLostZombie
  BY DEF ForkChild, LifeInv
<1>3. p \in Procs /\ pc[p] = "forkmem" /\ stat[p] = "SRUN" /\ p # q
  BY <1>1, <1>2 DEF NumbersOK, LifeOK
<1> HIDE DEF p
<1>4. /\ stat'[q] = "SIDL" /\ pptr'[q] = p /\ ppwait'[q] = v /\ pc'[q] = pc[q]
      /\ \A r \in Procs \ {q} : /\ stat'[r] = stat[r] /\ pptr'[r] = pptr[r]
                                /\ ppwait'[r] = ppwait[r]
                                /\ pid'[r] = pid[r] /\ pgid'[r] = pgid[r]
      /\ pc'[p] = "vmfork" /\ arg'[p] = q
      /\ \A r \in Procs \ {p} : pc'[r] = pc[r] /\ arg'[r] = arg[r]
  BY <1>1, <1>2, <1>3 DEF NumbersOK, LifeOK
<1>5. q # initproc /\ pc[q] = "none"
  BY <1>1, <1>2 DEF LifeOK, ProcConstants
<1>6. LifeOK'
  <2>1. /\ pptr' \in [Procs -> Procs \cup {None}] /\ ppwait' \in [Procs -> BOOLEAN]
        /\ pc' \in [Procs -> Pcs] /\ arg' = [r \in Procs |-> arg'[r]]
    <3>1. pptr' \in [Procs -> Procs \cup {None}] /\ ppwait' \in [Procs -> BOOLEAN]
      BY <1>1, <1>2, <1>3 DEF LifeOK
    <3>2. pc' \in [Procs -> Pcs] /\ arg' = [r \in Procs |-> arg'[r]]
      BY <1>1, <1>2, <1>3 DEF LifeOK, Pcs
    <3> QED BY <3>1, <3>2
  <2>2. /\ pptr'[initproc] = None /\ pc'[initproc] \notin {"none", "exit"}
    BY <1>2, <1>4, <1>5 DEF LifeOK, ProcConstants
  <2>3. scan'.by = None
    BY <1>2 DEF NoScan
  <2>4. ASSUME NEW r \in Procs \ {p}, pc[r] \in {"vmfork", "ppwait", "pptest", "reap"}
        PROVE  arg[r] \in Procs \ {q}
    BY <1>1, <1>2, <2>4 DEF LifeOK
  <2>5. \A r \in Procs :
       /\ stat'[r] = "SRUN" <=> pc'[r] # "none"
       /\ pc'[r] \in {"vmfork", "ppwait", "pptest", "reap"} =>
            arg'[r] \in Procs /\ pptr'[arg'[r]] = r
       /\ pc'[r] = "vmfork" => stat'[arg'[r]] = "SIDL"
       /\ pc'[r] \in {"ppwait", "pptest"} => stat'[arg'[r]] \in {"SRUN", "SZOMB"}
       /\ pc'[r] = "reap" => stat'[arg'[r]] = "SZOMB"
    <3>1. \A r \in Procs \ {p} :
       /\ stat'[r] = "SRUN" <=> pc'[r] # "none"
       /\ pc'[r] \in {"vmfork", "ppwait", "pptest", "reap"} =>
            arg'[r] \in Procs /\ pptr'[arg'[r]] = r
       /\ pc'[r] = "vmfork" => stat'[arg'[r]] = "SIDL"
       /\ pc'[r] \in {"ppwait", "pptest"} => stat'[arg'[r]] \in {"SRUN", "SZOMB"}
       /\ pc'[r] = "reap" => stat'[arg'[r]] = "SZOMB"
      BY <1>2, <1>4, <1>5, <2>4 DEF LifeOK
    <3>2. /\ stat'[p] = "SRUN" /\ pc'[p] = "vmfork" /\ arg'[p] = q /\ pptr'[q] = p
          /\ stat'[q] = "SIDL"
      BY <1>3, <1>4
    <3> QED BY <3>1, <3>2
  <2> QED BY <2>1, <2>2, <2>3, <2>5 DEF LifeOK
<1>7. used' = used \cup {q} /\ allproc' = allproc \cup {q} /\ zombproc' = zombproc /\ p \in allproc
  BY <1>1, <1>3, <1>4 DEF used, allproc, zombproc
<1>8. ParentLives'
  <2>1. \A r \in used : r # q /\ r \in Procs
    BY <1>1 DEF used, allproc, zombproc
  <2> QED BY <1>2, <1>4, <1>7, <2>1 DEF ParentLives
<1>9. NoLostZombie'
  <2>1. ASSUME NEW r \in Procs, pc'[r] = "wait" PROVE Ripe(r, arg[r])' = {}
    <3>1. r # p /\ pc[r] = "wait" /\ arg'[r] = arg[r] /\ Ripe(r, arg[r]) = {}
      BY <1>2, <1>4, <2>1 DEF NoLostZombie
    <3>2. \A z \in zombproc : z # q /\ z \in Procs
      BY <1>1 DEF zombproc
    <3>3. \A z \in zombproc : pptr'[z] = pptr[z] /\ pid'[z] = pid[z] /\ pgid'[z] = pgid[z]
      BY <3>2, <1>4
    <3> QED BY <3>1, <3>3, <1>7 DEF Ripe, Matching, children
  <2>2. ASSUME NEW r \in Procs, pc'[r] = "ppwait"
        PROVE  ppwait'[arg'[r]] \/ pc'[arg'[r]] = "exit"
    <3>1. r # p /\ pc[r] = "ppwait" /\ arg'[r] = arg[r]
      BY <1>4, <2>2
    <3>2. arg[r] \in Procs /\ arg[r] # q /\ (ppwait[arg[r]] \/ pc[arg[r]] = "exit")
      BY <1>1, <1>2, <3>1 DEF LifeOK, NoLostZombie
    <3> QED BY <1>3, <1>4, <3>1, <3>2
  <2> QED BY <2>1, <2>2 DEF NoLostZombie
<1> QED BY <1>6, <1>8, <1>9 DEF LifeInv

\* The child runs; after vfork its parent sleeps until it has left P_PPWAIT.
LEMMA ForkDoneLife ==
  ASSUME ProcConstants, LifeInv, NumbersOK', NEW p \in Procs, ForkDone(p)
  PROVE  LifeInv'
<1> DEFINE q == arg[p]
<1>1. /\ NumbersOK /\ LifeOK /\ ParentLives /\ NoLostZombie /\ pc[p] = "vmfork"
      /\ scan = NoScan /\ scan' = scan
      /\ pid' = pid /\ pptr' = pptr /\ ppwait' = ppwait /\ pgid' = pgid
      /\ stat' = [stat EXCEPT ![q] = "SRUN"]
  BY DEF ForkDone, At, LifeInv, group, pids
<1>2. q \in Procs /\ pptr[q] = p /\ stat[q] = "SIDL" /\ pc[q] = "none" /\ p # q
  BY <1>1 DEF LifeOK
<1>3. \/ /\ ppwait[q] /\ pc' = [pc EXCEPT ![q] = "user", ![p] = "ppwait"]
         /\ arg' = arg
      \/ /\ pc' = [pc EXCEPT ![q] = "user", ![p] = "user"]
         /\ arg' = [arg EXCEPT ![p] = None]
  BY DEF ForkDone
<1> HIDE DEF q
<1>4. /\ pc' \in [Procs -> Pcs] /\ arg' = [r \in Procs |-> arg'[r]]
      /\ pc'[q] = "user"
      /\ \A r \in Procs \ {p, q} : pc'[r] = pc[r]
      /\ \A r \in Procs \ {p} : arg'[r] = arg[r]
      /\ pc'[p] = "user" \/ (pc'[p] = "ppwait" /\ arg'[p] = q /\ ppwait[q])
  <2>1. arg' = [r \in Procs |-> arg'[r]] /\ \A r \in Procs \ {p} : arg'[r] = arg[r]
    BY <1>1, <1>2, <1>3 DEF LifeOK
  <2>2. /\ pc' \in [Procs -> Pcs] /\ pc'[q] = "user"
        /\ \A r \in Procs \ {p, q} : pc'[r] = pc[r]
    BY <1>1, <1>2, <1>3 DEF LifeOK, Pcs
  <2>3. pc'[p] = "user" \/ (pc'[p] = "ppwait" /\ arg'[p] = q /\ ppwait[q])
    BY <1>1, <1>2, <1>3 DEF LifeOK, q
  <2> QED BY <2>1, <2>2, <2>3
<1>5. stat'[q] = "SRUN" /\ \A r \in Procs \ {q} : stat'[r] = stat[r]
  BY <1>1, <1>2 DEF NumbersOK
<1>6. \A r \in Procs \ {p} : pc[r] \in {"vmfork", "ppwait", "pptest", "reap"} =>
         arg[r] \in Procs \ {q}
  BY <1>1, <1>2 DEF LifeOK
<1>7. LifeOK'
  <2>1. q # initproc /\ p \in Procs /\ stat[p] = "SRUN"
    BY <1>1, <1>2 DEF LifeOK, ProcConstants
  <2>2. pptr'[initproc] = None /\ pc'[initproc] \notin {"none", "exit"}
    BY <1>1, <1>4, <2>1 DEF LifeOK, ProcConstants
  <2>3. \A r \in Procs \ {p, q} :
       /\ stat'[r] = "SRUN" <=> pc'[r] # "none"
       /\ pc'[r] \in {"vmfork", "ppwait", "pptest", "reap"} =>
            arg'[r] \in Procs /\ pptr'[arg'[r]] = r
       /\ pc'[r] = "vmfork" => stat'[arg'[r]] = "SIDL"
       /\ pc'[r] \in {"ppwait", "pptest"} => stat'[arg'[r]] \in {"SRUN", "SZOMB"}
       /\ pc'[r] = "reap" => stat'[arg'[r]] = "SZOMB"
    BY <1>1, <1>4, <1>5, <1>6 DEF LifeOK
  <2>4. \A r \in {p, q} :
       /\ stat'[r] = "SRUN" <=> pc'[r] # "none"
       /\ pc'[r] \in {"vmfork", "ppwait", "pptest", "reap"} =>
            arg'[r] \in Procs /\ pptr'[arg'[r]] = r
       /\ pc'[r] = "vmfork" => stat'[arg'[r]] = "SIDL"
       /\ pc'[r] \in {"ppwait", "pptest"} => stat'[arg'[r]] \in {"SRUN", "SZOMB"}
       /\ pc'[r] = "reap" => stat'[arg'[r]] = "SZOMB"
    BY <1>1, <1>2, <1>4, <1>5, <2>1
  <2>5. scan'.by = None
    BY <1>1 DEF NoScan
  <2> QED BY <1>1, <1>4, <2>2, <2>3, <2>4, <2>5 DEF LifeOK
<1>8. used' = used /\ allproc' = allproc /\ zombproc' = zombproc
  BY <1>2, <1>5 DEF used, allproc, zombproc
<1>9. ParentLives'
  BY <1>1, <1>8 DEF ParentLives
<1>10. NoLostZombie'
  <2>1. ASSUME NEW r \in Procs, pc'[r] = "wait" PROVE Ripe(r, arg[r])' = {}
    <3>1. arg'[r] = arg[r] /\ Ripe(r, arg[r]) = {}
      BY <1>1, <1>4, <2>1 DEF NoLostZombie
    <3> QED BY <3>1, <1>1, <1>8 DEF Ripe, Matching, children
  <2>2. ASSUME NEW r \in Procs, pc'[r] = "ppwait"
        PROVE  ppwait'[arg'[r]] \/ pc'[arg'[r]] = "exit"
    <3>1. CASE r = p
      BY <1>1, <1>4, <2>2, <3>1
    <3>2. CASE r # p
      <4>1. pc[r] = "ppwait" /\ arg'[r] = arg[r] /\ arg[r] \in Procs \ {q}
        BY <1>4, <1>6, <2>2, <3>2
      <4>2. ppwait[arg[r]] \/ pc[arg[r]] = "exit"
        BY <1>1, <4>1 DEF NoLostZombie
      <4> QED BY <1>1, <1>4, <4>1, <4>2
    <3> QED BY <3>1, <3>2
  <2> QED BY <2>1, <2>2 DEF NoLostZombie
<1> QED BY <1>7, <1>9, <1>10 DEF LifeInv

\* exit1 begins: a parent in vfork is to be woken by the rest of it.
LEMMA ExitLife ==
  ASSUME ProcConstants, LifeInv, NumbersOK', NEW p \in Procs, p # initproc, Exit(p)
  PROVE  LifeInv'
<1>1. /\ NumbersOK /\ LifeOK /\ ParentLives /\ NoLostZombie /\ pc[p] = "user"
      /\ scan = NoScan /\ scan' = scan
      /\ stat' = stat /\ pid' = pid /\ pptr' = pptr /\ pgid' = pgid
      /\ ppwait' = [ppwait EXCEPT ![p] = FALSE]
      /\ pc' = [pc EXCEPT ![p] = "exit"] /\ arg' = [arg EXCEPT ![p] = None]
  BY DEF Exit, At, Goto, LifeInv, group, pids
<1>2. /\ pc'[p] = "exit" /\ \A r \in Procs \ {p} : pc'[r] = pc[r] /\ arg'[r] = arg[r]
      /\ \A r \in Procs \ {p} : ppwait'[r] = ppwait[r]
  BY <1>1 DEF LifeOK
<1>3. LifeOK'
  <2>1. /\ pc' \in [Procs -> Pcs] /\ arg' = [r \in Procs |-> arg'[r]]
        /\ ppwait' \in [Procs -> BOOLEAN]
    BY <1>1 DEF LifeOK, Pcs
  <2>2. pptr'[initproc] = None /\ pc'[initproc] \notin {"none", "exit"}
    BY <1>1, <1>2 DEF LifeOK, ProcConstants
  <2>3. \A r \in Procs :
       /\ stat'[r] = "SRUN" <=> pc'[r] # "none"
       /\ pc'[r] \in {"vmfork", "ppwait", "pptest", "reap"} =>
            arg'[r] \in Procs /\ pptr'[arg'[r]] = r
       /\ pc'[r] = "vmfork" => stat'[arg'[r]] = "SIDL"
       /\ pc'[r] \in {"ppwait", "pptest"} => stat'[arg'[r]] \in {"SRUN", "SZOMB"}
       /\ pc'[r] = "reap" => stat'[arg'[r]] = "SZOMB"
    BY <1>1, <1>2 DEF LifeOK
  <2>4. scan'.by = None
    BY <1>1 DEF NoScan
  <2> QED BY <1>1, <2>1, <2>2, <2>3, <2>4 DEF LifeOK
<1>4. ParentLives'
  BY <1>1 DEF ParentLives, used, allproc, zombproc
<1>5. NoLostZombie'
  <2>1. ASSUME NEW r \in Procs, pc'[r] = "wait" PROVE Ripe(r, arg[r])' = {}
    <3>1. arg'[r] = arg[r] /\ Ripe(r, arg[r]) = {}
      BY <1>1, <1>2, <2>1 DEF NoLostZombie
    <3> QED BY <3>1, <1>1 DEF Ripe, Matching, children, allproc, zombproc
  <2>2. ASSUME NEW r \in Procs, pc'[r] = "ppwait"
        PROVE  ppwait'[arg'[r]] \/ pc'[arg'[r]] = "exit"
    <3>1. r # p /\ pc[r] = "ppwait" /\ arg'[r] = arg[r] /\ arg[r] \in Procs
      BY <1>1, <1>2, <2>2 DEF LifeOK
    <3>2. ppwait[arg[r]] \/ pc[arg[r]] = "exit"
      BY <1>1, <3>1 DEF NoLostZombie
    <3> QED BY <1>2, <3>1, <3>2
  <2> QED BY <2>1, <2>2 DEF NoLostZombie
<1> QED BY <1>3, <1>4, <1>5 DEF LifeInv

\* The end of exit1: the children become init's, and whoever could be asleep
\* for this process or for one of them is woken.
LEMMA ZombieLife ==
  ASSUME ProcConstants, LifeInv, NumbersOK', NEW p \in Procs, Zombie(p)
  PROVE  LifeInv'
<1>1. /\ NumbersOK /\ LifeOK /\ ParentLives /\ NoLostZombie /\ pc[p] = "exit"
      /\ scan = NoScan /\ scan' = scan
      /\ pid' = pid /\ ppwait' = ppwait /\ arg' = arg /\ pgid' = pgid
      /\ stat' = [stat EXCEPT ![p] = "SZOMB"]
      /\ pptr' = [q \in Procs |-> IF q \in children(p) THEN initproc ELSE pptr[q]]
      /\ pc' = Woken([pc EXCEPT ![p] = "none"], Notified(p))
  BY DEF Zombie, At, LifeInv, pids, Adopted
<1>0. /\ LifeOK /\ pc[p] = "exit" /\ arg' = arg /\ scan'.by = None /\ ppwait' = ppwait
  BY <1>1 DEF NoScan
<1>2. p # initproc /\ stat[p] = "SRUN" /\ initproc \in Procs /\ initproc # None
      /\ stat[initproc] = "SRUN"
  BY <1>1 DEF LifeOK, ProcConstants
<1>3. stat'[p] = "SZOMB" /\ \A r \in Procs \ {p} : stat'[r] = stat[r]
  BY <1>1 DEF NumbersOK
<1>4. /\ pc'[p] = "none" /\ pc' \in [Procs -> Pcs]
      /\ \A r \in Procs \ {p} :
           \/ pc'[r] = pc[r] /\ (r \in Notified(p) => pc[r] \notin {"wait", "ppwait"})
           \/ pc[r] = "wait" /\ pc'[r] = "waitloop"
           \/ pc[r] = "ppwait" /\ pc'[r] = "pptest"
  <2>1. pc \in [Procs -> Pcs]
    BY <1>1 DEF LifeOK
  <2> QED BY <1>1, <2>1 DEF Woken, Pcs
<1>5. pptr[p] \in Notified(p) /\ (children(p) # {} => initproc \in Notified(p))
  BY DEF Notified
<1>6. /\ used' = used /\ allproc' = allproc \ {p} /\ zombproc' = zombproc \cup {p}
      /\ p \in used /\ used \subseteq Procs /\ children(p) \subseteq used
      /\ initproc \in allproc'
  BY <1>2, <1>3 DEF used, allproc, zombproc, children
<1>7. \A q \in Procs : pptr'[q] = IF q \in children(p) THEN initproc ELSE pptr[q]
  BY <1>1
<1>8. \A q \in used : pptr[q] = p => q \in children(p)
  BY DEF used, children
<1>9. \A q \in children(p) : pptr[q] = p
  BY DEF children
<1>10. LifeOK'
  <2>1. pptr' \in [Procs -> Procs \cup {None}] /\ pptr'[initproc] = None
    <3>1. initproc \notin children(p)
      BY <1>1, <1>9 DEF LifeOK, ProcConstants
    <3> QED BY <1>1, <1>2, <3>1 DEF LifeOK
  <2>2. pc'[initproc] \notin {"none", "exit"}
    BY <1>1, <1>2, <1>4 DEF LifeOK
  <2>3. ASSUME NEW r \in Procs \ {p}
        PROVE  /\ stat'[r] = "SRUN" <=> pc'[r] # "none"
               /\ pc'[r] \in {"vmfork", "ppwait", "pptest", "reap"} =>
                    arg[r] \in Procs /\ pptr'[arg[r]] = r
               /\ pc'[r] = "vmfork" => stat'[arg[r]] = "SIDL"
               /\ pc'[r] \in {"ppwait", "pptest"} => stat'[arg[r]] \in {"SRUN", "SZOMB"}
               /\ pc'[r] = "reap" => stat'[arg[r]] = "SZOMB"
    <3>1. stat'[r] = "SRUN" <=> pc'[r] # "none"
      BY <1>0, <1>3, <1>4 DEF LifeOK
    <3>2. ASSUME pc[r] \in {"vmfork", "ppwait", "pptest", "reap"}
          PROVE  arg[r] \in Procs /\ pptr'[arg[r]] = r
      BY <1>0, <1>7, <1>9, <3>2 DEF LifeOK
    <3>3. pc'[r] = "vmfork" => stat'[arg[r]] = "SIDL"
      BY <1>0, <1>2, <1>3, <1>4 DEF LifeOK
    <3>4. pc'[r] \in {"ppwait", "pptest"} => stat'[arg[r]] \in {"SRUN", "SZOMB"}
      BY <1>0, <1>2, <1>3, <1>4 DEF LifeOK
    <3>5. pc'[r] = "reap" => stat'[arg[r]] = "SZOMB"
      BY <1>0, <1>2, <1>3, <1>4 DEF LifeOK
    <3> QED BY <1>4, <3>1, <3>2, <3>3, <3>4, <3>5
  <2>4. stat'[p] # "SRUN" /\ pc'[p] = "none"
    BY <1>3, <1>4
  <2>5. arg' = [r \in Procs |-> arg'[r]] /\ ppwait' \in [Procs -> BOOLEAN]
    BY <1>0 DEF LifeOK
  <2> QED BY <1>0, <1>4, <2>1, <2>2, <2>3, <2>4, <2>5 DEF LifeOK
<1>11. ParentLives'
  <2>1. ASSUME NEW q \in used \ {initproc} PROVE pptr'[q] \in allproc'
    <3>1. pptr[q] \in allproc
      BY <1>1 DEF ParentLives
    <3> QED BY <1>6, <1>7, <1>8, <3>1
  <2> QED BY <1>6, <2>1 DEF ParentLives
<1>12. NoLostZombie'
  <2>1. ASSUME NEW r \in Procs, pc'[r] = "wait" PROVE Ripe(r, arg[r])' = {}
    <3>1. r # p /\ pc[r] = "wait" /\ r \notin Notified(p)
      BY <1>4, <2>1
    <3>2. Ripe(r, arg[r]) = {}
      BY <1>1, <3>1 DEF NoLostZombie
    <3>3. ASSUME NEW z \in zombproc', pptr'[z] = r PROVE z \in zombproc /\ pptr[z] = r
      <4>1. z \in Procs
        BY DEF zombproc
      <4>2. z \notin children(p)
        BY <1>5, <1>7, <3>1, <3>3, <4>1
      <4> QED BY <1>5, <1>6, <1>7, <3>1, <3>3, <4>1, <4>2
    <3> QED BY <1>1, <3>2, <3>3 DEF Ripe, Matching, children
  <2>2. ASSUME NEW r \in Procs, pc'[r] = "ppwait"
        PROVE  ppwait'[arg'[r]] \/ pc'[arg'[r]] = "exit"
    <3>1. r # p /\ pc[r] = "ppwait" /\ r \notin Notified(p)
      BY <1>4, <2>2
    <3>2. arg[r] \in Procs /\ pptr[arg[r]] = r /\ (ppwait[arg[r]] \/ pc[arg[r]] = "exit")
      BY <1>1, <3>1 DEF LifeOK, NoLostZombie
    <3>3. arg[r] # p
      BY <1>5, <3>1, <3>2
    <3> QED BY <1>1, <1>4, <3>2, <3>3
  <2> QED BY <2>1, <2>2 DEF NoLostZombie
<1> QED BY <1>10, <1>11, <1>12 DEF LifeInv

\* wait1 frees the zombie it found, which has no children left.
LEMMA ReapLife ==
  ASSUME ProcConstants, LifeInv, NumbersOK', NEW p \in Procs, Reap(p)
  PROVE  LifeInv'
<1> DEFINE z == arg[p]
<1>1. /\ NumbersOK /\ LifeOK /\ ParentLives /\ NoLostZombie /\ pc[p] = "reap"
      /\ scan = NoScan /\ scan' = scan /\ ppwait' = ppwait
      /\ stat' = [stat EXCEPT ![z] = "free"]
      /\ pid' = [pid EXCEPT ![z] = 0]
      /\ pptr' = [pptr EXCEPT ![z] = None]
      /\ pgid' = [pgid EXCEPT ![z] = 0]
      /\ pc' = [pc EXCEPT ![p] = "user"] /\ arg' = [arg EXCEPT ![p] = None]
  BY DEF Reap, At, Goto, leavepgrp, LifeInv, pids
<1>2. z \in Procs /\ pptr[z] = p /\ stat[z] = "SZOMB" /\ pc[z] = "none" /\ p # z /\ z # initproc
  BY <1>1 DEF LifeOK, ProcConstants
<1> HIDE DEF z
<1>3. /\ stat'[z] = "free" /\ pptr'[z] = None
      /\ \A r \in Procs \ {z} : /\ stat'[r] = stat[r] /\ pptr'[r] = pptr[r]
                                /\ pid'[r] = pid[r] /\ pgid'[r] = pgid[r]
      /\ pc'[p] = "user" /\ \A r \in Procs \ {p} : pc'[r] = pc[r] /\ arg'[r] = arg[r]
  BY <1>1, <1>2 DEF NumbersOK, LifeOK
<1>4. LifeOK'
  <2>1. /\ pptr' \in [Procs -> Procs \cup {None}]
        /\ pc' \in [Procs -> Pcs] /\ arg' = [r \in Procs |-> arg'[r]]
    BY <1>1, <1>2 DEF LifeOK, Pcs
  <2>2. pptr'[initproc] = None /\ pc'[initproc] \notin {"none", "exit"}
    BY <1>1, <1>2, <1>3 DEF LifeOK, ProcConstants
  <2>3. \A r \in Procs \ {p} : pc[r] \in {"vmfork", "ppwait", "pptest", "reap"} =>
          arg[r] \in Procs \ {z}
    BY <1>1, <1>2 DEF LifeOK
  <2>4. \A r \in Procs \ {p} :
       /\ stat'[r] = "SRUN" <=> pc'[r] # "none"
       /\ pc'[r] \in {"vmfork", "ppwait", "pptest", "reap"} =>
            arg'[r] \in Procs /\ pptr'[arg'[r]] = r
       /\ pc'[r] = "vmfork" => stat'[arg'[r]] = "SIDL"
       /\ pc'[r] \in {"ppwait", "pptest"} => stat'[arg'[r]] \in {"SRUN", "SZOMB"}
       /\ pc'[r] = "reap" => stat'[arg'[r]] = "SZOMB"
    BY <1>1, <1>2, <1>3, <2>3 DEF LifeOK
  <2>5. stat'[p] = "SRUN" /\ pc'[p] = "user"
    BY <1>1, <1>2, <1>3 DEF LifeOK
  <2>6. scan'.by = None
    BY <1>1 DEF NoScan
  <2> QED BY <1>1, <2>1, <2>2, <2>4, <2>5, <2>6 DEF LifeOK
<1>5. used' = used \ {z} /\ allproc' = allproc /\ zombproc' = zombproc \ {z} /\ used \subseteq Procs
  BY <1>2, <1>3 DEF used, allproc, zombproc
<1>6. ParentLives'
  BY <1>1, <1>3, <1>5 DEF ParentLives
<1>7. NoLostZombie'
  <2>1. ASSUME NEW r \in Procs, pc'[r] = "wait" PROVE Ripe(r, arg[r])' = {}
    <3>1. r # p /\ arg'[r] = arg[r] /\ Ripe(r, arg[r]) = {}
      BY <1>1, <1>3, <2>1 DEF NoLostZombie
    <3>2. \A y \in zombproc' : y \in zombproc /\ y \in Procs /\ y # z
      BY <1>5 DEF zombproc
    <3>3. \A y \in zombproc' : pptr'[y] = pptr[y] /\ pid'[y] = pid[y] /\ pgid'[y] = pgid[y]
      BY <1>3, <3>2
    <3> QED BY <3>1, <3>2, <3>3, <1>5 DEF Ripe, Matching, children
  <2>2. ASSUME NEW r \in Procs, pc'[r] = "ppwait"
        PROVE  ppwait'[arg'[r]] \/ pc'[arg'[r]] = "exit"
    <3>1. r # p /\ pc[r] = "ppwait" /\ arg'[r] = arg[r] /\ arg[r] \in Procs
      BY <1>1, <1>3, <2>2 DEF LifeOK
    <3>2. ppwait[arg[r]] \/ pc[arg[r]] = "exit"
      BY <1>1, <3>1 DEF NoLostZombie
    <3> QED BY <1>1, <1>3, <3>1, <3>2
  <2> QED BY <2>1, <2>2 DEF NoLostZombie
<1> QED BY <1>4, <1>6, <1>7 DEF LifeInv

-----------------------------------------------------------------------------
(* The invariant of the process table *)

ProcInv == PidInv /\ LifeInv

\* A process that moves without touching the table is quiet.
LEMMA MoveStep ==
  ASSUME ProcConstants, ProcInv, UNCHANGED <<entry, group, nprocs, pids>>, scan = NoScan
  PROVE  PidInv' /\ NumbersOK' /\ UNCHANGED <<entry, pgid>> /\ scan' = scan
<1>1. /\ stat' = stat /\ pid' = pid /\ pgid' = pgid /\ scan' = scan
      /\ UNCHANGED <<entry, pgid>> /\ UNCHANGED pids
  BY DEF entry, group, pids
<1>2. used' = used
  BY <1>1 DEF used, allproc, zombproc
<1>3. Quiet
  BY <1>1, <1>2 DEF Quiet, ProcInv, PidInv, NumbersOK
<1>4. PidInv'
  BY <1>3, QuietPreserves DEF ProcInv
<1> QED BY <1>1, <1>4 DEF PidInv

\* Such a move from a state c that is no kernel bookkeeping to user mode, to the
\* MALLOC of fork1 or back to the loop of wait1.
LEMMA PlainMove ==
  ASSUME ProcConstants, ProcInv, UNCHANGED <<entry, group, nprocs, pids>>, scan = NoScan,
         NEW p \in Procs, pc[p] \notin {"none", "exit"},
         NEW c \in {"user", "forkmem"}, NEW a, Goto(p, c, a)
  PROVE  ProcInv'
<1>1. PidInv' /\ NumbersOK' /\ UNCHANGED <<entry, pgid>> /\ scan' = scan
  BY MoveStep
<1>2. scan.by # p
  BY DEF NoScan, ProcConstants
<1>3. c \in Pcs \ {"none", "vmfork"}
  BY DEF Pcs
<1>4. LifeInv'
  BY <1>1, <1>2, <1>3, GotoLife DEF ProcInv
<1> QED BY <1>1, <1>4 DEF ProcInv

\* fork1 up to its MALLOC only moves the caller.
LEMMA ForkStepInv ==
  ASSUME ProcConstants, ProcInv, NEW p \in Procs, NEW uid, Fork(p, uid)
  PROVE  ProcInv'
<1>1. /\ pc[p] = "user" /\ scan = NoScan /\ Goto(p, "forkmem", None)
      /\ UNCHANGED <<entry, group, nprocs, pids>>
  BY DEF Fork, At
<1> QED BY <1>1, PlainMove

\* A caught signal ends wait1's sleep and changes nothing else.
LEMMA WaitSignalInv ==
  ASSUME ProcConstants, ProcInv, NEW p \in Procs, WaitSignal(p)
  PROVE  ProcInv'
<1>1. /\ pc[p] = "wait" /\ scan = NoScan /\ Goto(p, "user", None)
      /\ UNCHANGED <<entry, group, nprocs, pids>>
  BY DEF WaitSignal, At
<1> QED BY <1>1, PlainMove

\* vfork's parent goes back to sleep only while its child still has P_PPWAIT.
LEMMA PpTestInv ==
  ASSUME ProcConstants, ProcInv, NEW p \in Procs, PpTest(p)
  PROVE  ProcInv'
<1>1. /\ pc[p] = "pptest" /\ scan = NoScan /\ UNCHANGED <<entry, group, nprocs, pids>>
      /\ IF ppwait[arg[p]] THEN Goto(p, "ppwait", arg[p]) ELSE Goto(p, "user", None)
  BY DEF PpTest, At
<1>2. CASE ~ppwait[arg[p]]
  BY <1>1, <1>2, PlainMove
<1>3. CASE ppwait[arg[p]]
  <2>1. PidInv' /\ NumbersOK' /\ UNCHANGED <<entry, pgid>> /\ scan' = scan
    BY <1>1, MoveStep
  <2>2. scan.by # p
    BY <1>1 DEF NoScan, ProcConstants
  <2>3. arg[p] \in Procs /\ pptr[arg[p]] = p /\ stat[arg[p]] \in {"SRUN", "SZOMB"}
    BY <1>1 DEF ProcInv, LifeInv, LifeOK
  <2>4. Goto(p, "ppwait", arg[p]) /\ "ppwait" \in Pcs \ {"none", "vmfork"}
    BY <1>1, <1>3 DEF Pcs
  <2>5. LifeInv'
    BY <1>1, <1>3, <2>1, <2>2, <2>3, <2>4, GotoLife DEF ProcInv
  <2> QED BY <2>1, <2>5 DEF ProcInv
<1> QED BY <1>2, <1>3

\* The loop of wait1 sleeps only when it has found no zombie.
LEMMA WaitLoopInv ==
  ASSUME ProcConstants, ProcInv, NEW p \in Procs, pc[p] \in {"user", "waitloop"},
         scan = NoScan, NEW t, WaitLoop(p, t)
  PROVE  ProcInv'
<1>1. UNCHANGED <<entry, group, nprocs, pids>> /\ pc[p] \notin {"none", "exit"}
  BY DEF WaitLoop
<1>2. PidInv' /\ NumbersOK' /\ UNCHANGED <<entry, pgid>> /\ scan' = scan
  BY <1>1, MoveStep
<1>3. scan.by # p
  BY DEF NoScan, ProcConstants
<1>4. CASE Goto(p, "user", None)
  BY <1>1, <1>4, PlainMove
<1>5. CASE Ripe(p, t) = {} /\ Goto(p, "wait", t)
  <2>1. "wait" \in Pcs \ {"none", "vmfork"}
    BY DEF Pcs
  <2>2. LifeInv'
    BY <1>1, <1>2, <1>3, <1>5, <2>1, GotoLife DEF ProcInv
  <2> QED BY <1>2, <2>2 DEF ProcInv
<1>6. CASE \E q \in Ripe(p, t) : Goto(p, "reap", q)
  <2>1. PICK q \in Ripe(p, t) : Goto(p, "reap", q)
    BY <1>6
  <2>2. q \in Procs /\ pptr[q] = p /\ stat[q] = "SZOMB"
    BY DEF Ripe, Matching, children, zombproc
  <2>3. "reap" \in Pcs \ {"none", "vmfork"}
    BY DEF Pcs
  <2>4. LifeInv'
    BY <1>1, <1>2, <1>3, <2>1, <2>2, <2>3, GotoLife DEF ProcInv
  <2> QED BY <1>2, <2>4 DEF ProcInv
<1> QED BY <1>4, <1>5, <1>6 DEF WaitLoop

\* A process changes groups: the new one has the number of a process or of a
\* group that exists, so that no number comes into use.
LEMMA EnterInv ==
  ASSUME ProcConstants, ProcInv, scan = NoScan, NEW p \in allproc, NEW g \in UsedIds,
         pgid' = [pgid EXCEPT ![p] = g], UNCHANGED <<entry, at, nprocs, pids>>
  PROVE  ProcInv'
<1>1. /\ stat' = stat /\ pid' = pid /\ scan' = scan /\ UNCHANGED <<entry, at, scan>>
      /\ UNCHANGED pids
  BY DEF entry, pids
<1>2. used' = used /\ used \subseteq Procs /\ p \in Procs /\ p \notin zombproc
  BY <1>1 DEF used, allproc, zombproc
<1>3. g \in 0 .. PID_MAX - 1
  BY <1>2 DEF UsedIds, ProcInv, PidInv, NumbersOK
<1>4. /\ pgid \in [Procs -> 0 .. PID_MAX - 1] /\ pid \in [Procs -> 0 .. PID_MAX - 1]
      /\ stat \in [Procs -> Stats]
  BY DEF ProcInv, PidInv, NumbersOK
<1>5. Quiet
  BY <1>1, <1>2, <1>3, <1>4 DEF Quiet
<1>6. PidInv'
  BY <1>5, QuietPreserves DEF ProcInv
<1>7. \A q \in zombproc : pgid'[q] = pgid[q]
  BY <1>2, <1>4 DEF zombproc
<1>8. LifeInv'
  BY <1>1, <1>6, <1>7, GroupLife DEF ProcInv, PidInv
<1> QED BY <1>6, <1>8 DEF ProcInv

\* setsid names the group after its caller, whose number is in use.
LEMMA SetsidInv ==
  ASSUME ProcConstants, ProcInv, NEW p \in Procs, Setsid(p)
  PROVE  ProcInv'
<1>1. /\ scan = NoScan /\ pc[p] = "user" /\ pgid' = [pgid EXCEPT ![p] = pid[p]]
      /\ UNCHANGED <<entry, at, nprocs, pids>>
  BY DEF Setsid, At, enterpgrp
<1>2. p \in allproc
  BY <1>1 DEF ProcInv, LifeInv, LifeOK, allproc
<1>3. pid[p] \in UsedIds
  BY <1>2 DEF UsedIds, used
<1> QED BY <1>1, <1>2, <1>3, EnterInv

\* setpgid names an existing group, or a new one after its target.
LEMMA SetpgidInv ==
  ASSUME ProcConstants, ProcInv, NEW c \in Procs, NEW t \in Procs, NEW g, Setpgid(c, t, g)
  PROVE  ProcInv'
<1>1. /\ scan = NoScan /\ t \in allproc /\ pgid' = [pgid EXCEPT ![t] = g]
      /\ g # pid[t] => members(g) # {}
      /\ UNCHANGED <<entry, at, nprocs, pids>>
  BY DEF Setpgid, At, enterpgrp
<1>2. g \in UsedIds
  BY <1>1 DEF UsedIds, used, members
<1> QED BY <1>1, <1>2, EnterInv

\* fork1, exit1 and wait1 change the state of a process, its number only when it
\* is freed.
LEMMA TableQuiet ==
  ASSUME ProcConstants, ProcInv, NEW p \in Procs,
         ForkDone(p) \/ Exit(p) \/ Zombie(p) \/ Reap(p)
  PROVE  PidInv'
<1>0. NumbersOK /\ LifeOK
  BY DEF ProcInv, LifeInv
<1>1. CASE ForkDone(p)
  <2>1. /\ pc[p] = "vmfork" /\ stat' = [stat EXCEPT ![arg[p]] = "SRUN"]
        /\ pid' = pid /\ pgid' = pgid /\ UNCHANGED pids /\ scan = NoScan
    BY <1>1 DEF ForkDone, At, group
  <2>2. arg[p] \in Procs /\ stat[arg[p]] = "SIDL"
    BY <1>0, <2>1 DEF LifeOK
  <2>3. used' = used
    BY <1>0, <2>1, <2>2 DEF used, allproc, zombproc, NumbersOK
  <2>4. Quiet
    BY <1>0, <2>1, <2>3 DEF Quiet, NumbersOK, Stats
  <2> QED BY <2>4, QuietPreserves DEF ProcInv
<1>2. CASE Exit(p)
  <2>1. stat' = stat /\ pid' = pid /\ pgid' = pgid /\ UNCHANGED pids /\ scan = NoScan
    BY <1>2 DEF Exit, At, group
  <2>2. used' = used
    BY <2>1 DEF used, allproc, zombproc
  <2>3. Quiet
    BY <1>0, <2>1, <2>2 DEF Quiet, NumbersOK
  <2> QED BY <2>3, QuietPreserves DEF ProcInv
<1>3. CASE Zombie(p)
  <2>1. /\ pc[p] = "exit" /\ stat' = [stat EXCEPT ![p] = "SZOMB"]
        /\ pid' = pid /\ pgid' = pgid /\ UNCHANGED pids /\ scan = NoScan
    BY <1>3 DEF Zombie, At
  <2>2. stat[p] = "SRUN"
    BY <1>0, <2>1 DEF LifeOK
  <2>3. used' = used
    BY <1>0, <2>1, <2>2 DEF used, allproc, zombproc, NumbersOK
  <2>4. Quiet
    BY <1>0, <2>1, <2>3 DEF Quiet, NumbersOK, Stats
  <2> QED BY <2>4, QuietPreserves DEF ProcInv
<1>4. CASE Reap(p)
  <2>1. /\ pc[p] = "reap" /\ stat' = [stat EXCEPT ![arg[p]] = "free"]
        /\ pid' = [pid EXCEPT ![arg[p]] = 0] /\ pgid' = [pgid EXCEPT ![arg[p]] = 0]
        /\ UNCHANGED pids /\ scan = NoScan
    BY <1>4 DEF Reap, leavepgrp, At
  <2>2. arg[p] \in Procs /\ stat[arg[p]] = "SZOMB"
    BY <1>0, <2>1 DEF LifeOK
  <2>3. used' = used \ {arg[p]} /\ used \subseteq Procs
    BY <1>0, <2>1, <2>2 DEF used, allproc, zombproc, NumbersOK
  <2>4. 0 \in 0 .. PID_MAX - 1
    BY DEF ProcConstants
  <2>5. Quiet
    BY <1>0, <2>1, <2>2, <2>3, <2>4 DEF Quiet, NumbersOK, Stats
  <2> QED BY <2>5, QuietPreserves DEF ProcInv
<1> QED BY <1>1, <1>2, <1>3, <1>4

\* The search stays with the process that began it.
LEMMA SearchInv ==
  ASSUME ProcConstants, ProcInv, NEW p \in Procs, NEW q \in Procs,
         ForkPid(p) \/ ScanHit(q) \/ ScanPast(q) \/ ScanZombies
  PROVE  ProcInv'
<1>1. PidInv'
  BY ForkPidPid, ScanHitPid, ScanPastPid, ScanZombiesPid DEF ProcInv
<1>2. UNCHANGED <<entry, at, group>>
  BY DEF ForkPid, ScanHit, ScanPast, ScanZombies
<1>3. scan'.by # None => pc[scan'.by] = "forkmem"
  <2>0. LifeOK /\ scan \in [by : Procs \cup {None}, todo : SUBSET Procs, doingzomb : BOOLEAN]
        /\ (scan # NoScan => scan.by # None)
    BY DEF ProcInv, LifeInv, NumbersOK, NoScan
  <2>1. CASE ForkPid(p)
    <3>1. pc[p] = "forkmem" /\ Retry(p, nextpid + 1, pidchecked)
      BY <2>1 DEF ForkPid, At
    <3>2. scan'.by = p
      BY <3>1 DEF Retry
    <3> QED BY <3>1, <3>2
  <2>2. CASE ScanHit(q)
    <3>1. Retry(scan.by, nextpid + 1, pidchecked) \/ scan' = scan
      BY <2>2 DEF ScanHit
    <3>2. scan'.by = scan.by
      BY <3>1 DEF Retry
    <3> QED BY <2>0, <3>2 DEF LifeOK
  <2>3. CASE ScanPast(q)
    <3>1. scan' = [scan EXCEPT !.todo = @ \ {q}]
      BY <2>3 DEF ScanPast
    <3>2. scan'.by = scan.by
      BY <2>0, <3>1
    <3> QED BY <2>0, <3>2 DEF LifeOK
  <2>4. CASE ScanZombies
    <3>1. scan' = [scan EXCEPT !.todo = zombproc, !.doingzomb = TRUE]
      BY <2>4 DEF ScanZombies
    <3>2. scan'.by = scan.by
      BY <2>0, <3>1
    <3> QED BY <2>0, <3>2 DEF LifeOK
  <2> QED BY <2>1, <2>2, <2>3, <2>4
<1>4. LifeInv'
  BY <1>1, <1>2, <1>3, SearchLife DEF ProcInv, PidInv
<1> QED BY <1>1, <1>4 DEF ProcInv

\* With init alone the invariant holds.
LEMMA ProcInit ==
  ASSUME ProcConstants, Init
  PROVE  ProcInv
<1>1. /\ initproc \in Procs /\ initproc # None /\ None \notin Procs
      /\ PID_MAX \in Nat /\ 3 < PID_MAX
  BY DEF ProcConstants
<1>2. /\ stat = [p \in Procs |-> IF p = initproc THEN "SRUN" ELSE "free"]
      /\ pid = [p \in Procs |-> IF p = initproc THEN 1 ELSE 0]
      /\ pgid = [p \in Procs |-> IF p = initproc THEN 1 ELSE 0]
      /\ pptr = [p \in Procs |-> None] /\ ppwait = [p \in Procs |-> FALSE]
      /\ pc = [p \in Procs |-> IF p = initproc THEN "user" ELSE "none"]
      /\ arg = [p \in Procs |-> None]
      /\ nextpid = 2 /\ pidchecked = PID_MAX /\ scan = NoScan
  BY DEF Init
<1>3. scan.by = None /\ NoScan \in [by : Procs \cup {None}, todo : SUBSET Procs, doingzomb : BOOLEAN]
  BY <1>2 DEF NoScan
<1>4. NumbersOK
  <2>1. stat \in [Procs -> Stats]
    BY <1>2 DEF Stats
  <2>2. pid \in [Procs -> 0 .. PID_MAX - 1] /\ pgid \in [Procs -> 0 .. PID_MAX - 1]
    BY <1>1, <1>2
  <2> QED BY <1>1, <1>2, <1>3, <2>1, <2>2 DEF NumbersOK
<1>5. used = {initproc} /\ allproc = {initproc} /\ zombproc = {}
  BY <1>1, <1>2 DEF used, allproc, zombproc
<1>6. UsedIds = {1}
  BY <1>1, <1>2, <1>5 DEF UsedIds
<1>7. PidInv
  BY <1>2, <1>3, <1>4, <1>5, <1>6 DEF PidInv, RangeIsFree, ScanOK, PidsUnique
<1>8. LifeOK
  BY <1>1, <1>2, <1>3 DEF LifeOK, Pcs
<1>9. ParentLives
  BY <1>5 DEF ParentLives
<1>10. NoLostZombie
  BY <1>2 DEF NoLostZombie
<1> QED BY <1>4, <1>7, <1>8, <1>9, <1>10 DEF ProcInv, LifeInv

\* Every action keeps the invariant: the lemmas above, action by action.
LEMMA ProcStep ==
  ASSUME ProcConstants, ProcInv, [Next]_vars
  PROVE  ProcInv'
<1>1. CASE UNCHANGED vars
  <2>1. /\ UNCHANGED <<entry, group, nprocs, pids>> /\ UNCHANGED <<entry, at, group>>
        /\ UNCHANGED scan
    BY <1>1 DEF vars, pids
  <2>2. /\ stat' = stat /\ pid' = pid /\ pgid' = pgid /\ scan' = scan
        /\ nextpid' = nextpid /\ pidchecked' = pidchecked
    BY <2>1 DEF entry, group, pids
  <2>3. NumbersOK'
    BY <2>2 DEF ProcInv, PidInv, NumbersOK
  <2>4. LifeInv'
    BY <2>1, <2>2, <2>3, SearchLife DEF ProcInv, LifeInv, LifeOK
  <2>5. PidInv'
    BY <2>2, <2>3 DEF ProcInv, PidInv, RangeIsFree, ScanOK, PidsUnique, Passed, Clear,
                      UsedIds, used, allproc, zombproc
  <2> QED BY <2>4, <2>5 DEF ProcInv
<1>2. CASE Scan
  <2>1. ASSUME NEW q \in Procs, ScanHit(q) \/ ScanPast(q) PROVE ProcInv'
    BY <2>1, SearchInv
  <2>2. ASSUME ScanZombies PROVE ProcInv'
    BY <2>2, SearchInv DEF ProcConstants
  <2>3. ASSUME NEW v \in BOOLEAN, ForkChild(v) PROVE ProcInv'
    <3>1. PidInv' /\ NumbersOK'
      BY <2>3, ForkChildPid DEF ProcInv, PidInv
    <3> QED BY <2>3, <3>1, ForkChildLife DEF ProcInv
  <2> QED BY <1>2, <2>1, <2>2, <2>3 DEF Scan
<1>3. CASE InitCall
  <2>1. initproc \in Procs
    BY DEF ProcConstants
  <2>2. CASE Fork(initproc, 0)
    BY <2>1, <2>2, ForkStepInv
  <2>3. CASE Wait(initproc, WAIT_ANY)
    <3>1. /\ pc[initproc] = "user" /\ scan = NoScan
          /\ \E t \in {WAIT_ANY, -pgid[initproc]} : WaitLoop(initproc, t)
      BY <2>3 DEF Wait, At
    <3> QED BY <2>1, <3>1, WaitLoopInv
  <2> QED BY <1>3, <2>2, <2>3 DEF InitCall
<1>4. ASSUME NEW p \in Procs, Call(p) PROVE ProcInv'
  <2>1. CASE \E uid \in {0, 1} : Fork(p, uid)
    BY <2>1, ForkStepInv
  <2>2. CASE \E t \in Procs, g \in Pids : Setpgid(p, t, g)
    BY <2>2, SetpgidInv
  <2>3. CASE \E t \in {WAIT_ANY, 0} : Wait(p, t)
    <3>1. PICK t \in {WAIT_ANY, 0} : Wait(p, t)
      BY <2>3
    <3>2. pc[p] = "user" /\ scan = NoScan /\ \E u : WaitLoop(p, u)
      BY <3>1 DEF Wait, At
    <3> QED BY <3>2, WaitLoopInv
  <2> QED BY <1>4, <2>1, <2>2, <2>3 DEF Call
<1>5. ASSUME NEW p \in Procs, Setsid(p) \/ (p # initproc /\ Exit(p)) PROVE ProcInv'
  <2>1. CASE Setsid(p)
    BY <2>1, SetsidInv
  <2>2. CASE p # initproc /\ Exit(p)
    <3>1. PidInv' /\ NumbersOK'
      BY <2>2, TableQuiet DEF PidInv
    <3> QED BY <2>2, <3>1, ExitLife DEF ProcInv
  <2> QED BY <1>5, <2>1, <2>2
<1>6. ASSUME NEW p \in Procs, ForkStep(p) \/ Zombie(p) PROVE ProcInv'
  <2>1. CASE ForkPid(p)
    BY <2>1, SearchInv
  <2>2. CASE ForkDone(p)
    <3>1. PidInv' /\ NumbersOK'
      BY <2>2, TableQuiet DEF PidInv
    <3> QED BY <2>2, <3>1, ForkDoneLife DEF ProcInv
  <2>3. CASE PpTest(p)
    BY <2>3, PpTestInv
  <2>4. CASE Zombie(p)
    <3>1. PidInv' /\ NumbersOK'
      BY <2>4, TableQuiet DEF PidInv
    <3> QED BY <2>4, <3>1, ZombieLife DEF ProcInv
  <2> QED BY <1>6, <2>1, <2>2, <2>3, <2>4 DEF ForkStep
<1>7. ASSUME NEW p \in Procs, WaitStep(p) \/ WaitSignal(p) PROVE ProcInv'
  <2>1. CASE WaitAgain(p)
    <3>1. pc[p] = "waitloop" /\ scan = NoScan /\ WaitLoop(p, arg[p])
      BY <2>1 DEF WaitAgain, At
    <3> QED BY <3>1, WaitLoopInv
  <2>2. CASE Reap(p)
    <3>1. PidInv' /\ NumbersOK'
      BY <2>2, TableQuiet DEF PidInv
    <3> QED BY <2>2, <3>1, ReapLife DEF ProcInv
  <2>3. CASE WaitSignal(p)
    BY <2>3, WaitSignalInv
  <2> QED BY <1>7, <2>1, <2>2, <2>3 DEF WaitStep
<1> QED BY <1>1, <1>2, <1>3, <1>4, <1>5, <1>6, <1>7 DEF Next

\* Numbers, parents and sleepers are right in every state.
LEMMA ProcInvariant == Spec => []ProcInv
<1>1. Init => ProcInv
  BY ProcInit, ProcConstants
<1>2. ProcInv /\ [Next]_vars => ProcInv'
  BY ProcStep, ProcConstants
<1> QED BY <1>1, <1>2, PTL DEF Spec

-----------------------------------------------------------------------------
(* The counts *)

GroupIds    == {pgid[p] : p \in used}
Counted(g)  == {q \in members(g) : Qualifies(q)}
GroupsOf(s) == {g \in GroupIds : pg_session[g] = s}

GroupTypes == /\ pg_session \in [Pids -> Sessions \cup {None}] /\ pg_jobc \in [Pids -> Nat]
              /\ s_leader \in [Sessions -> Procs \cup {None}] /\ s_count \in [Sessions -> Nat]

\* A struct pgrp is there as long as it has members.
GroupsLive == /\ \A p \in used : pid[p] \in Pids /\ pgid[p] \in Pids
              /\ \A g \in Pids : pg_session[g] # None <=> g \in GroupIds
              /\ \A p \in Procs : pptr[p] # p

\* A group named after a process that is there is in the session of that process, though
\* the process may have left it: setpgid lets it come back without a check.
OwnGroup == \A p \in used : pid[p] \in GroupIds => pg_session[pid[p]] = session(p)

\* In the session of init there is no other group, so that a child qualifies no group
\* once init has inherited it.
InitsGroup == \A p \in used : session(p) = session(initproc) => pgid[p] = pgid[initproc]

CountsOK == \A g \in Pids : pg_jobc[g] = Cardinality(Counted(g))

CountInv == /\ GroupTypes /\ GroupsLive /\ OwnGroup /\ InitsGroup
            /\ CountsOK /\ SessionCount
            /\ nprocs = KernelProcs + Cardinality(used)

\* There are finitely many processes and numbers.
LEMMA FiniteParts ==
  ASSUME ProcConstants
  PROVE  \A S : S \subseteq Procs \/ S \subseteq Pids => IsFiniteSet(S) /\ Cardinality(S) \in Nat
<1>1. IsFiniteSet(Procs) /\ IsFiniteSet(Pids)
  BY FS_Interval DEF ProcConstants
<1>2. ASSUME NEW S, S \subseteq Procs \/ S \subseteq Pids PROVE IsFiniteSet(S)
  BY <1>1, <1>2, FS_Subset
<1> QED BY <1>2, FS_CardinalityType

\* What a set counts when some members leave it and others come.
LEMMA Exchange ==
  ASSUME NEW A, IsFiniteSet(A), NEW B, B \subseteq A, NEW C, IsFiniteSet(C), C \cap (A \ B) = {}
  PROVE  Cardinality((A \ B) \cup C) = Cardinality(A) - Cardinality(B) + Cardinality(C)
<1>1. IsFiniteSet(A \ B) /\ Cardinality(A \ B) = Cardinality(A) - Cardinality(A \cap B) /\ A \cap B = B
  BY FS_Difference
<1>2. (A \ B) \cap C = {} /\ Cardinality({}) = 0
  BY FS_EmptySet
<1>3. Cardinality((A \ B) \cup C) = Cardinality(A \ B) + Cardinality(C) - Cardinality((A \ B) \cap C)
  BY <1>1, FS_Union
<1>4. Cardinality(A) \in Nat /\ Cardinality(B) \in Nat /\ Cardinality(C) \in Nat
  BY FS_Subset, FS_CardinalityType
<1>5. Cardinality(A \ B) = Cardinality(A) - Cardinality(B)
  BY <1>1
<1>6. Cardinality((A \ B) \cup C) = Cardinality(A \ B) + Cardinality(C) - 0
  BY <1>2, <1>3
<1> QED BY <1>4, <1>5, <1>6

\* The table in terms of used, which all the counts are about.
LEMMA TableFacts ==
  ASSUME ProcConstants, ProcInv
  PROVE  /\ used \subseteq Procs /\ initproc \in used /\ pptr[initproc] = None
         /\ \A g : members(g) = {q \in used : pgid[q] = g}
         /\ \A p : children(p) = {q \in used : pptr[q] = p}
         /\ \A q \in used \ {initproc} : pptr[q] \in used /\ pptr[q] # None /\ stat[pptr[q]] # "SZOMB"
<1>1. LifeOK /\ ParentLives /\ NumbersOK /\ initproc \in Procs /\ None \notin Procs
  BY DEF ProcInv, LifeInv, ProcConstants
<1>2. stat[initproc] = "SRUN" /\ pptr[initproc] = None
  BY <1>1 DEF LifeOK
<1>3. used \subseteq Procs /\ initproc \in used
  BY <1>1, <1>2 DEF used, allproc, zombproc
<1>4. /\ \A g : members(g) = {q \in used : pgid[q] = g}
      /\ \A p : children(p) = {q \in used : pptr[q] = p}
  BY DEF members, children, used
<1>5. \A q \in used \ {initproc} : pptr[q] \in used /\ pptr[q] # None /\ stat[pptr[q]] # "SZOMB"
  BY <1>1 DEF ParentLives, used, allproc
<1> QED BY <1>2, <1>3, <1>4, <1>5

\* The numbers are the types that TypeOK asks for.
LEMMA CountTypes ==
  ASSUME ProcConstants, ProcInv, CountInv
  PROVE  TypeOK
<1>1. NumbersOK /\ LifeOK /\ GroupTypes /\ nprocs = KernelProcs + Cardinality(used)
  BY DEF ProcInv, LifeInv, CountInv
<1>2. Cardinality(used) \in Nat
  BY TableFacts, FiniteParts
<1>3. nprocs \in Nat
  BY <1>1, <1>2 DEF KernelProcs
<1>4. nextpid \in Pids /\ pidchecked \in 0 .. PID_MAX
  BY <1>1 DEF NumbersOK, ProcConstants
<1> QED BY <1>1, <1>3, <1>4 DEF TypeOK, NumbersOK, LifeOK, GroupTypes

\* Who is there and who is a zombie decides the counts, with groups and parents.
LEMMA CountsKeep ==
  ASSUME CountInv, used' = used, zombproc' = zombproc,
         UNCHANGED <<pid, pptr, group, nprocs>>
  PROVE  CountInv'
<1>1. /\ pid' = pid /\ pptr' = pptr /\ pgid' = pgid /\ pg_session' = pg_session
      /\ pg_jobc' = pg_jobc /\ s_leader' = s_leader /\ s_count' = s_count /\ nprocs' = nprocs
  BY DEF group
<1>2. GroupIds' = GroupIds
  BY <1>1 DEF GroupIds
<1>3. ASSUME NEW g PROVE Counted(g)' = Counted(g)
  <2>1. members(g)' = members(g) /\ members(g) \subseteq used /\ used \subseteq Procs
    BY <1>1 DEF members, used, allproc, zombproc
  <2>2. \A q \in used : stat[q] # "SZOMB" <=> stat'[q] # "SZOMB"
    BY <2>1 DEF zombproc
  <2>3. \A q \in members(g) : Qualifies(q)' <=> Qualifies(q)
    BY <1>1, <2>1, <2>2 DEF Qualifies, session
  <2> QED BY <2>1, <2>3 DEF Counted
<1>4. GroupTypes' /\ GroupsLive' /\ OwnGroup' /\ InitsGroup'
  BY <1>1, <1>2 DEF CountInv, GroupTypes, GroupsLive, OwnGroup, InitsGroup, session
<1>5. CountsOK'
  BY <1>1, <1>3 DEF CountInv, CountsOK
<1>6. SessionCount'
  BY <1>1 DEF CountInv, SessionCount
<1> QED BY <1>1, <1>4, <1>5, <1>6 DEF CountInv

\* A new process is in its parent's group: it qualifies none and makes none.
LEMMA ForkChildCounts ==
  ASSUME ProcConstants, ProcInv, CountInv, NEW v \in BOOLEAN, ForkChild(v)
  PROVE  CountInv'
<1> DEFINE p == scan.by
<1>1. PICK q \in Procs :
        /\ stat[q] = "free" /\ stat' = [stat EXCEPT ![q] = "SIDL"]
        /\ pid' = [pid EXCEPT ![q] = nextpid] /\ pptr' = [pptr EXCEPT ![q] = p]
        /\ pgid' = [pgid EXCEPT ![q] = pgid[p]]
  BY DEF ForkChild
<1>2. /\ pg_session' = pg_session /\ pg_jobc' = pg_jobc /\ s_leader' = s_leader
      /\ s_count' = s_count /\ nprocs' = nprocs + 1
      /\ p # None /\ scan.todo = {} /\ scan.doingzomb
  BY DEF ForkChild
<1>3. /\ stat \in [Procs -> Stats] /\ pid \in [Procs -> 0 .. PID_MAX - 1]
      /\ pgid \in [Procs -> 0 .. PID_MAX - 1] /\ pptr \in [Procs -> Procs \cup {None}]
      /\ p \in Procs /\ stat[p] = "SRUN"
  BY <1>2 DEF ProcInv, LifeInv, NumbersOK, LifeOK
<1>4. nextpid \in Pids \ UsedIds
  BY <1>2, SearchDone DEF ProcInv
<1>5. /\ used \subseteq Procs /\ used' = used \cup {q} /\ q \notin used /\ p \in used /\ p # q
  BY <1>1, <1>3 DEF used, allproc, zombproc, Stats
<1>6. /\ \A r \in used : pid'[r] = pid[r] /\ pgid'[r] = pgid[r] /\ pptr'[r] = pptr[r] /\ stat'[r] = stat[r]
      /\ pid'[q] = nextpid /\ pgid'[q] = pgid[p] /\ pptr'[q] = p
  BY <1>1, <1>3, <1>5
<1>7. GroupIds' = GroupIds
  BY <1>5, <1>6 DEF GroupIds
<1>8. /\ \A r \in used : session(r)' = session(r)
      /\ session(q)' = session(p)
  BY <1>2, <1>6 DEF session
<1> HIDE DEF p
<1>9. ASSUME NEW g PROVE Counted(g)' = Counted(g)
  <2>1. members(g)' = {r \in used' : pgid'[r] = g} /\ members(g) = {r \in used : pgid[r] = g}
    BY DEF members, used
  <2>2. ~Qualifies(q)'
    BY <1>5, <1>6 DEF Qualifies
  <2>3. ASSUME NEW r \in used PROVE Qualifies(r)' <=> Qualifies(r)
    <3>1. CASE r = initproc
      BY <3>1 DEF Qualifies
    <3>2. CASE r # initproc
      <4>1. pptr[r] \in used
        BY <3>2, TableFacts
      <4> QED BY <1>6, <1>8, <4>1 DEF Qualifies
    <3> QED BY <3>1, <3>2
  <2> QED BY <1>5, <1>6, <2>1, <2>2, <2>3 DEF Counted
<1>10. GroupTypes'
  BY <1>2 DEF CountInv, GroupTypes
<1>11. GroupsLive'
  BY <1>1, <1>2, <1>3, <1>4, <1>5, <1>6, <1>7 DEF CountInv, GroupsLive
<1>12. OwnGroup'
  <2>1. nextpid \notin GroupIds
    BY <1>4 DEF UsedIds, GroupIds
  <2> QED BY <1>2, <1>5, <1>6, <1>7, <1>8, <2>1 DEF CountInv, OwnGroup
<1>13. InitsGroup'
  BY <1>5, <1>6, <1>8, TableFacts DEF CountInv, InitsGroup
<1>14. CountsOK'
  BY <1>2, <1>9 DEF CountInv, CountsOK
<1>15. SessionCount'
  BY <1>2, <1>7 DEF CountInv, SessionCount, GroupIds
<1>16. nprocs' = KernelProcs + Cardinality(used')
  <2>1. Cardinality(used') = Cardinality(used) + 1 /\ Cardinality(used) \in Nat
    BY <1>5, FiniteParts, FS_AddElement
  <2> QED BY <1>2, <2>1 DEF CountInv, KernelProcs
<1> QED BY <1>10, <1>11, <1>12, <1>13, <1>14, <1>15, <1>16 DEF CountInv

\* exit1 takes from the groups what the process and its children counted for; the children
\* count for none as children of init.
LEMMA ZombieCounts ==
  ASSUME ProcConstants, ProcInv, CountInv, NEW p \in Procs, Zombie(p)
  PROVE  CountInv'
<1>1. /\ pc[p] = "exit" /\ stat' = [stat EXCEPT ![p] = "SZOMB"]
      /\ s_leader' \in {s_leader, [s_leader EXCEPT ![session(p)] = None]}
      /\ pg_jobc' = [h \in Pids |-> pg_jobc[h] - Share(p, pgid[p], session(p), h)]
      /\ pptr' = [q \in Procs |-> IF q \in Adopted(p) THEN initproc ELSE pptr[q]]
      /\ pid' = pid /\ pgid' = pgid /\ pg_session' = pg_session /\ s_count' = s_count
      /\ nprocs' = nprocs
  BY DEF Zombie, At
<1>2. /\ stat \in [Procs -> Stats] /\ pptr \in [Procs -> Procs \cup {None}]
      /\ stat[p] = "SRUN" /\ p # initproc /\ initproc \in Procs /\ None \notin Procs
  BY <1>1 DEF ProcInv, LifeInv, NumbersOK, LifeOK, ProcConstants
<1>3. used' = used /\ p \in used /\ used \subseteq Procs
  BY <1>1, <1>2 DEF used, allproc, zombproc
<1>4. GroupIds' = GroupIds
  BY <1>1, <1>3 DEF GroupIds
<1>5. \A q : session(q)' = session(q)
  BY <1>1 DEF session
<1> DEFINE A == Affected(p, pgid[p], session(p))
<1>6. \A q \in used : q \in A <=> Qualifies(q) /\ (q = p \/ pptr[q] = p)
  BY <1>2, <1>3, TableFacts DEF Affected, Qualifies, Differs, session, CountInv, GroupsLive
<1>7. A \subseteq used
  BY <1>3, TableFacts DEF Affected
<1>8. ASSUME NEW q \in used PROVE Qualifies(q)' <=> Qualifies(q) /\ q \notin A
  <2>1. CASE q = p
    BY <1>1, <1>2, <1>6, <2>1 DEF Qualifies
  <2>2. CASE q # p /\ pptr[q] = p
    <3>1. pptr'[q] = initproc
      BY <1>1, <1>3, <2>2, TableFacts DEF Adopted
    <3>2. ~Qualifies(q)'
      BY <1>1, <1>5, <3>1 DEF Qualifies, CountInv, InitsGroup
    <3> QED BY <1>6, <2>2, <3>2
  <2>3. CASE q # p /\ pptr[q] # p
    <3>1. pptr'[q] = pptr[q] /\ stat'[q] = stat[q]
      BY <1>1, <1>2, <1>3, <2>3, TableFacts DEF Adopted
    <3> QED BY <1>1, <1>5, <1>6, <2>3, <3>1 DEF Qualifies
  <2> QED BY <2>1, <2>2, <2>3
<1> HIDE DEF A
<1>9. ASSUME NEW h \in Pids PROVE pg_jobc'[h] = Cardinality(Counted(h)')
  <2> DEFINE B == {q \in A : h = IF q = p THEN pgid[p] ELSE pgid[q]}
  <2>1. B = {q \in A : pgid[q] = h}
    OBVIOUS
  <2>2. /\ Counted(h) = {q \in used : pgid[q] = h /\ Qualifies(q)}
        /\ Counted(h)' = {q \in used : pgid[q] = h /\ Qualifies(q)'}
    BY <1>1, <1>3 DEF Counted, members, used
  <2>3. Counted(h)' = (Counted(h) \ B) \cup {} /\ B \subseteq Counted(h)
    BY <1>6, <1>7, <1>8, <2>1, <2>2
  <2>4. IsFiniteSet(Counted(h)) /\ IsFiniteSet({}) /\ Cardinality({}) = 0
    BY <1>3, <2>2, FiniteParts, FS_EmptySet
  <2>5. /\ Cardinality(B) = Share(p, pgid[p], session(p), h) /\ Cardinality(B) \in Nat
        /\ pg_jobc[h] = Cardinality(Counted(h)) /\ pg_jobc[h] \in Nat
    <3>1. B \subseteq Procs
      BY <1>3, <1>7
    <3> QED BY <3>1, FiniteParts DEF Share, A, CountInv, CountsOK, GroupTypes
  <2>6. Cardinality(Counted(h)') = Cardinality(Counted(h)) - Cardinality(B) + Cardinality({})
    <3>1. {} \cap (Counted(h) \ B) = {}
      OBVIOUS
    <3> HIDE DEF B
    <3> QED BY <2>3, <2>4, <3>1, Exchange
  <2>7. pg_jobc'[h] = pg_jobc[h] - Share(p, pgid[p], session(p), h)
    BY <1>1
  <2> QED BY <2>4, <2>5, <2>6, <2>7
<1>10. CountsOK'
  BY <1>9 DEF CountsOK
<1>11. GroupTypes'
  <2>1. \A h \in Pids : Cardinality(Counted(h)') \in Nat
    BY <1>3, FiniteParts DEF Counted, members, used
  <2>2. pg_jobc' \in [Pids -> Nat]
    BY <1>1, <1>9, <2>1
  <2> QED BY <1>1, <2>2 DEF CountInv, GroupTypes
<1>12. GroupsLive'
  <2>1. \A q \in Procs : pptr'[q] # q
    BY <1>1, <1>2, TableFacts DEF CountInv, GroupsLive, Adopted
  <2> QED BY <1>1, <1>3, <1>4, <2>1 DEF CountInv, GroupsLive
<1>13. OwnGroup' /\ InitsGroup'
  BY <1>1, <1>3, <1>4, <1>5 DEF CountInv, OwnGroup, InitsGroup
<1>14. SessionCount'
  BY <1>1, <1>4 DEF CountInv, SessionCount, GroupIds
<1> QED BY <1>1, <1>3, <1>10, <1>11, <1>12, <1>13, <1>14 DEF CountInv

\* A zombie counts for no group; it takes its group along if it is the last member.
LEMMA ReapCounts ==
  ASSUME ProcConstants, ProcInv, CountInv, NEW p \in Procs, Reap(p)
  PROVE  CountInv'
<1> DEFINE z    == arg[p]
           g    == pgid[z]
           last == Remaining(z, g) = {}
<1>1. /\ pc[p] = "reap" /\ stat' = [stat EXCEPT ![z] = "free"]
      /\ pid' = [pid EXCEPT ![z] = 0] /\ pptr' = [pptr EXCEPT ![z] = None]
      /\ pgid' = [pgid EXCEPT ![z] = 0]
      /\ pg_session' = [pg_session EXCEPT ![g] = IF last THEN None ELSE @]
      /\ pg_jobc' = [pg_jobc EXCEPT ![g] = IF last THEN 0 ELSE @]
      /\ s_count' = [s_count EXCEPT ![session(z)] = IF last THEN @ - 1 ELSE @]
      /\ s_leader' = s_leader /\ nprocs' = nprocs - 1
  BY DEF Reap, At, leavepgrp
<1>2. /\ stat \in [Procs -> Stats] /\ pid \in [Procs -> 0 .. PID_MAX - 1]
      /\ pgid \in [Procs -> 0 .. PID_MAX - 1] /\ pptr \in [Procs -> Procs \cup {None}]
      /\ z \in Procs /\ stat[z] = "SZOMB"
  BY <1>1 DEF ProcInv, LifeInv, NumbersOK, LifeOK
<1>3. /\ used \subseteq Procs /\ used' = used \ {z} /\ z \in used /\ z # initproc
  <2>1. stat[initproc] = "SRUN"
    BY DEF ProcInv, LifeInv, LifeOK, ProcConstants
  <2> QED BY <1>1, <1>2, <2>1 DEF used, allproc, zombproc, Stats
<1>4. \A q \in used' : pid'[q] = pid[q] /\ pgid'[q] = pgid[q] /\ pptr'[q] = pptr[q] /\ stat'[q] = stat[q]
  BY <1>1, <1>2, <1>3
<1>5. g \in Pids /\ session(z) \in Sessions /\ last \in BOOLEAN
  BY <1>3 DEF CountInv, GroupsLive, GroupTypes, GroupIds, session
<1>6. last <=> \A q \in used' : pgid[q] # g
  BY <1>3, TableFacts DEF Remaining
<1> HIDE DEF last
<1>7. GroupIds' = IF last THEN GroupIds \ {g} ELSE GroupIds
  BY <1>3, <1>4, <1>6 DEF GroupIds
<1>8. \A q \in used' : pg_session'[pgid[q]] = pg_session[pgid[q]] /\ session(q)' = session(q)
  BY <1>1, <1>3, <1>4, <1>5, <1>6 DEF session, CountInv, GroupTypes, GroupsLive
<1>9. ASSUME NEW h PROVE Counted(h)' = Counted(h)
  <2>1. members(h)' = {r \in used' : pgid'[r] = h} /\ members(h) = {r \in used : pgid[r] = h}
    BY DEF members, used
  <2>2. ~Qualifies(z)
    BY <1>2 DEF Qualifies
  <2>3. ASSUME NEW r \in used' PROVE Qualifies(r)' <=> Qualifies(r)
    <3>1. CASE r = initproc
      BY <3>1 DEF Qualifies
    <3>2. CASE r # initproc
      <4>1. pptr[r] \in used'
        BY <1>2, <1>3, <3>2, TableFacts
      <4> QED BY <1>4, <1>8, <4>1 DEF Qualifies
    <3> QED BY <3>1, <3>2
  <2> QED BY <1>3, <1>4, <2>1, <2>2, <2>3 DEF Counted
<1>10. CountsOK'
  <2> SUFFICES ASSUME NEW h \in Pids PROVE pg_jobc'[h] = Cardinality(Counted(h))
    BY <1>9 DEF CountsOK
  <2>1. CASE h = g /\ last
    <3>1. Counted(h)' = {}
      BY <1>4, <1>6, <2>1 DEF Counted, members, used
    <3> QED BY <1>1, <1>5, <1>9, <2>1, <3>1, FS_EmptySet DEF CountInv, GroupTypes
  <2>2. CASE ~(h = g /\ last)
    BY <1>1, <1>5, <2>2 DEF CountInv, CountsOK, GroupTypes
  <2> QED BY <2>1, <2>2
<1>11. SessionCount'
  <2> SUFFICES ASSUME NEW s \in Sessions PROVE s_count'[s] = Cardinality(GroupsOf(s)')
    BY DEF SessionCount, GroupsOf, GroupIds
  <2>1. /\ s_count \in [Sessions -> Nat] /\ s_count[s] = Cardinality(GroupsOf(s))
        /\ GroupIds \subseteq Pids
    BY DEF CountInv, GroupTypes, GroupsLive, SessionCount, GroupsOf, GroupIds
  <2>2. IsFiniteSet(GroupsOf(s))
    BY <2>1, FiniteParts DEF GroupsOf
  <2>3. GroupsOf(s)' = IF last /\ s = session(z) THEN GroupsOf(s) \ {g} ELSE GroupsOf(s)
    BY <1>1, <1>5, <1>7, <2>1 DEF GroupsOf, session, CountInv, GroupTypes
  <2>4. s = session(z) => g \in GroupsOf(s)
    BY <1>3 DEF GroupsOf, GroupIds, session
  <2>5. CASE last /\ s = session(z)
    <3>1. Cardinality(GroupsOf(s) \ {g}) = Cardinality(GroupsOf(s)) - 1
      BY <2>2, <2>4, <2>5, FS_RemoveElement
    <3>2. s_count'[s] = s_count[s] - 1
      BY <1>1, <2>1, <2>5
    <3> QED BY <2>1, <2>3, <2>5, <3>1, <3>2
  <2>6. CASE ~(last /\ s = session(z))
    BY <1>1, <1>5, <2>1, <2>3, <2>6
  <2> QED BY <2>5, <2>6
<1>12. GroupTypes'
  <2>1. \A s \in Sessions : s_count'[s] \in Nat
    <3>1. GroupIds' \subseteq Pids
      BY <1>7 DEF CountInv, GroupsLive, GroupIds
    <3>2. \A s : GroupsOf(s)' \subseteq Pids
      BY <3>1 DEF GroupsOf
    <3>3. \A s \in Sessions : s_count'[s] = Cardinality(GroupsOf(s)')
      BY <1>11 DEF SessionCount, GroupsOf, GroupIds
    <3> QED BY <3>2, <3>3, FiniteParts
  <2>2. s_count' \in [Sessions -> Nat]
    BY <1>1, <2>1 DEF CountInv, GroupTypes
  <2> QED BY <1>1, <2>2 DEF CountInv, GroupTypes
<1>13. GroupsLive'
  <2>1. \A q \in used' : pid'[q] \in Pids /\ pgid'[q] \in Pids
    BY <1>3, <1>4 DEF CountInv, GroupsLive
  <2>2. \A h \in Pids : pg_session'[h] # None <=> h \in GroupIds'
    BY <1>1, <1>5, <1>7 DEF CountInv, GroupsLive, GroupTypes
  <2>3. \A q \in Procs : pptr'[q] # q
    BY <1>1, <1>2 DEF CountInv, GroupsLive, ProcConstants
  <2> QED BY <2>1, <2>2, <2>3 DEF GroupsLive
<1>14. OwnGroup'
  <2> SUFFICES ASSUME NEW q \in used', pid'[q] \in GroupIds' PROVE pg_session'[pid'[q]] = session(q)'
    BY DEF OwnGroup
  <2>1. q \in used /\ pid'[q] = pid[q] /\ pid[q] \in GroupIds /\ ~(last /\ pid[q] = g)
    BY <1>3, <1>4, <1>7
  <2>2. pg_session[pid[q]] = session(q)
    BY <2>1 DEF CountInv, OwnGroup
  <2>3. pid[q] \in Pids
    BY <2>1 DEF CountInv, GroupsLive
  <2>4. pg_session'[pid[q]] = pg_session[pid[q]]
    BY <1>1, <1>5, <2>1, <2>3 DEF CountInv, GroupTypes
  <2> QED BY <1>8, <2>1, <2>2, <2>4
<1>15. InitsGroup'
  BY <1>3, <1>4, <1>8, TableFacts DEF CountInv, InitsGroup
<1>16. nprocs' = KernelProcs + Cardinality(used')
  <2>1. Cardinality(used') = Cardinality(used) - 1 /\ Cardinality(used) \in Nat
    BY <1>3, FiniteParts, FS_RemoveElement
  <2> QED BY <1>1, <2>1 DEF CountInv, KernelProcs
<1> QED BY <1>10, <1>11, <1>12, <1>13, <1>14, <1>15, <1>16 DEF CountInv

\* A process changes groups: in its group, and among its children's, exactly those gain and
\* lose that fixjobc says.  Whoever calls it has checked that a group which is there already
\* belongs to the session, except for the group named after p, for which OwnGroup holds.
LEMMA EnterCounts ==
  ASSUME ProcConstants, ProcInv, CountInv, NEW p \in allproc, p # initproc,
         NEW g \in Pids, g # pgid[p], g = pid[p] \/ g \in GroupIds, NEW sess \in Sessions,
         g \in GroupIds => pg_session[g] = sess,
         sess # session(initproc),
         g = pid[p] \/ sess = session(p),
         enterpgrp(p, g, sess), UNCHANGED <<entry, nprocs>>,
         s_leader' \in [Sessions -> Procs \cup {None}]
  PROVE  CountInv'
<1> DEFINE old  == pgid[p]
           last == Remaining(p, old) = {}
           new  == members(g) = {}
<1>1. /\ stat' = stat /\ pid' = pid /\ pptr' = pptr /\ nprocs' = nprocs
  BY DEF entry
<1>2. /\ pgid \in [Procs -> 0 .. PID_MAX - 1] /\ used' = used /\ used \subseteq Procs
      /\ p \in used /\ stat[p] # "SZOMB" /\ pptr[p] # None
      /\ GroupTypes /\ GroupsLive
  <2>1. used' = used /\ p \in used /\ stat[p] # "SZOMB"
    BY <1>1 DEF used, allproc, zombproc
  <2> QED BY <2>1, TableFacts DEF ProcInv, PidInv, NumbersOK, CountInv
<1>3. /\ old \in Pids /\ old # g /\ old \in GroupIds /\ session(p) \in Sessions
      /\ pg_session[old] = session(p)
  BY <1>2 DEF GroupsLive, GroupTypes, GroupIds, session
<1>4. /\ last <=> \A q \in used \ {p} : pgid[q] # old
      /\ new <=> g \notin GroupIds
  <2>1. \A h : members(h) = {q \in used : pgid[q] = h}
    BY TableFacts
  <2>2. Remaining(p, old) = {q \in used \ {p} : pgid[q] = old}
    BY <2>1 DEF Remaining
  <2>3. members(g) = {q \in used : pgid[q] = g}
    BY <2>1
  <2> QED BY <2>2, <2>3 DEF GroupIds
<1>5. /\ pgid' = [pgid EXCEPT ![p] = g]
      /\ pg_session' = [pg_session EXCEPT ![g] = sess, ![old] = IF last THEN None ELSE @]
      /\ pg_jobc' = [h \in Pids |-> IF h = old /\ last THEN 0 ELSE
            pg_jobc[h] + Share(p, g, sess, h) - Share(p, old, session(p), h)]
      /\ s_count' = [[s_count EXCEPT ![sess] = IF new THEN @ + 1 ELSE @]
                       EXCEPT ![session(p)] = IF last THEN @ - 1 ELSE @]
  BY DEF enterpgrp
<1> HIDE DEF last, new
<1>6. pgid'[p] = g /\ \A q \in used \ {p} : pgid'[q] = pgid[q]
  BY <1>2, <1>5
<1>7. GroupIds' = (GroupIds \cup {g}) \ (IF last THEN {old} ELSE {})
  BY <1>2, <1>3, <1>4, <1>6 DEF GroupIds
<1>8. \A h \in Pids : pg_session'[h] =
        IF h = g THEN sess ELSE IF h = old /\ last THEN None ELSE pg_session[h]
  BY <1>2, <1>3, <1>5 DEF GroupTypes
<1>9. \A q \in used \ {p} : /\ pgid[q] \in Pids /\ pg_session'[pgid[q]] = pg_session[pgid[q]]
                            /\ session(q)' = session(q)
  <2> SUFFICES ASSUME NEW q \in used \ {p}
               PROVE  /\ pgid[q] \in Pids /\ pg_session'[pgid[q]] = pg_session[pgid[q]]
                      /\ session(q)' = session(q)
    OBVIOUS
  <2>1. pgid[q] \in Pids /\ pgid[q] \in GroupIds
    BY <1>2 DEF GroupsLive, GroupIds
  <2>2. ~(pgid[q] = old /\ last)
    BY <1>4
  <2>3. pg_session'[pgid[q]] = pg_session[pgid[q]]
    BY <1>8, <2>1, <2>2
  <2> QED BY <1>6, <2>1, <2>3 DEF session
<1>10. session(p)' = sess
  BY <1>6, <1>8 DEF session
<1> DEFINE Lost   == Affected(p, old, session(p))
           Gained == Affected(p, g, sess)
           Near(q) == q = p \/ pptr[q] = p
<1>11. \A q \in used : q \in Lost <=> Qualifies(q) /\ Near(q)
  BY <1>2, TableFacts DEF Affected, Qualifies, Differs, session, GroupsLive
<1>12. ASSUME NEW q \in used PROVE q \in Gained <=> Qualifies(q)' /\ Near(q)
  <2>1. CASE q = p
    <3>1. pptr[p] \in used \ {p}
      BY <1>2, TableFacts DEF GroupsLive
    <3>2. Qualifies(p)' <=> pgid[pptr[p]] # g /\ pg_session[pgid[pptr[p]]] = sess
      BY <1>1, <1>2, <1>6, <1>9, <1>10, <3>1 DEF Qualifies, session
    <3>3. p \in Gained <=> pgid[pptr[p]] # g /\ pg_session[pgid[pptr[p]]] = sess
      BY <1>2, TableFacts DEF Affected, Differs, GroupsLive
    <3> QED BY <2>1, <3>2, <3>3
  <2>2. CASE q # p /\ pptr[q] = p
    <3>1. q # initproc
      BY <1>2, <2>2, TableFacts
    <3>2. Qualifies(q)' <=> stat[q] # "SZOMB" /\ g # pgid[q] /\ sess = pg_session[pgid[q]]
      BY <1>1, <1>6, <1>9, <1>10, <2>2, <3>1 DEF Qualifies, session
    <3>3. q \in Gained <=> stat[q] # "SZOMB" /\ g # pgid[q] /\ sess = pg_session[pgid[q]]
      BY <2>2, TableFacts DEF Affected, Differs
    <3> QED BY <2>2, <3>2, <3>3
  <2>3. CASE ~Near(q)
    BY <2>3, TableFacts DEF Affected
  <2> QED BY <2>1, <2>2, <2>3
<1>13. ASSUME NEW q \in used, ~Near(q) PROVE Qualifies(q)' <=> Qualifies(q)
  <2>1. CASE q = initproc
    BY <2>1 DEF Qualifies
  <2>2. CASE q # initproc
    <3>1. pptr[q] \in used \ {p} /\ q \in used \ {p}
      BY <1>13, <2>2, TableFacts
    <3> QED BY <1>1, <1>6, <1>9, <3>1 DEF Qualifies
  <2> QED BY <2>1, <2>2
<1>14. Lost \subseteq used /\ Gained \subseteq used
  BY <1>2, TableFacts DEF Affected
<1> HIDE DEF Lost, Gained
<1>15. ASSUME NEW h \in Pids, ~(h = old /\ last)
       PROVE  pg_jobc'[h] = Cardinality(Counted(h)')
  <2> DEFINE A == Counted(h)
             B == {q \in Lost : h = IF q = p THEN old ELSE pgid[q]}
             C == {q \in Gained : h = IF q = p THEN g ELSE pgid[q]}
  <2>1. /\ A = {q \in used : pgid[q] = h /\ Qualifies(q)}
        /\ Counted(h)' = {q \in used : pgid'[q] = h /\ Qualifies(q)'}
    BY <1>2 DEF Counted, members, used
  <2>2. B = {q \in Lost : pgid[q] = h} /\ C = {q \in Gained : pgid'[q] = h}
    BY <1>6, <1>14
  <2>3. \A q \in B : q \in A /\ Near(q)
    BY <1>11, <1>14, <2>1, <2>2
  <2>4. \A q \in A : Near(q) => q \in B
    BY <1>11, <2>1, <2>2
  <2>5. \A q \in C : q \in used /\ Near(q) /\ pgid'[q] = h /\ Qualifies(q)'
    BY <1>12, <1>14, <2>2
  <2>6. \A q \in used : Near(q) /\ pgid'[q] = h /\ Qualifies(q)' => q \in C
    BY <1>12, <2>2
  <2>7. \A q \in used : ~Near(q) => (q \in A <=> pgid'[q] = h /\ Qualifies(q)')
    BY <1>6, <1>13, <2>1
  <2> HIDE DEF B, C
  <2>8. A \subseteq used
    BY <2>1
  <2> HIDE DEF A, Near
  <2>9. Counted(h)' = (A \ B) \cup C /\ B \subseteq A /\ C \cap (A \ B) = {}
    BY <2>1, <2>3, <2>4, <2>5, <2>6, <2>7, <2>8
  <2>10. /\ IsFiniteSet(A) /\ IsFiniteSet(C)
         /\ Cardinality(A) \in Nat /\ Cardinality(B) \in Nat /\ Cardinality(C) \in Nat
    <3>1. A \subseteq Procs /\ B \subseteq Procs /\ C \subseteq Procs
      BY <1>2, <2>5, <2>8, <2>9
    <3> QED BY <3>1, FiniteParts
  <2>11. Cardinality(Counted(h)') = Cardinality(A) - Cardinality(B) + Cardinality(C)
    BY <2>9, <2>10, Exchange
  <2>12. /\ Share(p, g, sess, h) = Cardinality(C) /\ Share(p, old, session(p), h) = Cardinality(B)
         /\ pg_jobc[h] = Cardinality(A)
    BY DEF Share, Gained, Lost, A, B, C, CountInv, CountsOK
  <2>13. pg_jobc'[h] = pg_jobc[h] + Share(p, g, sess, h) - Share(p, old, session(p), h)
    BY <1>5, <1>15
  <2> QED BY <2>10, <2>11, <2>12, <2>13
<1>16. CountsOK'
  <2>1. ASSUME NEW h \in Pids, h = old, last PROVE pg_jobc'[h] = Cardinality(Counted(h)')
    <3>1. \A q \in used' : pgid'[q] # h
      BY <1>2, <1>3, <1>4, <1>6, <2>1
    <3>2. Counted(h)' = {}
      BY <3>1 DEF Counted, members, used
    <3> QED BY <1>5, <2>1, <3>2, FS_EmptySet
  <2> QED BY <1>15, <2>1 DEF CountsOK
<1>17. GroupIds \subseteq Pids /\ GroupIds' \subseteq Pids
  <2>1. GroupIds \subseteq Pids
    BY <1>2 DEF GroupsLive, GroupIds
  <2> QED BY <1>7, <2>1
<1>18. SessionCount'
  <2> SUFFICES ASSUME NEW s \in Sessions PROVE s_count'[s] = Cardinality(GroupsOf(s)')
    BY DEF SessionCount, GroupsOf, GroupIds
  <2> DEFINE B == IF last /\ s = session(p) THEN {old} ELSE {}
             C == IF new /\ s = sess THEN {g} ELSE {}
  <2>1. /\ s_count \in [Sessions -> Nat] /\ s_count[s] = Cardinality(GroupsOf(s))
    BY <1>2 DEF CountInv, GroupTypes, SessionCount, GroupsOf, GroupIds
  <2>2. IsFiniteSet(GroupsOf(s))
    BY <1>17, FiniteParts DEF GroupsOf
  <2>3. GroupsOf(s)' = (GroupsOf(s) \ B) \cup C
    BY <1>3, <1>4, <1>7, <1>8, <1>17 DEF GroupsOf
  <2>4. B \subseteq GroupsOf(s) /\ C \cap (GroupsOf(s) \ B) = {} /\ IsFiniteSet(C)
    BY <1>3, <1>4, FS_EmptySet, FS_Singleton DEF GroupsOf
  <2>5. /\ Cardinality(B) = IF last /\ s = session(p) THEN 1 ELSE 0
        /\ Cardinality(C) = IF new /\ s = sess THEN 1 ELSE 0
    BY FS_EmptySet, FS_Singleton
  <2>6. s_count'[s] = s_count[s] + (IF new /\ s = sess THEN 1 ELSE 0)
                                 - (IF last /\ s = session(p) THEN 1 ELSE 0)
    BY <1>3, <1>5, <2>1
  <2> HIDE DEF B, C
  <2>7. Cardinality(GroupsOf(s)') = Cardinality(GroupsOf(s)) - Cardinality(B) + Cardinality(C)
    BY <2>2, <2>3, <2>4, Exchange
  <2> QED BY <2>1, <2>5, <2>6, <2>7
<1>19. GroupTypes'
  <2>1. \A h \in Pids : Cardinality(Counted(h)') \in Nat
    <3>1. \A h : Counted(h)' \subseteq Procs
      BY <1>2 DEF Counted, members, used
    <3> QED BY <3>1, FiniteParts
  <2>2. \A s \in Sessions : Cardinality(GroupsOf(s)') \in Nat
    <3>1. \A s : GroupsOf(s)' \subseteq Pids
      BY <1>17 DEF GroupsOf
    <3> QED BY <3>1, FiniteParts
  <2>3. \A s \in Sessions : s_count'[s] = Cardinality(GroupsOf(s)')
    BY <1>18 DEF SessionCount, GroupsOf, GroupIds
  <2>4. pg_jobc' \in [Pids -> Nat]
    BY <1>5, <1>16, <2>1 DEF CountsOK
  <2>5. s_count' \in [Sessions -> Nat]
    <3>1. s_count' = [s \in Sessions |-> s_count'[s]]
      BY <1>2, <1>5 DEF GroupTypes
    <3> QED BY <2>2, <2>3, <3>1
  <2>6. pg_session' \in [Pids -> Sessions \cup {None}]
    BY <1>2, <1>3, <1>5 DEF GroupTypes
  <2> QED BY <2>4, <2>5, <2>6 DEF GroupTypes
<1>20. GroupsLive'
  <2>1. \A q \in used' : pid'[q] \in Pids /\ pgid'[q] \in Pids
    BY <1>1, <1>2, <1>6, <1>9 DEF GroupsLive
  <2>2. \A h \in Pids : pg_session'[h] # None <=> h \in GroupIds'
    BY <1>2, <1>3, <1>7, <1>8 DEF GroupsLive, ProcConstants
  <2> QED BY <1>1, <1>2, <2>1, <2>2 DEF GroupsLive
<1>21. OwnGroup'
  <2> SUFFICES ASSUME NEW q \in used, pid[q] \in GroupIds' PROVE pg_session'[pid[q]] = session(q)'
    BY <1>1, <1>2 DEF OwnGroup
  <2>1. pid[q] \in Pids
    BY <1>2 DEF GroupsLive
  <2>2. CASE q = p /\ pid[p] = g
    BY <1>8, <1>10, <2>2
  <2>3. CASE q # p /\ pid[q] = g
    <3>1. g \in GroupIds
      BY <1>2, <2>3 DEF ProcInv, PidInv, PidsUnique
    <3>2. sess = session(q)
      BY <2>3, <3>1 DEF CountInv, OwnGroup
    <3> QED BY <1>8, <1>9, <2>3, <3>2
  <2>4. CASE pid[q] # g
    <3>1. pid[q] \in GroupIds /\ ~(last /\ pid[q] = old)
      BY <1>7, <2>4
    <3>2. pg_session'[pid[q]] = session(q)
      BY <1>8, <2>1, <2>4, <3>1 DEF CountInv, OwnGroup
    <3>3. session(q)' = session(q)
      BY <1>9, <1>10, <2>4
    <3> QED BY <3>2, <3>3
  <2> QED BY <2>2, <2>3, <2>4
<1>22. InitsGroup'
  <2>1. initproc \in used \ {p}
    BY TableFacts
  <2> QED BY <1>2, <1>6, <1>9, <1>10, <2>1 DEF CountInv, InitsGroup
<1> QED BY <1>1, <1>2, <1>16, <1>18, <1>19, <1>20, <1>21, <1>22 DEF CountInv

\* setsid: the new session has no group, so it is not init's.
LEMMA SetsidCounts ==
  ASSUME ProcConstants, ProcInv, CountInv, NEW p \in Procs, p # initproc, Setsid(p)
  PROVE  CountInv'
<1>1. PICK s \in Sessions : /\ s_count[s] = 0 /\ enterpgrp(p, pid[p], s)
                            /\ s_leader' = [s_leader EXCEPT ![s] = p]
  BY DEF Setsid
<1>2. /\ pc[p] = "user" /\ pgid[p] # pid[p] /\ members(pid[p]) = {}
      /\ UNCHANGED <<entry, nprocs>>
  BY DEF Setsid, At
<1>3. p \in allproc /\ p \in used
  BY <1>2 DEF ProcInv, LifeInv, LifeOK, allproc, used
<1>4. pid[p] \in Pids /\ pid[p] \notin GroupIds
  BY <1>2, <1>3, TableFacts DEF CountInv, GroupsLive, GroupIds
<1>5. s # session(initproc)
  <2>1. pgid[initproc] \in GroupIds
    BY TableFacts DEF GroupIds
  <2>2. IsFiniteSet(GroupsOf(s)) /\ Cardinality(GroupsOf(s)) = 0
    <3>1. GroupsOf(s) \subseteq Pids
      BY DEF CountInv, GroupsLive, GroupsOf, GroupIds
    <3> QED BY <1>1, <3>1, FiniteParts DEF CountInv, SessionCount, GroupsOf, GroupIds
  <2>3. GroupsOf(s) = {}
    BY <2>2, FS_EmptySet
  <2> QED BY <2>1, <2>3 DEF GroupsOf, session
<1>6. s_leader' \in [Sessions -> Procs \cup {None}]
  BY <1>1 DEF CountInv, GroupTypes
<1> QED BY <1>1, <1>2, <1>3, <1>4, <1>5, <1>6, EnterCounts

\* setpgid: a process moves within its session, which is not init's.
LEMMA SetpgidCounts ==
  ASSUME ProcConstants, ProcInv, CountInv, NEW c \in Procs, LoggedIn(c),
         NEW t \in Procs, NEW g \in Pids, Setpgid(c, t, g)
  PROVE  CountInv'
<1>1. /\ t \in allproc /\ session(t) = session(c) /\ session(c) # session(initproc)
      /\ g # pid[t] => members(g) # {} /\ pg_session[g] = session(c)
      /\ g # pgid[t] /\ enterpgrp(t, g, session(t)) /\ s_leader' = s_leader
      /\ UNCHANGED <<entry, nprocs>>
  BY DEF Setpgid, LoggedIn
<1>2. t # initproc /\ t \in used
  BY <1>1 DEF used
<1>3. session(t) \in Sessions
  BY <1>2 DEF CountInv, GroupsLive, GroupTypes, GroupIds, session
<1>4. /\ g = pid[t] \/ g \in GroupIds
      /\ g \in GroupIds => pg_session[g] = session(t)
  BY <1>1, <1>2, TableFacts DEF CountInv, OwnGroup, GroupIds
<1>5. s_leader' \in [Sessions -> Procs \cup {None}]
  BY <1>1 DEF CountInv, GroupTypes
<1> QED BY <1>1, <1>2, <1>3, <1>4, <1>5, EnterCounts

\* Nothing else changes a group, a parent or who is there.
LEMMA OtherCounts ==
  ASSUME ProcConstants, ProcInv, CountInv,
         \/ UNCHANGED <<entry, group, nprocs>>
         \/ \E p \in Procs : Exit(p) \/ ForkDone(p)
  PROVE  CountInv'
<1>1. CASE UNCHANGED <<entry, group, nprocs>>
  <2>1. used' = used /\ zombproc' = zombproc /\ UNCHANGED <<pid, pptr, group, nprocs>>
    BY <1>1 DEF entry, used, allproc, zombproc
  <2> QED BY <2>1, CountsKeep
<1>2. ASSUME NEW p \in Procs, Exit(p) PROVE CountInv'
  <2>1. used' = used /\ zombproc' = zombproc /\ UNCHANGED <<pid, pptr, group, nprocs>>
    BY <1>2 DEF Exit, used, allproc, zombproc
  <2> QED BY <2>1, CountsKeep
<1>3. ASSUME NEW p \in Procs, ForkDone(p) PROVE CountInv'
  <2>1. /\ pc[p] = "vmfork" /\ stat' = [stat EXCEPT ![arg[p]] = "SRUN"]
        /\ UNCHANGED <<pid, pptr, group, nprocs>>
    BY <1>3 DEF ForkDone, At
  <2>2. stat \in [Procs -> Stats] /\ arg[p] \in Procs /\ stat[arg[p]] = "SIDL"
    BY <2>1 DEF ProcInv, LifeInv, NumbersOK, LifeOK
  <2>3. used' = used /\ zombproc' = zombproc
    BY <2>1, <2>2 DEF used, allproc, zombproc
  <2> QED BY <2>1, <2>3, CountsKeep
<1> QED BY <1>1, <1>2, <1>3

\* At first there is init, in a group and a session of its own.
LEMMA CountInit ==
  ASSUME ProcConstants, Init
  PROVE  CountInv
<1>1. /\ initproc \in Procs /\ initproc # None /\ None \notin Procs \cup Sessions
      /\ PID_MAX \in Nat /\ 3 < PID_MAX /\ 1 \in Pids
  BY DEF ProcConstants
<1>2. /\ stat = [p \in Procs |-> IF p = initproc THEN "SRUN" ELSE "free"]
      /\ pid = [p \in Procs |-> IF p = initproc THEN 1 ELSE 0]
      /\ pgid = [p \in Procs |-> IF p = initproc THEN 1 ELSE 0]
      /\ pptr = [p \in Procs |-> None] /\ pg_jobc = [g \in Pids |-> 0]
      /\ nprocs = KernelProcs + 1
  BY DEF Init
<1>3. PICK s0 \in Sessions :
       /\ pg_session = [g \in Pids |-> IF g = 1 THEN s0 ELSE None]
       /\ s_leader = [s \in Sessions |-> IF s = s0 THEN initproc ELSE None]
       /\ s_count = [s \in Sessions |-> IF s = s0 THEN 1 ELSE 0]
  BY DEF Init
<1>4. used = {initproc}
  BY <1>1, <1>2 DEF used, allproc, zombproc
<1>5. GroupIds = {1} /\ pgid[initproc] = 1 /\ pid[initproc] = 1
  BY <1>1, <1>2, <1>4 DEF GroupIds
<1>6. GroupTypes
  BY <1>1, <1>2, <1>3 DEF GroupTypes
<1>7. GroupsLive
  BY <1>1, <1>2, <1>3, <1>4, <1>5 DEF GroupsLive
<1>8. OwnGroup /\ InitsGroup
  BY <1>4, <1>5 DEF OwnGroup, InitsGroup, session
<1>9. CountsOK
  <2>1. \A g : Counted(g) = {}
    BY <1>4 DEF Counted, members, used, Qualifies
  <2> QED BY <1>2, <2>1, FS_EmptySet DEF CountsOK
<1>10. SessionCount
  <2> SUFFICES ASSUME NEW s \in Sessions PROVE s_count[s] = Cardinality(GroupsOf(s))
    BY DEF SessionCount, GroupsOf, GroupIds
  <2>1. GroupsOf(s) = IF s = s0 THEN {1} ELSE {}
    BY <1>1, <1>3, <1>5 DEF GroupsOf
  <2> QED BY <1>3, <2>1, FS_EmptySet, FS_Singleton
<1>11. nprocs = KernelProcs + Cardinality(used)
  BY <1>2, <1>4, FS_Singleton
<1> QED BY <1>6, <1>7, <1>8, <1>9, <1>10, <1>11 DEF CountInv

\* Every action keeps the counts exact.
LEMMA CountStep ==
  ASSUME ProcConstants, ProcInv, CountInv, [Next]_vars
  PROVE  CountInv'
<1>1. CASE UNCHANGED vars
  BY <1>1, OtherCounts DEF vars
<1>2. CASE Scan
  <2>1. ASSUME NEW v \in BOOLEAN, ForkChild(v) PROVE CountInv'
    BY <2>1, ForkChildCounts
  <2> QED BY <1>2, <2>1, OtherCounts DEF Scan, ScanHit, ScanPast, ScanZombies
<1>3. CASE InitCall
  BY <1>3, OtherCounts DEF InitCall, Fork, Wait, WaitLoop
<1>4. ASSUME NEW p \in Procs, LoggedIn(p), Call(p) PROVE CountInv'
  <2>1. CASE \E uid \in {0, 1} : Fork(p, uid)
    BY <2>1, OtherCounts DEF Fork
  <2>2. CASE \E t \in Procs, g \in Pids : Setpgid(p, t, g)
    BY <1>4, <2>2, SetpgidCounts
  <2>3. CASE \E t \in {WAIT_ANY, 0} : Wait(p, t)
    BY <2>3, OtherCounts DEF Wait, WaitLoop
  <2> QED BY <1>4, <2>1, <2>2, <2>3 DEF Call
<1>5. ASSUME NEW p \in Procs, p # initproc /\ (Setsid(p) \/ Exit(p)) PROVE CountInv'
  BY <1>5, SetsidCounts, OtherCounts
<1>6. ASSUME NEW p \in Procs, ForkStep(p) \/ Zombie(p) PROVE CountInv'
  <2>1. CASE ForkPid(p) \/ PpTest(p)
    BY <2>1, OtherCounts DEF ForkPid, PpTest
  <2> QED BY <1>6, <2>1, OtherCounts, ZombieCounts DEF ForkStep
<1>7. ASSUME NEW p \in Procs, WaitStep(p) \/ WaitSignal(p) PROVE CountInv'
  <2>1. CASE WaitAgain(p) \/ WaitSignal(p)
    BY <2>1, OtherCounts DEF WaitAgain, WaitLoop, WaitSignal
  <2> QED BY <1>7, <2>1, ReapCounts DEF WaitStep
<1> QED BY <1>1, <1>2, <1>3, <1>4, <1>5, <1>6, <1>7 DEF Next

\* The counts are exact in every state.
LEMMA CountInvariant == Spec => []CountInv
<1>1. Init => CountInv
  BY CountInit, ProcConstants
<1>2. ProcInv /\ CountInv /\ [Next]_vars => CountInv'
  BY CountStep, ProcConstants
<1> QED BY <1>1, <1>2, ProcInvariant, PTL DEF Spec

-----------------------------------------------------------------------------
(* The theorems *)

\* The range fork1 caches between two calls, nextpid + 1 through pidchecked - 1, has
\* no number in use, whatever processes, zombies and groups there are.
THEOREM ProcRangeIsFree == Spec => []RangeIsFree
<1>1. ProcInv => RangeIsFree
  BY DEF ProcInv, PidInv
<1> QED BY <1>1, ProcInvariant, PTL

\* Processes and zombies have numbers of their own: what pfind and wait4 rely on.
THEOREM ProcPidsUnique == Spec => []PidsUnique
<1>1. ProcInv => PidsUnique
  BY DEF ProcInv, PidInv
<1> QED BY <1>1, ProcInvariant, PTL

\* The number fork1 gives to a new process is not that of a process, a zombie or
\* a process group.
THEOREM ProcFreshPid == Spec => FreshPid
<1> DEFINE Fresh == \A p \in Procs : stat[p] = "free" /\ stat'[p] = "SIDL" =>
                                       pid'[p] \in Pids \ UsedIds
<1>1. ProcInv /\ [Next]_vars => [Fresh]_vars
  <2> SUFFICES ASSUME ProcInv, Next PROVE Fresh
    OBVIOUS
  <2>0. NumbersOK /\ LifeOK /\ ProcConstants
    BY ProcConstants DEF ProcInv, LifeInv
  <2>1. ASSUME NEW v \in BOOLEAN, ForkChild(v) PROVE Fresh
    BY <2>0, <2>1, ForkChildPid DEF ProcInv
  <2>2. ASSUME stat' = stat PROVE Fresh
    BY <2>0, <2>2
  <2>3. ASSUME NEW q, NEW s \in {"SRUN", "SZOMB", "free"}, stat' = [stat EXCEPT ![q] = s]
        PROVE  Fresh
    BY <2>0, <2>3 DEF NumbersOK
  <2>4. CASE Scan
    BY <2>1, <2>2, <2>4 DEF Scan, ScanHit, ScanPast, ScanZombies, entry
  <2>5. CASE InitCall
    BY <2>2, <2>5 DEF InitCall, Fork, Wait, WaitLoop, entry
  <2>6. ASSUME NEW p \in Procs, Call(p) PROVE Fresh
    BY <2>2, <2>6 DEF Call, Fork, Setpgid, Wait, WaitLoop, entry
  <2>7. ASSUME NEW p \in Procs, Setsid(p) \/ Exit(p) \/ WaitSignal(p) PROVE Fresh
    BY <2>2, <2>7 DEF Setsid, Exit, WaitSignal, entry
  <2>8. ASSUME NEW p \in Procs, ForkStep(p) PROVE Fresh
    BY <2>2, <2>3, <2>8 DEF ForkStep, ForkPid, ForkDone, PpTest, entry
  <2>9. ASSUME NEW p \in Procs, WaitStep(p) \/ Zombie(p) PROVE Fresh
    BY <2>2, <2>3, <2>9 DEF WaitStep, WaitAgain, WaitLoop, Reap, Zombie, entry
  <2> QED BY <2>4, <2>5, <2>6, <2>7, <2>8, <2>9 DEF Next
<1>2. Spec => [][Fresh]_vars
  BY <1>1, ProcInvariant, PTL DEF Spec
<1> QED BY <1>2 DEF FreshPid

\* Type correctness of the process table, the numbers at their ends and the counts at 0
\* included.
THEOREM ProcTypes == Spec => []TypeOK
<1>1. ProcInv /\ CountInv => TypeOK
  BY CountTypes, ProcConstants
<1> QED BY <1>1, ProcInvariant, CountInvariant, PTL

\* pg_jobc is exact: however processes fork, change groups, exit and leave children to
\* init, what fixjobc adds and takes away sums up to the number of members with a parent
\* in another group of the session.
THEOREM ProcJobcExact == Spec => []JobcExact
<1>1. CountInv => JobcExact
  BY DEF CountInv, CountsOK, GroupsLive, Counted, JobcExact
<1> QED BY <1>1, CountInvariant, PTL

\* s_count is exact: a session goes with the last of its groups.
THEOREM ProcSessionCount == Spec => []SessionCount
<1>1. CountInv => SessionCount
  BY DEF CountInv
<1> QED BY <1>1, CountInvariant, PTL

\* exit1 leaves no child behind: the parent of a process or zombie other than init
\* is a process that has not become a zombie.
THEOREM ProcParentLives == Spec => []ParentLives
<1>1. ProcInv => ParentLives
  BY DEF ProcInv, LifeInv
<1> QED BY <1>1, ProcInvariant, PTL

\* No wakeup of exit1 is lost: nobody sleeps in wait1 with a zombie to collect, or in
\* vfork with a child that has finished exit1.
THEOREM ProcNoLostZombie == Spec => []NoLostZombie
<1>1. ProcInv => NoLostZombie
  BY DEF ProcInv, LifeInv
<1> QED BY <1>1, ProcInvariant, PTL

=============================================================================
