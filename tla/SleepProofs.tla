----------------------------- MODULE SleepProofs -----------------------------
(***************************************************************************)
(* Proofs about SleepQueue, for any number of processes and channels, any  *)
(* signals caught, held and pending, and any hash chains.                  *)
(***************************************************************************)
EXTENDS SleepQueue, TailQProofs, TLAPS

Proc == [stat : {"SRUN", "SSLEEP", "SSTOP", "SZOMB"}, wchan : AllChans \cup {None},
         onslp : BOOLEAN, onrun : BOOLEAN, inmem : BOOLEAN, sintr : BOOLEAN, tmout : BOOLEAN,
         callout : BOOLEAN, siglist : SUBSET Sigs,
         pc : {"kern", "issig", "stopping", "stopped", "slept", "resume", "return", "preempted",
               "scan", "gosleep", "swapin", "dead"},
         ctx : {"none", "before", "after", "user"}, catch : BOOLEAN, timo : BOOLEAN,
         sig : Sigs \cup {None}, taking : Sigs \cup {None},
         ret : {"none", "0", "EINTR", "EWOULDBLOCK"},
         pcatch : BOOLEAN, woken : BOOLEAN, expired : BOOLEAN]

Kernel == [proc : [AllProcs -> Proc], panicstr : {"none"}]

\* In issignal, called at one of the given places.
InIssignal(q, places) == q.pc \in {"issig", "stopping", "stopped"} /\ q.ctx \in places

\* In tsleep, up to the place where its timeout and P_SINTR are reset.
InSleep(q) == q.pc \in {"slept", "resume"} \/ InIssignal(q, {"before"})

\* Where p can be, when it has the CPU and when it has not; and whether it is on the run queue.
PlaceOK(p, q, cur) ==
  /\ p = cur => q.pc \in {"kern", "issig", "stopping", "resume", "return", "scan", "gosleep", "swapin"}
  /\ p # cur => q.pc \in {"kern", "preempted", "slept", "stopped", "dead", "scan"}
  /\ p = Proc0 <=> q.pc \in {"scan", "gosleep", "swapin"} \/ (p = Proc0 /\ q.pc = "slept")
  /\ q.pc \in {"issig", "stopping", "stopped"} => q.ctx # "none"
  /\ q.onrun <=> q.stat = "SRUN" /\ q.inmem /\ (p # cur \/ q.pc = "stopping")
  /\ p = cur => q.inmem

\* p_stat, and what goes with it.
StatOK(p, q) ==
  /\ q.pc \in {"kern", "issig", "resume", "return", "preempted", "scan", "gosleep", "swapin"}
       => q.stat = "SRUN"
  /\ q.pc = "stopping" => q.stat \in {"SRUN", "SSTOP"}
  /\ q.pc = "dead" <=> q.stat = "SZOMB"
  /\ q.stat = "SSLEEP" => q.wchan # None
  /\ q.stat = "SSTOP" /\ q.pc = "slept" => q.pcatch
  /\ p = Proc0 => q.stat \in {"SRUN", "SSLEEP"} /\ q.inmem /\ ~q.sintr /\ ~q.timo

\* p_wchan: set only in tsleep, and on a process that wakeup accepts, except for the current
\* one between its enqueueing and its mi_switch.
ChanOK(p, q) ==
  /\ q.onslp <=> q.wchan # None
  /\ q.wchan \in (IF p = Proc0 THEN {Proc0} ELSE Chans \cup {Selwait, p}) \cup {None}
  /\ q.wchan # None => q.pc = "slept" \/ InIssignal(q, {"before"})
  /\ q.wchan # None /\ q.pc # "issig" => q.stat \in {"SSLEEP", "SSTOP"}
  /\ q.wchan # None => ~q.woken /\ ~q.expired

\* The timeout, the signal and the result of this sleep.
SleepOK(p, q) ==
  /\ q.callout => q.timo /\ ~q.tmout
  /\ q.tmout => q.timo /\ q.expired /\ q.wchan = None
  /\ q.callout \/ q.tmout \/ q.sintr => InSleep(q)
  /\ ~(q.woken /\ q.expired)
  /\ q.catch \/ q.sig # None \/ q.sintr \/ InIssignal(q, {"before", "after"}) => q.pcatch
  /\ p # Proc0 /\ q.pc \in {"slept", "resume"} /\ q.wchan = None /\ ~q.pcatch => q.woken \/ q.tmout
  /\ q.pc = "return" => /\ q.ret = "EWOULDBLOCK" => q.expired /\ ~q.woken
                        /\ q.ret = "EINTR" => q.pcatch
                        /\ q.ret = "0" /\ ~q.pcatch => q.woken

OK(p, q, cur) == q \in Proc /\ PlaceOK(p, q, cur) /\ StatOK(p, q) /\ ChanOK(p, q) /\ SleepOK(p, q)

\* All is well with every process but those in X, whose step is under way.
AllOK(k, cur, X) == k \in Kernel /\ \A p \in AllProcs \ X : OK(p, k.proc[p], cur)

Inv == curproc \in AllProcs \cup {None} /\ AllOK(K, curproc, {})

-----------------------------------------------------------------------------
(* One process *)

\* What wakeup needs of a process on the hash chain it walks.
WakeOK(q) == q.onslp => ~q.onrun /\ q.stat \in {"SSLEEP", "SSTOP"} /\ q.pc # "stopping"

\* What setrunnable makes of a process that sleeps or is stopped.
Ran(q) == [q EXCEPT !.wchan = None, !.onslp = FALSE, !.stat = "SRUN", !.onrun = q.inmem]

Unslept(q) == [q EXCEPT !.wchan = None, !.onslp = FALSE]

\* wakeup leaves a process it finds on the chain in a consistent state.
LEMMA WakeOneOK ==
  ASSUME NEW p \in AllProcs, NEW cur, NEW q, NEW c \in AllChans, OK(p, q, cur), WakeOK(q)
  PROVE  OK(p, WakeOne(q, c), cur)
  <1> USE SleepConstants
  <1>0. q \in Proc
    BY DEF OK
  <1>1. CASE ~(q.onslp /\ q.wchan = c)
    BY <1>1 DEF WakeOne
  <1>2. CASE q.onslp /\ q.wchan = c
    <2> DEFINE o == [q EXCEPT !.wchan = None, !.onslp = FALSE, !.woken = TRUE]
    <2>1. o \in Proc
      BY <1>0, ZenonT(80) DEF Proc
    <2>2. CASE q.stat = "SSLEEP"
      <3>a. PICK b \in BOOLEAN : b = q.inmem
        BY <1>0 DEF Proc
      <3>0. PICK r : r = [o EXCEPT !.stat = "SRUN", !.onrun = b]
        OBVIOUS
      <3>1. WakeOne(q, c) = r
        BY <1>2, <2>2, <3>a, <3>0 DEF WakeOne
      <3>2. r \in Proc
        <4> HIDE DEF o
        <4> QED  BY <2>1, <3>0, ZenonT(80) DEF Proc
      <3>3. /\ r.stat = "SRUN" /\ r.onrun = q.inmem /\ r.wchan = None /\ r.onslp = FALSE
            /\ r.woken = TRUE /\ r.pc = q.pc /\ r.ctx = q.ctx /\ r.inmem = q.inmem
            /\ r.pcatch = q.pcatch /\ r.sintr = q.sintr /\ r.expired = q.expired
            /\ r.timo = q.timo /\ r.tmout = q.tmout /\ r.callout = q.callout
            /\ r.sig = q.sig /\ r.catch = q.catch /\ r.ret = q.ret
        BY <1>0, <2>1, <3>a, <3>0 DEF Proc
      <3>4. PlaceOK(p, r, cur)
        BY <1>0, <2>2, <3>3 DEF OK, PlaceOK, StatOK, Proc
      <3>5. StatOK(p, r) /\ ChanOK(p, r)
        BY <1>0, <2>2, <1>2, <3>3 DEF OK, PlaceOK, StatOK, ChanOK, Proc, InIssignal
      <3>6. SleepOK(p, r)
        BY <1>0, <2>2, <1>2, <3>3 DEF OK, SleepOK, ChanOK, Proc, InIssignal, InSleep
      <3> QED  BY <3>1, <3>2, <3>4, <3>5, <3>6 DEF OK
    <2>3. CASE q.stat # "SSLEEP"
      <3>1. WakeOne(q, c) = o
        BY <1>2, <2>3 DEF WakeOne
      <3>3. PlaceOK(p, o, cur)
        BY <1>0, <1>2, <2>3 DEF OK, PlaceOK, StatOK, Proc
      <3>4. StatOK(p, o) /\ ChanOK(p, o)
        BY <1>0, <1>2, <2>3 DEF OK, PlaceOK, StatOK, ChanOK, Proc, InIssignal
      <3>5. SleepOK(p, o)
        BY <1>0, <1>2, <2>3 DEF OK, SleepOK, ChanOK, Proc, InIssignal, InSleep
      <3> QED  BY <3>1, <2>1, <3>3, <3>4, <3>5 DEF OK
    <2> QED  BY <2>2, <2>3
  <1> QED  BY <1>1, <1>2

\* A sleep that ends, or a stop: by a wakeup, by the timeout, or by a signal to a sleep with
\* PCATCH or to a stopped process.
LEMMA EndOK ==
  ASSUME NEW p \in Procs, NEW cur, NEW q, NEW r \in Proc, OK(p, q, cur),
         q.stat \in {"SSLEEP", "SSTOP"},
         \/ r.stat = "SRUN" /\ r.onrun = q.inmem
         \/ q.stat = "SSTOP" /\ r.stat = "SSTOP" /\ r.onrun = q.onrun,
         r.wchan = None, r.onslp = FALSE,
         r.pc = q.pc, r.ctx = q.ctx, r.inmem = q.inmem, r.pcatch = q.pcatch, r.sintr = q.sintr,
         r.timo = q.timo, r.sig = q.sig, r.catch = q.catch, r.ret = q.ret,
         \/ /\ q.wchan # None /\ r.woken = TRUE
            /\ r.expired = q.expired /\ r.tmout = q.tmout /\ r.callout = q.callout
         \/ /\ q.wchan # None /\ r.expired = TRUE /\ r.tmout = TRUE /\ r.callout = FALSE /\ q.timo
            /\ r.woken = q.woken /\ InSleep(q)
         \/ /\ q.pcatch \/ q.wchan = None
            /\ r.expired = q.expired /\ r.tmout = q.tmout /\ r.callout = q.callout
            /\ r.woken = q.woken
  PROVE  OK(p, r, cur)
  <1> USE SleepConstants
  <1>0. q \in Proc /\ p # Proc0
    BY DEF OK
  <1>3. PlaceOK(p, r, cur)
    BY <1>0 DEF OK, PlaceOK, StatOK, Proc
  <1>4. StatOK(p, r) /\ ChanOK(p, r)
    BY <1>0 DEF OK, PlaceOK, StatOK, ChanOK, Proc, InIssignal
  <1>5. SleepOK(p, r)
    BY <1>0 DEF OK, PlaceOK, StatOK, SleepOK, ChanOK, Proc, InIssignal, InSleep
  <1> QED  BY <1>3, <1>4, <1>5 DEF OK

\* Nothing in a process's consistency depends on p_siglist.
LEMMA SigOK ==
  ASSUME NEW p \in Procs, NEW cur, NEW q, NEW S \in SUBSET Sigs, OK(p, q, cur)
  PROVE  LET r == [q EXCEPT !.siglist = S]
         IN /\ OK(p, r, cur) /\ (WakeOK(q) => WakeOK(r))
            /\ r.siglist = S /\ r.stat = q.stat /\ r.wchan = q.wchan /\ r.onslp = q.onslp
            /\ r.onrun = q.onrun /\ r.inmem = q.inmem /\ r.sintr = q.sintr /\ r.pcatch = q.pcatch
            /\ r.pc = q.pc /\ r.ctx = q.ctx
  <1> DEFINE r == [q EXCEPT !.siglist = S]
  <1>0. q \in Proc
    BY DEF OK
  <1>1. r \in Proc
    BY <1>0 DEF Proc
  <1>2. PlaceOK(p, r, cur)
    BY <1>0 DEF OK, PlaceOK, Proc
  <1>3. StatOK(p, r) /\ ChanOK(p, r)
    BY <1>0 DEF OK, StatOK, ChanOK, Proc, InIssignal
  <1>4. SleepOK(p, r)
    BY <1>0 DEF OK, SleepOK, Proc, InIssignal, InSleep
  <1>5. /\ WakeOK(q) => WakeOK(r)
        /\ r.siglist = S /\ r.stat = q.stat /\ r.wchan = q.wchan /\ r.onslp = q.onslp
        /\ r.onrun = q.onrun /\ r.inmem = q.inmem /\ r.sintr = q.sintr /\ r.pcatch = q.pcatch
        /\ r.pc = q.pc /\ r.ctx = q.ctx
    BY <1>0 DEF Proc, WakeOK
  <1> QED  BY <1>1, <1>2, <1>3, <1>4, <1>5 DEF OK

\* psignal stops a process that sleeps interruptibly, and SIGCONT puts it back to sleep.
LEMMA StopOK ==
  ASSUME NEW p \in Procs, NEW cur, NEW q, NEW s \in {"SSLEEP", "SSTOP"}, OK(p, q, cur),
         q.stat \in {"SSLEEP", "SSTOP"}, q.stat = "SSLEEP" => q.sintr, q.wchan # None,
         q.pc # "stopping"
  PROVE  OK(p, [q EXCEPT !.stat = s], cur)
  <1> USE SleepConstants
  <1> DEFINE r == [q EXCEPT !.stat = s]
  <1>0. q \in Proc /\ p # Proc0
    BY DEF OK
  <1>1. r \in Proc
    BY <1>0 DEF Proc
  <1>2. PlaceOK(p, r, cur)
    BY <1>0 DEF OK, PlaceOK, Proc
  <1>3. StatOK(p, r) /\ ChanOK(p, r)
    BY <1>0 DEF OK, PlaceOK, StatOK, ChanOK, SleepOK, Proc, InIssignal
  <1>4. SleepOK(p, r)
    BY <1>0 DEF OK, SleepOK, Proc, InIssignal, InSleep
  <1> QED  BY <1>1, <1>2, <1>3, <1>4 DEF OK

-----------------------------------------------------------------------------
(* All processes *)

Awake(k) == k \in Kernel /\ \A p \in AllProcs : WakeOK(k.proc[p])

\* r differs from k at t and where a wakeup of the channels in C reaches.
Same(k, r, t, C) == \A p \in AllProcs : p # t /\ k.proc[p].wchan \notin C => r.proc[p] = k.proc[p]

\* Put changes one process.
LEMMA PutFacts ==
  ASSUME NEW k \in Kernel, NEW t \in AllProcs, NEW q \in Proc
  PROVE  /\ Put(k, t, q) \in Kernel /\ Put(k, t, q).proc[t] = q
         /\ \A p \in AllProcs : p # t => Put(k, t, q).proc[p] = k.proc[p]
  <1> HIDE DEF Proc
  <1> QED  BY DEF Put, Kernel

\* A consistent process put back into the table.
LEMMA PutOK ==
  ASSUME NEW k, NEW t \in AllProcs, NEW q, NEW cur, NEW X, AllOK(k, cur, X), OK(t, q, cur)
  PROVE  AllOK(Put(k, t, q), cur, X \ {t})
  BY PutFacts DEF AllOK, OK

\* A process taken out of consideration.
LEMMA PutAway ==
  ASSUME NEW k, NEW t \in AllProcs, NEW q \in Proc, NEW cur, NEW X, AllOK(k, cur, X)
  PROVE  AllOK(Put(k, t, q), cur, X \cup {t})
  BY PutFacts DEF AllOK

\* Put keeps the table fit for wakeup.
LEMMA PutAwake ==
  ASSUME NEW k, NEW t \in AllProcs, NEW q \in Proc, Awake(k), WakeOK(q)
  PROVE  Awake(Put(k, t, q))
  BY PutFacts DEF Awake

\* Put makes it fit for wakeup when only p was not.
LEMMA PutAwakes ==
  ASSUME NEW k \in Kernel, NEW t \in AllProcs, NEW q \in Proc, WakeOK(q),
         \A p \in AllProcs : p # t => WakeOK(k.proc[p])
  PROVE  Awake(Put(k, t, q))
  BY PutFacts DEF Awake

\* The type of a process made runnable.
LEMMA RunType ==
  ASSUME NEW q \in Proc, NEW b \in BOOLEAN
  PROVE  /\ [q EXCEPT !.stat = "SRUN", !.onrun = b] \in Proc
         /\ [q EXCEPT !.stat = "SRUN", !.onrun = b].onslp = q.onslp
  BY DEF Proc

\* The types of Ran and Unslept, and how unsleep and setrunnable come to them.
LEMMA RanType ==
  ASSUME NEW q \in Proc, q.onslp <=> q.wchan # None, ~q.onrun
  PROVE  /\ Unslept(q) \in Proc /\ Unslept(q).onslp = FALSE
         /\ Ran(q) \in Proc /\ Ran(q).onslp = FALSE /\ Ran(q).wchan = None
         /\ q.wchan = None => Unslept(q) = q
         /\ q.inmem => [[Unslept(q) EXCEPT !.stat = "SRUN"] EXCEPT !.onrun = TRUE] = Ran(q)
         /\ ~q.inmem => [Unslept(q) EXCEPT !.stat = "SRUN"] = Ran(q)
  <1> USE SleepConstants
  <1>0. q.inmem \in BOOLEAN /\ q.onrun = FALSE
    BY DEF Proc
  <1>1. Unslept(q) \in Proc /\ Unslept(q).onslp = FALSE
    BY DEF Unslept, Proc
  <1>2. Ran(q) \in Proc /\ Ran(q).onslp = FALSE /\ Ran(q).wchan = None
    BY <1>0 DEF Ran, Proc
  <1>3. ASSUME q.wchan = None
        PROVE  Unslept(q) = q
    <2>1. q.onslp = FALSE /\ q.wchan = None
      BY <1>3 DEF Proc
    <2>2. [q EXCEPT !.wchan = None] = q
      BY <2>1 DEF Proc
    <2>3. [q EXCEPT !.onslp = FALSE] = q
      BY <2>1 DEF Proc
    <2>4. Unslept(q) = [[q EXCEPT !.wchan = None] EXCEPT !.onslp = FALSE]
      BY DEF Unslept
    <2> QED  BY <2>2, <2>3, <2>4
  <1>4. q.inmem => [[Unslept(q) EXCEPT !.stat = "SRUN"] EXCEPT !.onrun = TRUE] = Ran(q)
    BY <1>0 DEF Unslept, Ran, Proc
  <1>5. ~q.inmem => [Unslept(q) EXCEPT !.stat = "SRUN"] = Ran(q)
    <2>1. PICK v : v = [Unslept(q) EXCEPT !.stat = "SRUN"]
      OBVIOUS
    <2>2. Unslept(q).onrun = FALSE
      BY <1>0 DEF Unslept, Proc
    <2>3. v \in Proc /\ v.onrun = FALSE
      BY <1>1, <2>1, <2>2 DEF Proc
    <2>4. [v EXCEPT !.onrun = FALSE] = v
      BY <2>3 DEF Proc
    <2>5. Ran(q) = [v EXCEPT !.onrun = q.inmem]
      BY <2>1 DEF Unslept, Ran
    <2> QED  BY <1>0, <2>1, <2>4, <2>5
  <1> QED  BY <1>1, <1>2, <1>3, <1>4, <1>5

\* WakeOne keeps the type, the fitness for wakeup, and every process on another channel.
LEMMA WakeOneType ==
  ASSUME NEW q \in Proc, NEW c
  PROVE  /\ WakeOne(q, c) \in Proc
         /\ WakeOK(q) => WakeOK(WakeOne(q, c))
         /\ q.wchan # c => WakeOne(q, c) = q
  <1> USE SleepConstants
  <1>1. CASE ~(q.onslp /\ q.wchan = c)
    BY <1>1 DEF WakeOne
  <1>2. CASE q.onslp /\ q.wchan = c
    <2> DEFINE o == [q EXCEPT !.wchan = None, !.onslp = FALSE, !.woken = TRUE]
    <2>1. o \in Proc /\ ~o.onslp
      BY ZenonT(80) DEF Proc
    <2>2. CASE q.stat = "SSLEEP"
      <3>a. PICK b \in BOOLEAN : b = q.inmem
        BY DEF Proc
      <3>1. WakeOne(q, c) = [o EXCEPT !.stat = "SRUN", !.onrun = b]
        BY <1>2, <2>2, <3>a DEF WakeOne
      <3> HIDE DEF o
      <3>2. [o EXCEPT !.stat = "SRUN", !.onrun = b] \in Proc
        BY <2>1, RunType
      <3>3. ~[o EXCEPT !.stat = "SRUN", !.onrun = b].onslp
        BY <2>1, RunType
      <3> QED  BY <3>1, <3>2, <3>3, <1>2 DEF WakeOK
    <2>3. CASE q.stat # "SSLEEP"
      <3>1. WakeOne(q, c) = o
        BY <1>2, <2>3 DEF WakeOne
      <3> QED  BY <3>1, <2>1, <1>2 DEF WakeOK
    <2> QED  BY <2>2, <2>3
  <1> QED  BY <1>1, <1>2

\* wakeup's walk of one chain never panics and touches only the channel's sleepers.
LEMMA WakeChainOK ==
  ASSUME NEW k, NEW c \in AllChans, NEW cur, NEW X, Awake(k), AllOK(k, cur, X)
  PROVE  LET r == WakeChain(k, c)
         IN Awake(r) /\ AllOK(r, cur, X) /\ \A t : Same(k, r, t, {c})
  <1> HIDE DEF Proc
  <1> DEFINE f == [p \in AllProcs |-> WakeOne(k.proc[p], c)]
             r == [proc |-> f, panicstr |-> k.panicstr]
  <1>0. k \in Kernel /\ k.panicstr = "none" /\ \A p \in AllProcs : k.proc[p] \in Proc
    BY DEF Awake, Kernel
  <1>1. WakeChain(k, c) = r
    BY DEF WakeChain, Chain, Awake, WakeOK
  <1>2. \A p \in AllProcs : /\ f[p] \in Proc /\ WakeOK(f[p]) /\ f[p] = WakeOne(k.proc[p], c)
                            /\ k.proc[p].wchan # c => f[p] = k.proc[p]
    BY <1>0, WakeOneType DEF Awake
  <1> HIDE DEF f
  <1>3. f \in [AllProcs -> Proc]
    BY <1>2 DEF f
  <1>4. r \in Kernel /\ r.proc = f
    BY <1>0, <1>3 DEF Kernel
  <1> HIDE DEF r
  <1>5. Awake(r)
    BY <1>4, <1>2 DEF Awake
  <1>6. ASSUME NEW p \in AllProcs \ X
        PROVE  OK(p, r.proc[p], cur)
    BY <1>4, <1>2, WakeOneOK DEF AllOK, Awake
  <1>7. ASSUME NEW t
        PROVE  Same(k, r, t, {c})
    BY <1>4, <1>2 DEF Same
  <1> QED  BY <1>1, <1>4, <1>5, <1>6, <1>7 DEF AllOK

\* wakeup, with the swapper it wakes for a process that is swapped out.
LEMMA wakeupOK ==
  ASSUME NEW k, NEW c \in AllChans, NEW cur, NEW X, Awake(k), AllOK(k, cur, X)
  PROVE  LET r == wakeup(k, c)
         IN Awake(r) /\ AllOK(r, cur, X) /\ \A t : Same(k, r, t, {c, Proc0})
  <1> DEFINE k1 == WakeChain(k, c)
             k2 == WakeChain(k1, Proc0)
  <1>1. Awake(k1) /\ AllOK(k1, cur, X) /\ \A t : Same(k, k1, t, {c})
    BY WakeChainOK
  <1>2. Awake(k2) /\ AllOK(k2, cur, X) /\ \A t : Same(k1, k2, t, {Proc0})
    BY <1>1, WakeChainOK DEF AllChans, AllProcs
  <1>3. \A t : Same(k, k1, t, {c, Proc0}) /\ Same(k, k2, t, {c, Proc0})
    <2> HIDE DEF k1, k2
    <2> TAKE t
    <2>1. Same(k, k1, t, {c}) /\ Same(k1, k2, t, {Proc0})
      BY <1>1, <1>2
    <2>2. Same(k, k1, t, {c, Proc0})
      BY <2>1 DEF Same
    <2>3. Same(k, k2, t, {c, Proc0})
      BY <2>1 DEF Same
    <2> QED  BY <2>2, <2>3
  <1>4. wakeup(k, c) = k1 \/ wakeup(k, c) = k2
    BY DEF wakeup
  <1> QED  BY <1>1, <1>2, <1>3, <1>4

\* setrunnable of a sleeping or stopped process never panics.
LEMMA setrunnableOK ==
  ASSUME NEW k, NEW t \in AllProcs, NEW cur, NEW X, Awake(k), AllOK(k, cur, X), t \in X,
         k.proc[t].stat \in {"SSLEEP", "SSTOP"}, ~k.proc[t].onrun,
         k.proc[t].onslp <=> k.proc[t].wchan # None
  PROVE  LET r == setrunnable(k, t)
         IN Awake(r) /\ AllOK(r, cur, X) /\ r.proc[t] = Ran(k.proc[t]) /\ Same(k, r, t, {Proc0})
  <1> USE SleepConstants
  <1> DEFINE q == k.proc[t]
             k0 == unsleep(k, t)
             q1 == [k0.proc[t] EXCEPT !.stat = "SRUN"]
             k1 == Put(k0, t, q1)
             r == setrunnable(k, t)
  <1>0. k \in Kernel /\ q \in Proc /\ q.inmem \in BOOLEAN
    BY DEF Awake, Kernel, Proc
  <1>1. /\ Unslept(q) \in Proc /\ Ran(q) \in Proc /\ WakeOK(Unslept(q)) /\ WakeOK(Ran(q))
        /\ Ran(q).wchan = None
    BY <1>0, RanType DEF WakeOK
  <1>2. k0.proc[t] = Unslept(q)
    <2>1. CASE q.wchan = None
      <3>1. k0 = k
        BY <2>1 DEF unsleep
      <3>2. q = Unslept(q)
        BY <2>1, <1>0, RanType
      <3> QED  BY <3>1, <3>2
    <2>2. CASE q.wchan # None
      <3>1. k0 = Put(k, t, Unslept(q))
        BY <2>2 DEF unsleep, Unslept
      <3> QED  BY <3>1, <1>0, <1>1, PutFacts
    <2> QED  BY <2>1, <2>2
  <1>3. Awake(k0) /\ AllOK(k0, cur, X) /\ Same(k, k0, t, {})
    <2>1. CASE q.wchan = None
      BY <2>1 DEF unsleep, Same
    <2>2. CASE q.wchan # None
      <3>1. k0 = Put(k, t, Unslept(q))
        BY <2>2 DEF unsleep, Unslept
      <3>2. X \cup {t} = X
        OBVIOUS
      <3> HIDE DEF k0
      <3> QED  BY <3>1, <3>2, <1>0, <1>1, PutFacts, PutAway, PutAwake, SMTT(40) DEF Same
    <2> QED  BY <2>1, <2>2
  <1>4. q1 \in Proc /\ q1.inmem = q.inmem /\ q1.wchan = None /\ q1.onrun = FALSE /\ q1.onslp = FALSE
    BY <1>0, <1>2, ZenonT(80) DEF Unslept, Proc
  <1>5. Awake(k1) /\ AllOK(k1, cur, X) /\ k1.proc[t] = q1 /\ Same(k, k1, t, {})
    <2>1. k0 \in Kernel /\ X \cup {t} = X /\ WakeOK(q1)
      BY <1>3, <1>4 DEF Awake, WakeOK
    <2> HIDE DEF q1, k0
    <2> QED  BY <2>1, <1>3, <1>4, PutFacts, PutAway, PutAwake DEF Same
  <1>6. r = IF q.inmem THEN setrunqueue(k1, t) ELSE wakeup(k1, Proc0)
    BY <1>5, <1>4 DEF setrunnable
  <1>7. CASE q.inmem
    <2>1. r = Put(k1, t, [q1 EXCEPT !.onrun = TRUE])
      BY <1>6, <1>7, <1>5, <1>4 DEF setrunqueue
    <2>2. [q1 EXCEPT !.onrun = TRUE] = Ran(q)
      BY <1>0, <1>2, <1>7, RanType
    <2>3. k1 \in Kernel /\ X \cup {t} = X
      BY <1>5 DEF Awake
    <2> HIDE DEF r, k1, q1
    <2>4. r = Put(k1, t, Ran(q))
      BY <2>1, <2>2
    <2>5. Awake(r) /\ AllOK(r, cur, X)
      BY <2>4, <2>3, <1>1, <1>5, PutAway, PutAwake
    <2>6. r.proc[t] = Ran(q) /\ Same(k, r, t, {Proc0})
      BY <2>4, <2>3, <1>1, <1>5, PutFacts DEF Same
    <2> QED  BY <2>5, <2>6 DEF r
  <1>8. CASE ~q.inmem
    <2>1. r = wakeup(k1, Proc0)
      BY <1>6, <1>8
    <2>2. q1 = Ran(q)
      BY <1>0, <1>2, <1>8, RanType
    <2>a. Proc0 \in AllChans
      BY DEF AllChans, AllProcs
    <2>b. Awake(k1) /\ AllOK(k1, cur, X)
      BY <1>5
    <2>c. Awake(r) /\ AllOK(r, cur, X) /\ \A x : Same(k1, r, x, {Proc0, Proc0})
      <3> HIDE DEF k1, r
      <3> QED  BY <2>1, <2>a, <2>b, wakeupOK
    <2>d. t # None /\ None # Proc0
      BY DEF AllChans, AllProcs
    <2>3. Same(k1, r, t, {Proc0})
      <3> HIDE DEF k1, r
      <3> QED  BY <2>c DEF Same
    <2>4. r.proc[t] = q1
      <3> HIDE DEF k1, r, q1
      <3>1. Same(k1, r, None, {Proc0, Proc0})
        BY <2>c
      <3> QED  BY <3>1, <1>4, <1>5, <2>d DEF Same
    <2> HIDE DEF r, k1, q1
    <2>5. Same(k, r, t, {Proc0})
      BY <2>3, <1>5 DEF Same
    <2> QED  BY <2>2, <2>c, <2>4, <2>5 DEF r
  <1> QED  BY <1>7, <1>8, <1>0

\* The table is consistent when p is and the others are.
LEMMA AllButOne ==
  ASSUME NEW k, NEW cur, NEW p \in AllProcs
  PROVE  AllOK(k, cur, {}) <=> AllOK(k, cur, {p}) /\ OK(p, k.proc[p], cur)
  BY DEF AllOK

\* What a process in the table satisfies, in the form the lemmas on setrunnable want it.
LEMMA OneOK ==
  ASSUME NEW k, NEW cur, NEW X, NEW p \in AllProcs \ X, AllOK(k, cur, X)
  PROVE  /\ k \in Kernel /\ k.proc[p] \in Proc /\ OK(p, k.proc[p], cur)
         /\ k.proc[p].onslp <=> k.proc[p].wchan # None
         /\ k.proc[p].stat # "SRUN" => ~k.proc[p].onrun
         /\ p # Proc0 => k.proc[p].wchan # Proc0
         /\ k.proc[p].sintr => k.proc[p].pcatch
         /\ k.proc[p].wchan # None /\ k.proc[p].pc # "issig" => k.proc[p].stat \in {"SSLEEP", "SSTOP"}
  <1>1. OK(p, k.proc[p], cur) /\ k \in Kernel /\ k.proc[p] \in Proc
    BY DEF AllOK, OK
  <1>2. PICK q : q = k.proc[p]
    OBVIOUS
  <1>3. OK(p, q, cur)
    BY <1>1, <1>2
  <1>4. /\ q.onslp <=> q.wchan # None
        /\ q.stat # "SRUN" => ~q.onrun
        /\ p # Proc0 => q.wchan # Proc0
        /\ q.sintr => q.pcatch
        /\ q.wchan # None /\ q.pc # "issig" => q.stat \in {"SSLEEP", "SSTOP"}
    BY <1>3, SleepConstants DEF OK, ChanOK, PlaceOK, SleepOK, AllProcs, AllChans
  <1> QED  BY <1>1, <1>2, <1>4

\* setrunnable or unsleep of p, and the field w that says what ended the sleep.
LEMMA RunOrUnsleep ==
  ASSUME NEW k, NEW p \in Procs, NEW cur, NEW X, p \in X, Awake(k), AllOK(k, cur, X),
         k.proc[p].wchan # None, ~k.proc[p].onrun,
         k.proc[p].onslp <=> k.proc[p].wchan # None
  PROVE  LET r == IF k.proc[p].stat = "SSLEEP" THEN setrunnable(k, p) ELSE unsleep(k, p)
         IN /\ Awake(r) /\ AllOK(r, cur, X) /\ Same(k, r, p, {Proc0})
            /\ r.proc[p] = IF k.proc[p].stat = "SSLEEP" THEN Ran(k.proc[p]) ELSE Unslept(k.proc[p])
  <1>1. CASE k.proc[p].stat = "SSLEEP"
    BY <1>1, setrunnableOK DEF AllProcs
  <1>2. CASE k.proc[p].stat # "SSLEEP"
    <2> DEFINE u == Unslept(k.proc[p])
    <2>1. unsleep(k, p) = Put(k, p, u)
      BY DEF unsleep, Unslept
    <2>a. k \in Kernel /\ p \in AllProcs /\ k.proc[p] \in Proc
      BY DEF Awake, Kernel, AllProcs
    <2>b. u \in Proc /\ u.onslp = FALSE
      BY <2>a, RanType
    <2>2. k \in Kernel /\ p \in AllProcs /\ u \in Proc /\ WakeOK(u) /\ X \cup {p} = X
      BY <2>a, <2>b DEF WakeOK
    <2> HIDE DEF u
    <2>3. Awake(Put(k, p, u)) /\ AllOK(Put(k, p, u), cur, X \cup {p})
      BY <2>2, PutAway, PutAwake
    <2>4. Put(k, p, u).proc[p] = u /\ Same(k, Put(k, p, u), p, {Proc0})
      BY <2>2, PutFacts DEF Same
    <2> QED  BY <1>2, <2>1, <2>2, <2>3, <2>4 DEF u
  <1> QED  BY <1>1, <1>2

\* What setrunnable changes.
LEMMA RanFields ==
  ASSUME NEW q \in Proc
  PROVE  LET r == Ran(q) IN
           /\ r.stat = "SRUN" /\ r.onrun = q.inmem /\ r.wchan = None /\ r.onslp = FALSE
           /\ r.pc = q.pc /\ r.ctx = q.ctx /\ r.inmem = q.inmem /\ r.pcatch = q.pcatch
           /\ r.sintr = q.sintr /\ r.timo = q.timo /\ r.sig = q.sig /\ r.catch = q.catch
           /\ r.ret = q.ret /\ r.woken = q.woken /\ r.expired = q.expired
           /\ r.tmout = q.tmout /\ r.callout = q.callout
  BY DEF Ran, Proc

\* What unsleep changes.
LEMMA UnsleptFields ==
  ASSUME NEW q \in Proc
  PROVE  LET r == Unslept(q) IN
           /\ r.stat = q.stat /\ r.onrun = q.onrun /\ r.wchan = None /\ r.onslp = FALSE
           /\ r.pc = q.pc /\ r.ctx = q.ctx /\ r.inmem = q.inmem /\ r.pcatch = q.pcatch
           /\ r.sintr = q.sintr /\ r.timo = q.timo /\ r.sig = q.sig /\ r.catch = q.catch
           /\ r.ret = q.ret /\ r.woken = q.woken /\ r.expired = q.expired
           /\ r.tmout = q.tmout /\ r.callout = q.callout
  BY DEF Unslept, Proc

\* A signal makes a stopped or PCATCH sleeper runnable.
LEMMA RanOK ==
  ASSUME NEW p \in Procs, NEW cur, NEW q, OK(p, q, cur), q.stat \in {"SSLEEP", "SSTOP"},
         q.pcatch \/ q.wchan = None
  PROVE  /\ OK(p, Ran(q), cur)
         /\ q.stat = "SSTOP" => OK(p, Unslept(q), cur)
  <1>1. q \in Proc /\ (q.onslp <=> q.wchan # None) /\ ~q.onrun
    BY DEF OK, ChanOK, PlaceOK
  <1>2. Ran(q) \in Proc /\ Unslept(q) \in Proc
    BY <1>1, RanType
  <1>3. OK(p, Ran(q), cur)
    BY <1>1, <1>2, RanFields, EndOK
  <1>4. q.stat = "SSTOP" => OK(p, Unslept(q), cur)
    BY <1>1, <1>2, UnsleptFields, EndOK
  <1> QED  BY <1>3, <1>4

\* selwakeup ends a sleep.
LEMMA WokenOK ==
  ASSUME NEW p \in Procs, NEW cur, NEW q, OK(p, q, cur), q.stat \in {"SSLEEP", "SSTOP"},
         q.wchan # None
  PROVE  /\ OK(p, [Ran(q) EXCEPT !.woken = TRUE], cur)
         /\ q.stat = "SSTOP" => OK(p, [Unslept(q) EXCEPT !.woken = TRUE], cur)
  <1>1. q \in Proc /\ (q.onslp <=> q.wchan # None) /\ ~q.onrun
    BY DEF OK, ChanOK, PlaceOK
  <1>2. Ran(q) \in Proc /\ Unslept(q) \in Proc
    BY <1>1, RanType
  <1>3. OK(p, [Ran(q) EXCEPT !.woken = TRUE], cur)
    <2>1. PICK o \in Proc : o = Ran(q)
      BY <1>2
    <2>2. PICK r : r = [o EXCEPT !.woken = TRUE]
      OBVIOUS
    <2>3. r \in Proc /\ r.woken = TRUE
      BY <2>2 DEF Proc
    <2>a. /\ r.stat = o.stat /\ r.onrun = o.onrun /\ r.wchan = o.wchan /\ r.onslp = o.onslp
          /\ r.pc = o.pc /\ r.ctx = o.ctx /\ r.inmem = o.inmem /\ r.pcatch = o.pcatch
          /\ r.sintr = o.sintr /\ r.timo = o.timo /\ r.sig = o.sig /\ r.catch = o.catch
          /\ r.ret = o.ret /\ r.expired = o.expired
          /\ r.tmout = o.tmout /\ r.callout = o.callout
      BY <2>2 DEF Proc
    <2>4. /\ r.stat = "SRUN" /\ r.onrun = q.inmem /\ r.wchan = None /\ r.onslp = FALSE
          /\ r.pc = q.pc /\ r.ctx = q.ctx /\ r.inmem = q.inmem /\ r.pcatch = q.pcatch
          /\ r.sintr = q.sintr /\ r.timo = q.timo /\ r.sig = q.sig /\ r.catch = q.catch
          /\ r.ret = q.ret /\ r.expired = q.expired
          /\ r.tmout = q.tmout /\ r.callout = q.callout
      BY <2>1, <2>a, <1>1, RanFields, ZenonT(80)
    <2> QED  BY <2>1, <2>2, <2>3, <2>4, EndOK, ZenonT(80)
  <1>4. ASSUME q.stat = "SSTOP"
        PROVE  OK(p, [Unslept(q) EXCEPT !.woken = TRUE], cur)
    <2>1. PICK o \in Proc : o = Unslept(q)
      BY <1>2
    <2>2. PICK r : r = [o EXCEPT !.woken = TRUE]
      OBVIOUS
    <2>3. r \in Proc /\ r.woken = TRUE
      BY <2>2 DEF Proc
    <2>a. /\ r.stat = o.stat /\ r.onrun = o.onrun /\ r.wchan = o.wchan /\ r.onslp = o.onslp
          /\ r.pc = o.pc /\ r.ctx = o.ctx /\ r.inmem = o.inmem /\ r.pcatch = o.pcatch
          /\ r.sintr = o.sintr /\ r.timo = o.timo /\ r.sig = o.sig /\ r.catch = o.catch
          /\ r.ret = o.ret /\ r.expired = o.expired
          /\ r.tmout = o.tmout /\ r.callout = o.callout
      BY <2>2 DEF Proc
    <2>4. /\ r.stat = "SSTOP" /\ r.onrun = q.onrun /\ r.wchan = None /\ r.onslp = FALSE
          /\ r.pc = q.pc /\ r.ctx = q.ctx /\ r.inmem = q.inmem /\ r.pcatch = q.pcatch
          /\ r.sintr = q.sintr /\ r.timo = q.timo /\ r.sig = q.sig /\ r.catch = q.catch
          /\ r.ret = q.ret /\ r.expired = q.expired
          /\ r.tmout = q.tmout /\ r.callout = q.callout
      BY <2>1, <2>a, <1>1, <1>4, UnsleptFields, ZenonT(80)
    <2> QED  BY <2>1, <2>2, <2>3, <2>4, <1>4, EndOK, ZenonT(80)
  <1> QED  BY <1>3, <1>4

\* selwakeup keeps the table consistent.
LEMMA selwakeupOK ==
  ASSUME NEW k, NEW p \in Procs, NEW cur, Awake(k), AllOK(k, cur, {})
  PROVE  AllOK(selwakeup(k, p), cur, {})
  <1> DEFINE q == k.proc[p]
             k1 == IF q.stat = "SSLEEP" THEN setrunnable(k, p) ELSE unsleep(k, p)
             o == k1.proc[p]
  <1>1. CASE q.wchan # Selwait
    BY <1>1 DEF selwakeup
  <1>2. CASE q.wchan = Selwait
    <2>0. Selwait # None /\ p \in AllProcs
      BY SleepConstants DEF AllProcs, AllChans
    <2>1. /\ OK(p, q, cur) /\ q \in Proc /\ k \in Kernel /\ (q.onslp <=> q.wchan # None)
          /\ AllOK(k, cur, {p})
      BY <2>0, OneOK, AllButOne
    <2>2. q.stat \in {"SSLEEP", "SSTOP"} /\ ~q.onrun
      BY <2>0, <2>1, <1>2 DEF Awake, WakeOK
    <2>3. /\ AllOK(k1, cur, {p})
          /\ o = IF q.stat = "SSLEEP" THEN Ran(q) ELSE Unslept(q)
      BY <2>0, <2>1, <2>2, <1>2, RunOrUnsleep
    <2>4. OK(p, [o EXCEPT !.woken = TRUE], cur)
      BY <2>0, <2>1, <2>2, <2>3, <1>2, WokenOK
    <2>5. selwakeup(k, p) = Put(k1, p, [o EXCEPT !.woken = TRUE])
      BY <1>2 DEF selwakeup
    <2> HIDE DEF k1, o
    <2>6. {p} \ {p} = {}
      OBVIOUS
    <2> QED  BY <2>0, <2>3, <2>4, <2>5, <2>6, PutOK
  <1> QED  BY <1>1, <1>2

\* What endtsleep sets.
LEMMA SetTimedOut ==
  ASSUME NEW o \in Proc, NEW r, r = [o EXCEPT !.tmout = TRUE, !.expired = TRUE]
  PROVE  /\ r \in Proc /\ r.tmout = TRUE /\ r.expired = TRUE
         /\ r.stat = o.stat /\ r.onrun = o.onrun /\ r.wchan = o.wchan /\ r.onslp = o.onslp
         /\ r.pc = o.pc /\ r.ctx = o.ctx /\ r.inmem = o.inmem /\ r.pcatch = o.pcatch
         /\ r.sintr = o.sintr /\ r.timo = o.timo /\ r.sig = o.sig /\ r.catch = o.catch
         /\ r.ret = o.ret /\ r.woken = o.woken /\ r.callout = o.callout
  BY DEF Proc

\* The callout fires, and finds p asleep or stopped on its channel.
LEMMA TimedOutOK ==
  ASSUME NEW p \in Procs, NEW cur, NEW q, OK(p, q, cur), q.stat \in {"SSLEEP", "SSTOP"},
         q.wchan # None, q.callout, NEW o \in Proc,
         \/ o.stat = "SRUN" /\ o.onrun = q.inmem
         \/ q.stat = "SSTOP" /\ o.stat = "SSTOP" /\ o.onrun = q.onrun,
         o.wchan = None, o.onslp = FALSE,
         o.pc = q.pc, o.ctx = q.ctx, o.inmem = q.inmem, o.pcatch = q.pcatch, o.sintr = q.sintr,
         o.timo = q.timo, o.sig = q.sig, o.catch = q.catch, o.ret = q.ret, o.woken = q.woken,
         o.callout = FALSE
  PROVE  OK(p, [o EXCEPT !.tmout = TRUE, !.expired = TRUE], cur)
  <1>0. q.timo /\ InSleep(q)
    BY DEF OK, SleepOK
  <1>1. PICK r : r = [o EXCEPT !.tmout = TRUE, !.expired = TRUE]
    OBVIOUS
  <1>2. /\ r \in Proc /\ r.tmout = TRUE /\ r.expired = TRUE
        /\ r.stat = o.stat /\ r.onrun = o.onrun /\ r.wchan = o.wchan /\ r.onslp = o.onslp
        /\ r.pc = o.pc /\ r.ctx = o.ctx /\ r.inmem = o.inmem /\ r.pcatch = o.pcatch
        /\ r.sintr = o.sintr /\ r.timo = o.timo /\ r.sig = o.sig /\ r.catch = o.catch
        /\ r.ret = o.ret /\ r.woken = o.woken /\ r.callout = o.callout
    BY ONLY o \in Proc, <1>1, SetTimedOut, ZenonT(80)
  <1>a. /\ r.wchan = None /\ r.onslp = FALSE
        /\ r.pc = q.pc /\ r.ctx = q.ctx /\ r.inmem = q.inmem /\ r.pcatch = q.pcatch
        /\ r.sintr = q.sintr /\ r.timo = q.timo /\ r.sig = q.sig /\ r.catch = q.catch
        /\ r.ret = q.ret /\ r.woken = q.woken /\ r.callout = FALSE
    BY <1>2
  <1>b. \/ r.stat = "SRUN" /\ r.onrun = q.inmem
        \/ q.stat = "SSTOP" /\ r.stat = "SSTOP" /\ r.onrun = q.onrun
    BY <1>2
  <1>3. OK(p, r, cur)
    BY <1>0, <1>2, <1>a, <1>b, EndOK
  <1> QED  BY <1>1, <1>3

\* softclock takes the callout off the queue before endtsleep runs.
LEMMA CalloutGone ==
  ASSUME NEW p \in Procs, NEW cur, NEW q, OK(p, q, cur)
  PROVE  OK(p, [q EXCEPT !.callout = FALSE], cur) /\ (WakeOK(q) => WakeOK([q EXCEPT !.callout = FALSE]))
  <1> DEFINE r == [q EXCEPT !.callout = FALSE]
  <1>0. q \in Proc
    BY DEF OK
  <1>a. r \in Proc /\ r.onslp = q.onslp /\ r.onrun = q.onrun /\ r.stat = q.stat /\ r.pc = q.pc
    BY <1>0 DEF Proc
  <1>1. r \in Proc /\ (WakeOK(q) => WakeOK(r))
    <2> HIDE DEF r
    <2> QED  BY <1>a DEF WakeOK
  <1>2. PlaceOK(p, r, cur)
    BY <1>0 DEF OK, PlaceOK, Proc
  <1>3. StatOK(p, r) /\ ChanOK(p, r)
    BY <1>0 DEF OK, StatOK, ChanOK, Proc, InIssignal
  <1>4. SleepOK(p, r)
    BY <1>0 DEF OK, SleepOK, Proc, InIssignal, InSleep
  <1> QED  BY <1>1, <1>2, <1>3, <1>4 DEF OK

\* endtsleep keeps the table consistent.
LEMMA endtsleepOK ==
  ASSUME NEW k, NEW p \in Procs, NEW cur, Awake(k), AllOK(k, cur, {}), k.proc[p].callout
  PROVE  AllOK(endtsleep(Put(k, p, [k.proc[p] EXCEPT !.callout = FALSE]), p), cur, {})
  <1> DEFINE q == k.proc[p]
             q0 == [q EXCEPT !.callout = FALSE]
             k0 == Put(k, p, q0)
             k1 == IF q0.stat = "SSLEEP" THEN setrunnable(k0, p) ELSE unsleep(k0, p)
             o == k1.proc[p]
             r == [o EXCEPT !.tmout = TRUE, !.expired = TRUE]
  <1>0. /\ p \in AllProcs /\ OK(p, q, cur) /\ q \in Proc /\ k \in Kernel
        /\ AllOK(k, cur, {p}) /\ (q.onslp <=> q.wchan # None) /\ WakeOK(q)
    <2>1. p \in AllProcs /\ p \notin {} /\ WakeOK(q)
      BY DEF AllProcs, Awake
    <2>2. AllOK(k, cur, {p}) /\ OK(p, q, cur)
      BY <2>1, AllButOne
    <2> QED  BY <2>1, <2>2, OneOK, ZenonT(80)
  <1>1. /\ q0 \in Proc /\ q0.stat = q.stat /\ q0.wchan = q.wchan /\ q0.onslp = q.onslp
        /\ q0.onrun = q.onrun
    BY <1>0, ZenonT(80) DEF Proc
  <1>2. OK(p, q0, cur) /\ WakeOK(q0)
    BY <1>0, CalloutGone
  <1>3. /\ Awake(k0) /\ AllOK(k0, cur, {p}) /\ k0.proc[p] = q0 /\ AllOK(k0, cur, {})
    <2> HIDE DEF q0
    <2>1. {p} \cup {p} = {p} /\ {p} \ {p} = {}
      OBVIOUS
    <2> QED  BY <2>1, <1>0, <1>1, <1>2, PutOK, PutAway, PutAwake, PutFacts
  <1>4. CASE q.wchan = None
    <2>1. endtsleep(k0, p) = k0
      BY <1>3, <1>1, <1>4 DEF endtsleep
    <2> QED  BY <2>1, <1>3
  <1>5. CASE q.wchan # None
    <2>1. endtsleep(k0, p) = Put(k1, p, r)
      BY <1>3, <1>1, <1>5 DEF endtsleep
    <2>2. q.stat \in {"SSLEEP", "SSTOP"} /\ ~q.onrun
      BY <1>0, <1>5 DEF WakeOK
    <2>3. AllOK(k1, cur, {p}) /\ o = IF q0.stat = "SSLEEP" THEN Ran(q0) ELSE Unslept(q0)
      <3> HIDE DEF q0, k0
      <3> QED  BY <1>1, <1>3, <1>5, <2>2, <1>0, RunOrUnsleep
    <2>4. OK(p, r, cur)
      <3>1. /\ q0.stat = q.stat /\ q0.onrun = q.onrun
            /\ q0.pc = q.pc /\ q0.ctx = q.ctx /\ q0.inmem = q.inmem /\ q0.pcatch = q.pcatch
            /\ q0.sintr = q.sintr /\ q0.timo = q.timo /\ q0.sig = q.sig /\ q0.catch = q.catch
            /\ q0.ret = q.ret /\ q0.woken = q.woken /\ q0.callout = FALSE
        BY <1>0 DEF Proc
      <3> HIDE DEF q0, k0, k1, o
      <3>2. Ran(q0) \in Proc /\ Unslept(q0) \in Proc
        BY <1>0, <1>1, <2>2, RanType
      <3>3. CASE q.stat = "SSLEEP"
        <4>1. o = Ran(q0) /\ o \in Proc
          BY <2>3, <3>1, <3>2, <3>3
        <4>2. /\ o.stat = "SRUN" /\ o.onrun = q.inmem /\ o.wchan = None /\ o.onslp = FALSE
              /\ o.pc = q.pc /\ o.ctx = q.ctx /\ o.inmem = q.inmem /\ o.pcatch = q.pcatch
              /\ o.sintr = q.sintr /\ o.timo = q.timo /\ o.sig = q.sig /\ o.catch = q.catch
              /\ o.ret = q.ret /\ o.woken = q.woken /\ o.callout = FALSE
          BY <4>1, <3>1, <1>1, RanFields
        <4> QED  BY <4>1, <4>2, <3>3, <1>0, <1>5, TimedOutOK
      <3>4. CASE q.stat = "SSTOP"
        <4>1. o = Unslept(q0) /\ o \in Proc
          BY <2>3, <3>1, <3>2, <3>4
        <4>2. /\ o.stat = "SSTOP" /\ o.onrun = q.onrun /\ o.wchan = None /\ o.onslp = FALSE
              /\ o.pc = q.pc /\ o.ctx = q.ctx /\ o.inmem = q.inmem /\ o.pcatch = q.pcatch
              /\ o.sintr = q.sintr /\ o.timo = q.timo /\ o.sig = q.sig /\ o.catch = q.catch
              /\ o.ret = q.ret /\ o.woken = q.woken /\ o.callout = FALSE
          BY <4>1, <3>1, <3>4, <1>1, UnsleptFields
        <4> QED  BY <4>1, <4>2, <3>4, <1>0, <1>5, TimedOutOK
      <3> QED  BY <3>3, <3>4, <2>2
    <2> HIDE DEF k1, r, k0
    <2>5. {p} \ {p} = {}
      OBVIOUS
    <2>6. AllOK(Put(k1, p, r), cur, {})
      BY <2>3, <2>4, <2>5, <1>0, PutOK
    <2>7. AllOK(endtsleep(k0, p), cur, {})
      BY <2>6, <2>1
    <2> QED  BY <2>7 DEF k0
  <1> QED  BY <1>4, <1>5

-----------------------------------------------------------------------------
(* kern_sig.c *)

\* A change of p_siglist.
LEMMA SiglistOK ==
  ASSUME NEW k, NEW p \in Procs, NEW cur, NEW X, p \notin X, Awake(k), AllOK(k, cur, X),
         NEW S \in SUBSET Sigs
  PROVE  LET q == k.proc[p]
             t == [q EXCEPT !.siglist = S]
             r == Put(k, p, t)
         IN /\ Awake(r) /\ AllOK(r, cur, X) /\ Same(k, r, p, {}) /\ r.proc[p] = t
            /\ t.siglist = S /\ t.stat = q.stat /\ t.wchan = q.wchan /\ t.sintr = q.sintr /\ t.pc = q.pc
  <1> DEFINE q == k.proc[p]
             t == [q EXCEPT !.siglist = S]
             r == Put(k, p, t)
  <1>1. k \in Kernel /\ p \in AllProcs /\ OK(p, q, cur) /\ WakeOK(q)
    BY DEF AllOK, Awake, AllProcs
  <1>2. /\ OK(p, t, cur) /\ WakeOK(t) /\ t.siglist = S /\ t.stat = q.stat
        /\ t.wchan = q.wchan /\ t.sintr = q.sintr /\ t.pc = q.pc
    BY <1>1, SigOK
  <1>3. t \in Proc
    BY <1>2 DEF OK
  <1>4. X \ {p} = X
    OBVIOUS
  <1> HIDE DEF t
  <1>5. Awake(r) /\ AllOK(r, cur, X \ {p}) /\ r.proc[p] = t /\ Same(k, r, p, {})
    BY <1>1, <1>2, <1>3, PutOK, PutAwake, PutFacts DEF Same
  <1> QED  BY <1>5, <1>4, <1>2 DEF t

\* What a signal, or any other step at p alone, may do to the rest.
Served(k, r, p, cur, X) == Awake(r) /\ AllOK(r, cur, X) /\ Same(k, r, p, {Proc0})

\* Posting and dropping a signal change p_siglist alone.
LEMMA PostSigOK ==
  ASSUME NEW k, NEW p \in Procs, NEW s \in Sigs, NEW cur, NEW X, p \notin X,
         Awake(k), AllOK(k, cur, X)
  PROVE  /\ LET r == PostSig(k, p, s) IN
              /\ Served(k, r, p, cur, X)
              /\ r.proc[p].stat = k.proc[p].stat /\ r.proc[p].wchan = k.proc[p].wchan
              /\ r.proc[p].sintr = k.proc[p].sintr /\ r.proc[p].pc = k.proc[p].pc
         /\ LET r == DropSig(k, p, s) IN
              /\ Served(k, r, p, cur, X)
              /\ r.proc[p].stat = k.proc[p].stat /\ r.proc[p].wchan = k.proc[p].wchan
              /\ r.proc[p].sintr = k.proc[p].sintr /\ r.proc[p].pc = k.proc[p].pc
  <1>0. k.proc[p].siglist \in SUBSET Sigs
    BY OneOK DEF AllProcs, Proc
  <1>1. PICK S \in SUBSET Sigs : PostSig(k, p, s) = Put(k, p, [k.proc[p] EXCEPT !.siglist = S])
    BY <1>0 DEF PostSig
  <1>2. PICK S2 \in SUBSET Sigs : DropSig(k, p, s) = Put(k, p, [k.proc[p] EXCEPT !.siglist = S2])
    BY <1>0 DEF DropSig
  <1>3. LET r == PostSig(k, p, s) IN
              /\ Served(k, r, p, cur, X)
              /\ r.proc[p].stat = k.proc[p].stat /\ r.proc[p].wchan = k.proc[p].wchan
              /\ r.proc[p].sintr = k.proc[p].sintr /\ r.proc[p].pc = k.proc[p].pc
    <2> DEFINE t == [k.proc[p] EXCEPT !.siglist = S]
               r == Put(k, p, t)
    <2>1. /\ Awake(r) /\ AllOK(r, cur, X) /\ Same(k, r, p, {}) /\ r.proc[p] = t
          /\ t.stat = k.proc[p].stat /\ t.wchan = k.proc[p].wchan
          /\ t.sintr = k.proc[p].sintr /\ t.pc = k.proc[p].pc
      BY SiglistOK
    <2>2. PostSig(k, p, s) = r
      BY <1>1
    <2> HIDE DEF r, t
    <2>3. Served(k, r, p, cur, X)
      BY <2>1 DEF Served, Same
    <2> QED  BY <2>1, <2>2, <2>3
  <1>4. LET r == DropSig(k, p, s) IN
              /\ Served(k, r, p, cur, X)
              /\ r.proc[p].stat = k.proc[p].stat /\ r.proc[p].wchan = k.proc[p].wchan
              /\ r.proc[p].sintr = k.proc[p].sintr /\ r.proc[p].pc = k.proc[p].pc
    <2> DEFINE t == [k.proc[p] EXCEPT !.siglist = S2]
               r == Put(k, p, t)
    <2>1. /\ Awake(r) /\ AllOK(r, cur, X) /\ Same(k, r, p, {}) /\ r.proc[p] = t
          /\ t.stat = k.proc[p].stat /\ t.wchan = k.proc[p].wchan
          /\ t.sintr = k.proc[p].sintr /\ t.pc = k.proc[p].pc
      BY SiglistOK
    <2>2. DropSig(k, p, s) = r
      BY <1>2
    <2> HIDE DEF r, t
    <2>3. Served(k, r, p, cur, X)
      BY <2>1 DEF Served, Same
    <2> QED  BY <2>1, <2>2, <2>3
  <1> QED  BY <1>3, <1>4

\* Two steps at p in a row.
LEMMA ServedTwice ==
  ASSUME NEW k, NEW k1, NEW r, NEW p, NEW cur, NEW X, Same(k, k1, p, {Proc0}),
         Served(k1, r, p, cur, X)
  PROVE  Served(k, r, p, cur, X)
  BY DEF Served, Same

\* A process that sleeps with PCATCH or is stopped is made runnable, or taken off its queue.
LEMMA SignalledOK ==
  ASSUME NEW k, NEW p \in Procs, NEW cur, NEW X, p \notin X, Awake(k), AllOK(k, cur, X),
         k.proc[p].stat \in {"SSLEEP", "SSTOP"}, k.proc[p].pcatch \/ k.proc[p].wchan = None
  PROVE  /\ Served(k, setrunnable(k, p), p, cur, X)
         /\ k.proc[p].stat = "SSTOP" /\ k.proc[p].wchan # None => Served(k, unsleep(k, p), p, cur, X)
  <1> DEFINE q == k.proc[p]
             Y == X \cup {p}
  <1>1. /\ p \in AllProcs /\ OK(p, q, cur) /\ q \in Proc /\ (q.onslp <=> q.wchan # None)
        /\ ~q.onrun
    BY OneOK DEF AllProcs
  <1>2. AllOK(k, cur, Y)
    BY DEF AllOK
  <1>3. OK(p, Ran(q), cur) /\ (q.stat = "SSTOP" => OK(p, Unslept(q), cur))
    BY <1>1, RanOK
  <1>4. ASSUME NEW r, AllOK(r, cur, Y), OK(p, r.proc[p], cur)
        PROVE  AllOK(r, cur, X)
    BY <1>4 DEF AllOK
  <1>5. Served(k, setrunnable(k, p), p, cur, X)
    BY <1>1, <1>2, <1>3, <1>4, setrunnableOK DEF Served
  <1>6. ASSUME q.stat = "SSTOP", q.wchan # None
        PROVE  Served(k, unsleep(k, p), p, cur, X)
    BY <1>1, <1>2, <1>3, <1>4, <1>6, RunOrUnsleep DEF Served
  <1> QED  BY <1>5, <1>6

\* psignal's switch on p_stat serves the signal or stops the process.
LEMMA DeliverOK ==
  ASSUME NEW k, NEW p \in Procs, NEW s \in Sigs, NEW st, NEW cur, NEW X, p \notin X,
         Awake(k), AllOK(k, cur, X)
  PROVE  LET r == Deliver(k, p, s, st)
         IN \/ Served(k, r, p, cur, X)
            \/ r = st /\ k.proc[p].stat = "SSLEEP" /\ k.proc[p].sintr /\ s \in StopSigs
  <1> DEFINE q == k.proc[p]
             r == Deliver(k, p, s, st)
             k1 == IF action(p, s) = "DFL" THEN DropSig(k, p, s) ELSE k
             k2 == Put(k1, p, [k1.proc[p] EXCEPT !.stat = "SSLEEP"])
  <1>0. /\ OK(p, q, cur) /\ q \in Proc /\ (q.onslp <=> q.wchan # None) /\ (q.sintr => q.pcatch)
        /\ k \in Kernel /\ p \in AllProcs /\ WakeOK(q)
    BY OneOK DEF AllProcs, Awake
  <1>1. Served(k, k, p, cur, X)
    BY DEF Served, Same
  <1>2. Served(k, DropSig(k, p, s), p, cur, X)
    BY PostSigOK
  <1>3. CASE q.stat = "SSLEEP" /\ ~q.sintr
    BY <1>3, <1>1 DEF Deliver
  <1>4. CASE q.stat = "SSLEEP" /\ q.sintr
    <2>1. Served(k, setrunnable(k, p), p, cur, X)
      BY <1>0, <1>4, SignalledOK
    <2>2. \/ r = k \/ r = DropSig(k, p, s) \/ r = setrunnable(k, p) \/ (r = st /\ s \in StopSigs)
      BY <1>4 DEF Deliver
    <2> QED  BY <2>1, <2>2, <1>1, <1>2, <1>4
  <1>5. CASE q.stat = "SSTOP"
    <2>0. q.pcatch \/ q.wchan = None
      BY <1>0, <1>5 DEF OK, StatOK, ChanOK, SleepOK, InIssignal
    <2>1. Served(k, setrunnable(k, p), p, cur, X)
      BY <1>5, <2>0, SignalledOK
    <2>2. /\ Served(k, k1, p, cur, X)
          /\ k1.proc[p].stat = "SSTOP" /\ k1.proc[p].wchan = q.wchan /\ k1.proc[p].pc = q.pc
      BY <1>1, <1>2, <1>5, PostSigOK
    <2>3. Served(k, setrunnable(k1, p), p, cur, X)
      <3> HIDE DEF k1
      <3>1. Awake(k1) /\ AllOK(k1, cur, X)
        BY <2>2 DEF Served
      <3>2. k1.proc[p].pcatch \/ k1.proc[p].wchan = None
        <4>1. OK(p, k1.proc[p], cur)
          BY <3>1, <1>0 DEF AllOK
        <4> QED  BY <4>1, <2>2 DEF OK, StatOK, ChanOK, SleepOK, InIssignal
      <3> QED  BY <3>1, <3>2, <2>2, SignalledOK, ServedTwice DEF Served
    <2>4. ASSUME q.wchan # None
          PROVE  Served(k, k2, p, cur, X)
      <3>0. Awake(k1) /\ AllOK(k1, cur, X) /\ Same(k, k1, p, {Proc0})
        BY <2>2 DEF Served
      <3> DEFINE q1 == k1.proc[p]
                 q2 == [q1 EXCEPT !.stat = "SSLEEP"]
      <3>1. OK(p, q1, cur) /\ q1 \in Proc /\ (q1.onslp <=> q1.wchan # None) /\ WakeOK(q1) /\ k1 \in Kernel
        <4> HIDE DEF k1
        <4> QED  BY <3>0, OneOK, <1>0 DEF Awake
      <3>2. q1.pc # "stopping"
        BY <3>1, <2>2, <2>4 DEF WakeOK
      <3> HIDE DEF k1
      <3>3. OK(p, q2, cur)
        BY <3>1, <3>2, <2>2, <2>4, StopOK
      <3>4. q2 \in Proc /\ WakeOK(q2)
        <4>1. q2 \in Proc
          BY <3>3 DEF OK
        <4>2. q2.stat = "SSLEEP" /\ q2.onslp = q1.onslp /\ q2.onrun = q1.onrun /\ q2.pc = q1.pc
          BY <3>1 DEF Proc
        <4> HIDE DEF q2
        <4> QED  BY <4>1, <4>2, <3>1 DEF WakeOK
      <3>5. X \ {p} = X
        OBVIOUS
      <3> HIDE DEF q2
      <3>6. Served(k1, Put(k1, p, q2), p, cur, X)
        BY <1>0, <3>0, <3>1, <3>3, <3>4, <3>5, PutOK, PutAwake, PutFacts DEF Served, Same
      <3> QED  BY <3>6, <3>0, ServedTwice DEF q2
    <2>5. ASSUME q.wchan # None
          PROVE  Served(k, unsleep(k, p), p, cur, X)
      BY <1>5, <2>0, <2>5, SignalledOK
    <2>6. \/ r = k \/ r = DropSig(k, p, s) \/ r = setrunnable(k, p) \/ r = setrunnable(k1, p)
          \/ (r = k2 /\ q.wchan # None) \/ (r = unsleep(k, p) /\ q.wchan # None)
      BY <1>5 DEF Deliver
    <2> HIDE DEF r, k1, k2
    <2> QED  BY <2>1, <2>3, <2>4, <2>5, <2>6, <1>1, <1>2 DEF r
  <1>6. CASE q.stat \notin {"SSLEEP", "SSTOP"}
    BY <1>6, <1>1 DEF Deliver
  <1> QED  BY <1>3, <1>4, <1>5, <1>6

\* psignal, up to the state it leaves when it stops p.
LEMMA Psignal1OK ==
  ASSUME NEW k, NEW p \in Procs, NEW s \in Sigs, NEW st, NEW cur, NEW X, p \notin X,
         Awake(k), AllOK(k, cur, X)
  PROVE  LET r == Psignal1(k, p, s, st)
         IN \/ Served(k, r, p, cur, X)
            \/ r = st /\ k.proc[p].stat = "SSLEEP" /\ k.proc[p].sintr /\ s \in StopSigs
  <1> DEFINE k1 == PostSig(k, p, s)
             r == Psignal1(k, p, s, st)
  <1>1. Served(k, k, p, cur, X)
    BY DEF Served, Same
  <1>2. /\ Served(k, k1, p, cur, X) /\ k1.proc[p].stat = k.proc[p].stat
        /\ k1.proc[p].sintr = k.proc[p].sintr
    BY PostSigOK
  <1>3. r = k \/ r = k1 \/ r = Deliver(k1, p, s, st)
    BY DEF Psignal1
  <1> HIDE DEF k1, r
  <1>4. Awake(k1) /\ AllOK(k1, cur, X) /\ Same(k, k1, p, {Proc0})
    BY <1>2 DEF Served
  <1>5. \/ Served(k1, Deliver(k1, p, s, st), p, cur, X)
        \/ Deliver(k1, p, s, st) = st /\ k.proc[p].stat = "SSLEEP" /\ k.proc[p].sintr /\ s \in StopSigs
    BY <1>4, <1>2, DeliverOK
  <1> QED  BY <1>1, <1>2, <1>3, <1>4, <1>5, ServedTwice DEF r

\* The SIGCHLD to the parent leaves p itself alone.
LEMMA ChldOK ==
  ASSUME NEW k, NEW p \in Procs, NEW cur, NEW X \in SUBSET {p}, Awake(k), AllOK(k, cur, X),
         k.proc[p].wchan # Proc0
  PROVE  /\ LET r == Chld(k, p) IN Awake(r) /\ AllOK(r, cur, X) /\ r.proc[p] = k.proc[p]
         /\ LET r == ChldStop(k, p) IN Awake(r) /\ AllOK(r, cur, X) /\ r.proc[p] = k.proc[p]
  <1> DEFINE r == Chld(k, p)
  <1>1. Awake(r) /\ AllOK(r, cur, X) /\ r.proc[p] = k.proc[p]
    <2>1. CASE r = k
      BY <2>1
    <2>2. CASE r # k
      <3>1. /\ r = Psignal1(k, Parent[p], SIGCHLD, k) /\ Parent[p] # None /\ SIGCHLD \in Sigs
        BY <2>2 DEF Chld
      <3>2. Parent[p] \in Procs /\ Parent[p] \notin X /\ p \in AllProcs /\ p # Parent[p]
        BY <3>1, SleepConstants DEF AllProcs
      <3>3. Served(k, r, Parent[p], cur, X)
        BY <3>1, <3>2, <2>2, Psignal1OK, SMTT(40)
      <3> HIDE DEF r
      <3> QED  BY <3>2, <3>3 DEF Served, Same
    <2> QED  BY <2>1, <2>2
  <1>2. ChldStop(k, p) = k \/ ChldStop(k, p) = r
    BY DEF ChldStop
  <1> QED  BY <1>1, <1>2

\* stop() and its wakeup of the parent.
LEMMA stopOK ==
  ASSUME NEW k, NEW p \in Procs, NEW cur, AllOK(k, cur, {p}),
         \A t \in AllProcs : t # p => WakeOK(k.proc[t]),
         ~k.proc[p].onrun, k.proc[p].pc # "stopping",
         k.proc[p].wchan \in Chans \cup {Selwait, p, None}
  PROVE  LET r == stop(k, p)
         IN Awake(r) /\ AllOK(r, cur, {p}) /\ r.proc[p] = [k.proc[p] EXCEPT !.stat = "SSTOP"]
  <1> DEFINE q == k.proc[p]
             q1 == [q EXCEPT !.stat = "SSTOP"]
             k1 == Put(k, p, q1)
  <1>0. k \in Kernel /\ q \in Proc /\ p \in AllProcs
    BY DEF AllOK, Kernel, AllProcs
  <1>1. /\ q1 \in Proc /\ q1.stat = "SSTOP" /\ q1.onrun = q.onrun /\ q1.pc = q.pc
        /\ q1.wchan = q.wchan
    BY <1>0 DEF Proc
  <1>2. Awake(k1) /\ AllOK(k1, cur, {p}) /\ k1.proc[p] = q1
    <2> HIDE DEF q1
    <2>1. WakeOK(q1) /\ {p} \cup {p} = {p}
      BY <1>1 DEF WakeOK
    <2> QED  BY <1>0, <1>1, <2>1, PutAway, PutAwakes, PutFacts
  <1>3. CASE Parent[p] = None
    BY <1>3, <1>2 DEF stop
  <1>4. CASE Parent[p] # None
    <2>1. stop(k, p) = wakeup(k1, Parent[p])
      BY <1>4 DEF stop
    <2>2. /\ Parent[p] \in AllChans /\ p # None
          /\ q.wchan \notin {Parent[p], Proc0}
      BY <1>4, SleepConstants DEF AllChans, AllProcs
    <2> HIDE DEF k1, q1
    <2>3. LET r == wakeup(k1, Parent[p]) IN
            Awake(r) /\ AllOK(r, cur, {p}) /\ \A t : Same(k1, r, t, {Parent[p], Proc0})
      BY <1>2, <2>2, wakeupOK
    <2>4. Same(k1, wakeup(k1, Parent[p]), None, {Parent[p], Proc0})
      BY <2>3
    <2>5. wakeup(k1, Parent[p]).proc[p] = q1
      BY <2>4, <2>2, <1>0, <1>1, <1>2 DEF Same
    <2> QED  BY <2>1, <2>3, <2>5 DEF q1
  <1> QED  BY <1>3, <1>4

\* psignal keeps the table consistent.
LEMMA psignalOK ==
  ASSUME NEW k, NEW p \in Procs, NEW s \in Sigs, NEW cur, Awake(k), AllOK(k, cur, {})
  PROVE  AllOK(psignal(k, p, s), cur, {})
  <1> DEFINE k1 == PostSig(k, p, s)
             k2 == DropSig(k1, p, s)
             k3 == ChldStop(k2, p)
             k4 == stop(k3, p)
             q == k.proc[p]
  <1>0. p \in AllProcs /\ p \notin {} /\ None # Proc0 /\ p # Proc0
    BY SleepConstants DEF AllProcs, AllChans
  <1>1. psignal(k, p, s) = Psignal1(k, p, s, k4)
    BY DEF psignal
  <1>2. CASE Served(k, psignal(k, p, s), p, cur, {})
    BY <1>2 DEF Served
  <1>3. CASE psignal(k, p, s) = k4 /\ q.stat = "SSLEEP" /\ q.sintr
    <2>1. /\ Awake(k1) /\ AllOK(k1, cur, {}) /\ k1.proc[p].stat = q.stat
          /\ k1.proc[p].sintr = q.sintr
      BY <1>0, PostSigOK DEF Served
    <2> HIDE DEF k1
    <2>2. /\ Awake(k2) /\ AllOK(k2, cur, {}) /\ k2.proc[p].stat = q.stat
          /\ k2.proc[p].sintr = q.sintr
      BY <1>0, <2>1, PostSigOK DEF Served
    <2> HIDE DEF k2
    <2>3. k2.proc[p].wchan # Proc0
      BY <1>0, <2>2, OneOK
    <2>4. Awake(k3) /\ AllOK(k3, cur, {}) /\ k3.proc[p] = k2.proc[p]
      BY <2>2, <2>3, ChldOK
    <2> HIDE DEF k3
    <2> DEFINE o == k3.proc[p]
    <2>5. /\ OK(p, o, cur) /\ o.stat = "SSLEEP" /\ o.sintr /\ ~o.onrun /\ AllOK(k3, cur, {p})
          /\ o.onslp <=> o.wchan # None
      <3>1. o.stat = "SSLEEP" /\ o.sintr
        BY <2>2, <2>4, <1>3
      <3>2. AllOK(k3, cur, {p})
        BY <2>4, <1>0, AllButOne
      <3> QED  BY <3>1, <3>2, <2>4, <1>0, OneOK
    <2>6. /\ o.wchan # None /\ o.pc # "stopping" /\ o.wchan \in Chans \cup {Selwait, p, None}
      BY <2>5, <1>0 DEF OK, StatOK, ChanOK
    <2>7. AllOK(k4, cur, {p}) /\ k4.proc[p] = [o EXCEPT !.stat = "SSTOP"]
      BY <2>4, <2>5, <2>6, stopOK DEF Awake
    <2>8. OK(p, [o EXCEPT !.stat = "SSTOP"], cur)
      BY <2>5, <2>6, StopOK
    <2> HIDE DEF k4, o
    <2> QED  BY <2>7, <2>8, <1>0, <1>3, AllButOne
  <1> HIDE DEF k4
  <1> QED  BY <1>0, <1>1, <1>2, <1>3, Psignal1OK

-----------------------------------------------------------------------------
(* The actions *)

\* The state a step commits.
LEMMA Committed ==
  ASSUME NEW k, Commit(k), AllOK(k, curproc', {}), curproc' \in AllProcs \cup {None}
  PROVE  Inv'
  <1>1. K' = k
    BY DEF K, Commit, AllOK, Kernel
  <1> QED  BY <1>1 DEF Inv, AllOK

\* The invariant, in terms of the variables.
LEMMA KFacts ==
  ASSUME Inv
  PROVE  /\ K.proc = proc /\ K.panicstr = panicstr /\ panicstr = "none" /\ K \in Kernel
         /\ \A p \in AllProcs : proc[p] \in Proc /\ OK(p, proc[p], curproc)
  BY DEF Inv, K, AllOK, Kernel

\* A process is fit for wakeup except at splhigh inside tsleep.
LEMMA NotRunningAwake ==
  ASSUME NEW p \in AllProcs, NEW q, NEW cur, OK(p, q, cur),
         p # cur \/ ~(q.pc \in {"issig", "stopping"} /\ q.ctx = "before" /\ q.wchan # None)
  PROVE  WakeOK(q)
  BY DEF OK, PlaceOK, StatOK, ChanOK, WakeOK, InIssignal

\* Interrupts find the table fit for wakeup.
LEMMA InvAwake ==
  ASSUME Inv
  PROVE  /\ \A p \in AllProcs : p # curproc => WakeOK(proc[p])
         /\ ~Masked => Awake(K)
  <1>1. \A p \in AllProcs : p # curproc => WakeOK(proc[p])
    BY KFacts, NotRunningAwake
  <1>2. ASSUME ~Masked, NEW p \in AllProcs, p = curproc
        PROVE  WakeOK(proc[p])
    <2>1. ~(proc[p].pc \in {"issig", "stopping"} /\ proc[p].ctx = "before" /\ proc[p].wchan # None)
      BY <1>2, SleepConstants DEF Masked, AllChans
    <2> QED  BY <2>1, KFacts, NotRunningAwake
  <1> QED  BY <1>1, <1>2, KFacts DEF Awake

\* p gets or gives up the CPU, or neither happens; c is the current process afterwards.
Hands(p, c) == c = curproc \/ (curproc = p /\ c = None) \/ (curproc = None /\ c = p)

\* The others do not notice who gets the CPU.
LEMMA Away ==
  ASSUME Inv, NEW p \in AllProcs, NEW c, Hands(p, c)
  PROVE  AllOK(K, c, {p})
  <1>1. ASSUME NEW t \in AllProcs, t # p
        PROVE  OK(t, proc[t], c)
    <2>1. OK(t, proc[t], curproc) /\ t # None
      BY KFacts, SleepConstants DEF AllChans
    <2>2. (t = curproc) <=> (t = c)
      BY <2>1, <1>1 DEF Hands
    <2> QED  BY <2>1, <2>2 DEF OK, PlaceOK
  <1> QED  BY <1>1, KFacts DEF AllOK

\* A step at p alone.
LEMMA Local ==
  ASSUME Inv, NEW p \in AllProcs, NEW q, Hands(p, curproc'), OK(p, q, curproc'),
         Commit(Put(K, p, q))
  PROVE  Inv'
  <1>1. AllOK(Put(K, p, q), curproc', {p} \ {p})
    BY Away, PutOK
  <1>2. curproc' \in AllProcs \cup {None} /\ {p} \ {p} = {}
    BY DEF Hands, Inv
  <1> QED  BY <1>1, <1>2, Committed

\* The initial table is consistent.
LEMMA InitInv == Init => Inv
  <1> SUFFICES ASSUME Init PROVE Inv
    OBVIOUS
  <1> USE SleepConstants
  <1>1. ASSUME NEW p \in AllProcs
        PROVE  proc[p] \in Proc /\ OK(p, proc[p], curproc)
    <2>0. PICK q : q = proc[p]
      OBVIOUS
    <2>1. CASE p = Proc0
      <3>1. q = Fresh("scan")
        BY <2>0, <2>1 DEF Init
      <3>2. q \in Proc
        BY <3>1 DEF Fresh, Proc
      <3>3. PlaceOK(p, q, curproc) /\ StatOK(p, q)
        BY <3>1, <2>1 DEF Fresh, PlaceOK, StatOK, Init, AllChans, AllProcs
      <3>4. ChanOK(p, q) /\ SleepOK(p, q)
        BY <3>1, <2>1 DEF Fresh, ChanOK, SleepOK, InIssignal, InSleep
      <3> QED  BY <3>2, <3>3, <3>4, <2>0 DEF OK
    <2>2. CASE p # Proc0
      <3>1. q = Fresh("kern")
        BY <2>0, <2>2 DEF Init
      <3>2. q \in Proc
        BY <3>1 DEF Fresh, Proc
      <3>3. PlaceOK(p, q, curproc) /\ StatOK(p, q)
        BY <3>1, <2>2 DEF Fresh, PlaceOK, StatOK, Init, AllChans, AllProcs
      <3>4. ChanOK(p, q) /\ SleepOK(p, q)
        BY <3>1, <2>2 DEF Fresh, ChanOK, SleepOK, InIssignal, InSleep
      <3> QED  BY <3>2, <3>3, <3>4, <2>0 DEF OK
    <2> QED  BY <2>1, <2>2
  <1>2. K \in Kernel /\ K.proc = proc
    <2> HIDE DEF Proc
    <2> QED  BY <1>1 DEF Init, K, Kernel
  <1> QED  BY <1>1, <1>2 DEF Inv, AllOK, Init

\* The interrupts.
LEMMA InterruptStep ==
  ASSUME Inv,
         \/ \E c \in Chans : Wakeup(c)
         \/ \E p \in Procs, s \in Sigs \ {SIGCHLD} : Signal(p, s)
         \/ \E p \in Procs : Endtsleep(p) \/ Selwakeup(p)
         \/ Vmmeter
  PROVE  Inv'
  <1>1. Awake(K) /\ AllOK(K, curproc, {}) /\ UNCHANGED curproc /\ curproc \in AllProcs \cup {None}
    BY InvAwake DEF Wakeup, Signal, Endtsleep, Selwakeup, Vmmeter, Interrupts, Inv
  <1>2. CASE \E c \in Chans : Wakeup(c)
    <2>1. PICK c \in Chans : Wakeup(c)
      BY <1>2
    <2>2. Commit(wakeup(K, c)) /\ AllOK(wakeup(K, c), curproc, {})
      BY <2>1, <1>1, wakeupOK DEF Wakeup, AllChans
    <2> QED  BY <2>2, <1>1, Committed
  <1>3. CASE \E p \in Procs, s \in Sigs \ {SIGCHLD} : Signal(p, s)
    <2>1. PICK p \in Procs, s \in Sigs \ {SIGCHLD} : Signal(p, s)
      BY <1>3
    <2>2. Commit(psignal(K, p, s)) /\ AllOK(psignal(K, p, s), curproc, {})
      BY <2>1, <1>1, psignalOK DEF Signal
    <2> QED  BY <2>2, <1>1, Committed
  <1>4. ASSUME NEW p \in Procs, Endtsleep(p)
        PROVE  Inv'
    <2> DEFINE k == endtsleep(Put(K, p, [K.proc[p] EXCEPT !.callout = FALSE]), p)
    <2>1. AllOK(k, curproc, {})
      BY <1>4, <1>1, KFacts, endtsleepOK DEF Endtsleep
    <2>2. Commit(k)
      BY <1>4, KFacts DEF Endtsleep
    <2> HIDE DEF k
    <2> QED  BY <2>1, <2>2, <1>1, Committed
  <1>5. ASSUME NEW p \in Procs, Selwakeup(p)
        PROVE  Inv'
    <2>1. Commit(selwakeup(K, p)) /\ AllOK(selwakeup(K, p), curproc, {})
      BY <1>5, <1>1, selwakeupOK DEF Selwakeup
    <2> QED  BY <2>1, <1>1, Committed
  <1>6. CASE Vmmeter
    <2>1. Commit(wakeup(K, Proc0)) /\ AllOK(wakeup(K, Proc0), curproc, {})
      BY <1>6, <1>1, wakeupOK DEF Vmmeter, AllChans, AllProcs
    <2> QED  BY <2>1, <1>1, Committed
  <1> QED  BY <1>2, <1>3, <1>4, <1>5, <1>6

\* The records the current process's steps build are processes.
LEMMA EnqueueType ==
  ASSUME NEW q \in Proc, NEW c \in AllChans, NEW catch \in BOOLEAN, NEW timo \in BOOLEAN
  PROVE  [q EXCEPT !.wchan = c, !.onslp = TRUE, !.catch = catch, !.pcatch = catch, !.timo = timo,
                   !.callout = timo, !.sintr = catch, !.sig = None, !.woken = FALSE,
                   !.expired = FALSE] \in Proc
  BY ZenonT(80) DEF Proc

\* The type of a process that enters issignal.
LEMMA PlaceType ==
  ASSUME NEW q \in Proc
  PROVE  /\ [q EXCEPT !.pc = "issig", !.ctx = "before"] \in Proc
         /\ [q EXCEPT !.pc = "issig", !.ctx = "after"] \in Proc
  <1>1. [q EXCEPT !.pc = "issig", !.ctx = "before"] \in Proc
    BY ZenonT(80) DEF Proc
  <1>2. [q EXCEPT !.pc = "issig", !.ctx = "after"] \in Proc
    BY ZenonT(80) DEF Proc
  <1> QED  BY <1>1, <1>2

\* The type of a process whose tsleep has returned.
LEMMA ReturnType ==
  ASSUME NEW q \in Proc
  PROVE  [q EXCEPT !.pc = "kern", !.ret = "none", !.sig = None, !.catch = FALSE,
                   !.pcatch = FALSE, !.timo = FALSE, !.woken = FALSE, !.expired = FALSE,
                   !.taking = None] \in Proc
  BY ZenonT(80) DEF Proc

\* Facts about the current process.
LEMMA CurFacts ==
  ASSUME Inv, NEW p \in AllProcs, Cur(p)
  PROVE  /\ curproc = p /\ p # None /\ K.proc[p] = proc[p] /\ OK(p, proc[p], p) /\ proc[p] \in Proc
         /\ Hands(p, None) /\ Hands(p, p) /\ panicstr = "none" /\ K.panicstr = "none"
  BY KFacts, SleepConstants DEF Cur, Hands, AllChans

\* The second Put at p counts.
LEMMA PutTwice ==
  ASSUME NEW k \in Kernel, NEW p \in AllProcs, NEW q \in Proc, NEW r
  PROVE  Put(Put(k, p, q), p, r) = Put(k, p, r) /\ Put(k, p, q).proc[p] = q
  <1> HIDE DEF Proc
  <1> QED  BY DEF Put, Kernel

\* tsleep finds the process running and off the run queue.
LEMMA TsleepStep ==
  ASSUME Inv, NEW p \in Procs, NEW c \in Chans \cup {Selwait, p}, NEW catch \in BOOLEAN,
         NEW timo \in BOOLEAN, Tsleep(p, c, catch, timo)
  PROVE  Inv'
  <1> USE SleepConstants
  <1>0. p \in AllProcs /\ p # Proc0 /\ Cur(p) /\ c # None /\ c \in AllChans
    BY DEF AllProcs, AllChans, Tsleep
  <1>1. PICK q \in Proc : q = proc[p]
    BY <1>0, CurFacts
  <1>2. OK(p, q, p) /\ q.pc = "kern" /\ K.proc[p] = q /\ K \in Kernel /\ curproc = p
    BY <1>0, <1>1, CurFacts, KFacts DEF Tsleep
  <1>3. q.stat = "SRUN" /\ ~q.onrun /\ q.inmem /\ ~q.tmout /\ q.onrun = FALSE
    BY <1>2 DEF OK, PlaceOK, StatOK, SleepOK, InSleep, InIssignal, Proc
  <1>4. PICK e : e = [q EXCEPT !.wchan = c, !.onslp = TRUE, !.catch = catch, !.pcatch = catch,
                               !.timo = timo, !.callout = timo, !.sintr = catch, !.sig = None,
                               !.woken = FALSE, !.expired = FALSE]
    OBVIOUS
  <1>5. e \in Proc
    BY <1>0, <1>4, EnqueueType
  <1>6. Enqueue(K, p, c, catch, timo) = Put(K, p, e) /\ Put(K, p, e).proc[p] = e
    BY <1>0, <1>2, <1>4, <1>5, PutTwice DEF Enqueue
  <1>7. /\ e.wchan = c /\ e.onslp = TRUE /\ e.catch = catch /\ e.pcatch = catch /\ e.timo = timo
        /\ e.callout = timo /\ e.sintr = catch /\ e.sig = None /\ e.woken = FALSE
        /\ e.expired = FALSE /\ e.stat = "SRUN" /\ e.onrun = FALSE /\ e.inmem = q.inmem /\ e.tmout = q.tmout
    BY <1>3, <1>4, ZenonT(80) DEF Proc
  <1>8. CASE catch /\ Unblocked(p) # {}
    <2>1. PICK r : r = [e EXCEPT !.pc = "issig", !.ctx = "before"]
      OBVIOUS
    <2>2. Commit(Put(Put(K, p, e), p, r)) /\ curproc' = p
      BY <1>1, <1>2, <1>3, <1>6, <1>8, <2>1 DEF Tsleep
    <2>a. r \in Proc
      BY <1>5, <2>1, PlaceType
    <2>b. r.pc = "issig" /\ r.ctx = "before"
      BY <1>5, <2>1 DEF Proc
    <2>3. r \in Proc /\ r.pc = "issig" /\ r.ctx = "before"
      BY <2>a, <2>b
    <2>4. /\ r.wchan = c /\ r.onslp = TRUE /\ r.catch = catch /\ r.pcatch = catch /\ r.timo = timo
          /\ r.callout = timo /\ r.sintr = catch /\ r.sig = None /\ r.woken = FALSE
          /\ r.expired = FALSE /\ r.stat = "SRUN" /\ r.onrun = FALSE /\ r.inmem = q.inmem /\ r.tmout = q.tmout
      BY <1>5, <1>7, <2>1 DEF Proc
    <2>5. PlaceOK(p, r, p) /\ StatOK(p, r) /\ ChanOK(p, r)
      BY <2>3, <2>4, <1>0, <1>3, <1>8 DEF PlaceOK, StatOK, ChanOK, InIssignal
    <2>6. SleepOK(p, r)
      BY <2>3, <2>4, <1>0, <1>3, <1>8 DEF SleepOK, InIssignal, InSleep
    <2> QED  BY <2>2, <2>3, <2>5, <2>6, <1>0, <1>2, <1>5, PutTwice, CurFacts, Local DEF OK
  <1>9. CASE ~(catch /\ Unblocked(p) # {})
    <2>1. PICK r : r = [e EXCEPT !.stat = "SSLEEP", !.pc = "slept"]
      OBVIOUS
    <2>2. Commit(Put(Put(K, p, e), p, r)) /\ curproc' = None
      BY <1>1, <1>2, <1>3, <1>6, <1>9, <2>1 DEF Tsleep, SleepNow
    <2>3. r \in Proc /\ r.pc = "slept" /\ r.stat = "SSLEEP"
      BY ONLY <1>5, <2>1, ZenonT(80) DEF Proc
    <2>4. /\ r.wchan = c /\ r.onslp = TRUE /\ r.catch = catch /\ r.pcatch = catch /\ r.timo = timo
          /\ r.callout = timo /\ r.sintr = catch /\ r.sig = None /\ r.woken = FALSE
          /\ r.expired = FALSE /\ r.onrun = FALSE /\ r.inmem = q.inmem /\ r.tmout = q.tmout
      BY <1>5, <1>7, <2>1 DEF Proc
    <2>5. PlaceOK(p, r, None) /\ StatOK(p, r) /\ ChanOK(p, r)
      BY <2>3, <2>4, <1>0, <1>3 DEF PlaceOK, StatOK, ChanOK, InIssignal, AllChans
    <2>6. SleepOK(p, r)
      BY <2>3, <2>4, <1>0, <1>3 DEF SleepOK, InIssignal, InSleep
    <2> QED  BY <2>2, <2>3, <2>5, <2>6, <1>0, <1>2, <1>5, PutTwice, CurFacts, Local DEF OK
  <1> QED  BY <1>8, <1>9

\* A step that changes the table at p alone.
LEMMA PutCommit ==
  ASSUME Inv, NEW p \in AllProcs, NEW r, proc' = [proc EXCEPT ![p] = r], UNCHANGED panicstr
  PROVE  Commit(Put(K, p, r))
  BY KFacts DEF Commit, Put, K

\* The mi_switch of a stop.
LEMMA StopSwitchStep ==
  ASSUME Inv, NEW p \in Procs, StopSwitch(p)
  PROVE  Inv'
  <1> USE SleepConstants
  <1>0. p \in AllProcs /\ p # Proc0 /\ Cur(p)
    BY DEF AllProcs, StopSwitch
  <1>1. PICK q \in Proc : q = proc[p]
    BY <1>0, CurFacts
  <1>2. OK(p, q, p) /\ q.pc = "stopping" /\ p # None /\ Hands(p, None)
    BY <1>0, <1>1, CurFacts DEF StopSwitch
  <1>3. PICK r : r = [q EXCEPT !.pc = "stopped"]
    OBVIOUS
  <1>4. Commit(Put(K, p, r)) /\ curproc' = None
    BY <1>0, <1>1, <1>3, PutCommit DEF StopSwitch
  <1>5. r \in Proc
    BY <1>3 DEF Proc
  <1>6. PlaceOK(p, r, None) /\ StatOK(p, r)
    BY <1>0, <1>2, <1>3 DEF OK, PlaceOK, StatOK, Proc
  <1>7. ChanOK(p, r) /\ SleepOK(p, r)
    BY <1>0, <1>2, <1>3 DEF OK, ChanOK, SleepOK, InIssignal, InSleep, Proc
  <1> QED  BY <1>0, <1>2, <1>4, <1>5, <1>6, <1>7, Local DEF OK

\* tsleep has returned.
LEMMA ReturnStep ==
  ASSUME Inv, NEW p \in Procs, Return(p)
  PROVE  Inv'
  <1> USE SleepConstants
  <1>0. p \in AllProcs /\ p # Proc0 /\ Cur(p)
    BY DEF AllProcs, Return
  <1>1. PICK q \in Proc : q = proc[p]
    BY <1>0, CurFacts
  <1>2. OK(p, q, p) /\ q.pc = "return" /\ p # None /\ Hands(p, p) /\ curproc = p
    BY <1>0, <1>1, CurFacts DEF Return
  <1>3. PICK r : r = [q EXCEPT !.pc = "kern", !.ret = "none", !.sig = None, !.catch = FALSE,
                               !.pcatch = FALSE, !.timo = FALSE, !.woken = FALSE, !.expired = FALSE,
                               !.taking = None]
    OBVIOUS
  <1>4. Commit(Put(K, p, r)) /\ curproc' = p
    BY <1>0, <1>1, <1>2, <1>3, PutCommit DEF Return
  <1>5. r \in Proc
    BY <1>3, ReturnType
  <1>6. PlaceOK(p, r, p) /\ StatOK(p, r)
    BY <1>0, <1>2, <1>3 DEF OK, PlaceOK, StatOK, Proc
  <1>7. ChanOK(p, r) /\ SleepOK(p, r)
    BY <1>0, <1>2, <1>3 DEF OK, ChanOK, SleepOK, InIssignal, InSleep, Proc
  <1> QED  BY <1>0, <1>2, <1>4, <1>5, <1>6, <1>7, Local DEF OK

\* The test for signals on the way to user mode.
LEMMA UserRetStep ==
  ASSUME Inv, NEW p \in Procs, UserRet(p)
  PROVE  Inv'
  <1> USE SleepConstants
  <1>0. p \in AllProcs /\ p # Proc0 /\ Cur(p)
    BY DEF AllProcs, UserRet
  <1>1. PICK q \in Proc : q = proc[p]
    BY <1>0, CurFacts
  <1>2. OK(p, q, p) /\ q.pc = "kern" /\ p # None /\ Hands(p, p) /\ curproc = p
    BY <1>0, <1>1, CurFacts DEF UserRet
  <1>3. PICK r : r = [q EXCEPT !.pc = "issig", !.ctx = "user"]
    OBVIOUS
  <1>4. Commit(Put(K, p, r)) /\ curproc' = p
    BY <1>0, <1>1, <1>2, <1>3, PutCommit DEF UserRet
  <1>5. r \in Proc
    BY <1>3, ZenonT(80) DEF Proc
  <1>6. PlaceOK(p, r, p) /\ StatOK(p, r)
    BY <1>0, <1>2, <1>3 DEF OK, PlaceOK, StatOK, Proc
  <1>7. ChanOK(p, r) /\ SleepOK(p, r)
    BY <1>0, <1>2, <1>3 DEF OK, ChanOK, SleepOK, InIssignal, InSleep, Proc
  <1> QED  BY <1>0, <1>2, <1>4, <1>5, <1>6, <1>7, Local DEF OK

\* A preempted process goes on the run queue once.
LEMMA PreemptStep ==
  ASSUME Inv, NEW p \in Procs, Preempt(p)
  PROVE  Inv'
  <1> USE SleepConstants
  <1>0. p \in AllProcs /\ p # Proc0 /\ Cur(p)
    BY DEF AllProcs, Preempt
  <1>1. PICK q \in Proc : q = proc[p]
    BY <1>0, CurFacts
  <1>2. OK(p, q, p) /\ q.pc = "kern" /\ p # None /\ Hands(p, None) /\ K.proc[p] = q /\ K \in Kernel
    BY <1>0, <1>1, CurFacts, KFacts DEF Preempt
  <1>a. ~q.onrun
    BY <1>2 DEF OK, PlaceOK
  <1>b. PICK e : e = [q EXCEPT !.onrun = TRUE]
    OBVIOUS
  <1>c. e \in Proc
    BY <1>b DEF Proc
  <1>3. PICK r : r = [e EXCEPT !.pc = "preempted"]
    OBVIOUS
  <1>d. setrunqueue(K, p) = Put(K, p, e)
    BY <1>2, <1>a, <1>b DEF setrunqueue
  <1>4. Commit(Put(Put(K, p, e), p, r)) /\ curproc' = None
    BY <1>0, <1>2, <1>3, <1>c, <1>d, PutTwice DEF Preempt
  <1>e. Put(Put(K, p, e), p, r) = Put(K, p, r)
    BY <1>0, <1>2, <1>c, PutTwice
  <1>5. r \in Proc
    BY <1>3, <1>c DEF Proc
  <1>6. PlaceOK(p, r, None) /\ StatOK(p, r)
    BY <1>0, <1>2, <1>b, <1>3 DEF OK, PlaceOK, StatOK, Proc
  <1>7. ChanOK(p, r) /\ SleepOK(p, r)
    BY <1>0, <1>2, <1>b, <1>3 DEF OK, ChanOK, SleepOK, InIssignal, InSleep, Proc
  <1> QED  BY <1>0, <1>2, <1>4, <1>e, <1>5, <1>6, <1>7, Local DEF OK

\* The type of a process at label resume.
LEMMA ResetType ==
  ASSUME NEW q \in Proc
  PROVE  [q EXCEPT !.sintr = FALSE, !.tmout = FALSE, !.callout = FALSE] \in Proc
  BY DEF Proc

\* The type of a process that returns from tsleep.
LEMMA RetType ==
  ASSUME NEW q \in Proc, NEW x \in {"none", "0", "EINTR", "EWOULDBLOCK"}
  PROVE  [q EXCEPT !.pc = "return", !.ret = x] \in Proc
  BY ZenonT(80) DEF Proc

\* After label resume no callout, P_TIMEOUT or P_SINTR is left, and the result is true.
LEMMA ResumeStep ==
  ASSUME Inv, NEW p \in Procs, Resume(p)
  PROVE  Inv'
  <1> USE SleepConstants
  <1>0. p \in AllProcs /\ p # Proc0 /\ Cur(p)
    BY DEF AllProcs, Resume
  <1>1. PICK q \in Proc : q = proc[p]
    BY <1>0, CurFacts
  <1>2. OK(p, q, p) /\ q.pc = "resume" /\ p # None /\ Hands(p, p) /\ curproc = p
    BY <1>0, <1>1, CurFacts DEF Resume
  <1>3. PICK e : e = [q EXCEPT !.sintr = FALSE, !.tmout = FALSE, !.callout = FALSE]
    OBVIOUS
  <1>4. e = ResumeResets(q)
    <2>1. (IF q.tmout \/ ~q.timo THEN q.callout ELSE FALSE) = FALSE
      <3>1. q.callout \in BOOLEAN /\ (q.callout => q.timo /\ ~q.tmout)
        BY <1>2 DEF OK, SleepOK, Proc
      <3> QED  BY <3>1
    <2> QED  BY <2>1, <1>3 DEF ResumeResets
  <1>5. e \in Proc
    BY <1>3, ResetType
  <1>6. /\ e.sintr = FALSE /\ e.tmout = FALSE /\ e.callout = FALSE
        /\ e.stat = q.stat /\ e.wchan = q.wchan /\ e.onslp = q.onslp /\ e.onrun = q.onrun
        /\ e.inmem = q.inmem /\ e.catch = q.catch /\ e.timo = q.timo /\ e.sig = q.sig
        /\ e.pcatch = q.pcatch /\ e.woken = q.woken /\ e.expired = q.expired
    BY <1>3 DEF Proc
  <1>7. CASE \E x \in {"EWOULDBLOCK", "EINTR", "0"} :
               /\ Commit(Put(K, p, [e EXCEPT !.pc = "return", !.ret = x])) /\ UNCHANGED curproc
               /\ x = "EWOULDBLOCK" => q.tmout
               /\ x = "EINTR" => q.catch
               /\ x = "0" => q.sig # None \/ ~q.tmout
    <2>1. PICK x \in {"EWOULDBLOCK", "EINTR", "0"} :
               /\ Commit(Put(K, p, [e EXCEPT !.pc = "return", !.ret = x])) /\ UNCHANGED curproc
               /\ x = "EWOULDBLOCK" => q.tmout
               /\ x = "EINTR" => q.catch
               /\ x = "0" => q.sig # None \/ ~q.tmout
      BY <1>7
    <2>2. PICK r : r = [e EXCEPT !.pc = "return", !.ret = x]
      OBVIOUS
    <2>3. r \in Proc
      BY <1>5, <2>2, RetType
    <2>4. /\ r.pc = "return" /\ r.ret = x /\ r.sintr = FALSE /\ r.tmout = FALSE /\ r.callout = FALSE
          /\ r.stat = q.stat /\ r.wchan = q.wchan /\ r.onslp = q.onslp /\ r.onrun = q.onrun
          /\ r.inmem = q.inmem /\ r.catch = q.catch /\ r.timo = q.timo /\ r.sig = q.sig
          /\ r.pcatch = q.pcatch /\ r.woken = q.woken /\ r.expired = q.expired
      <3> HIDE <1>3
      <3> QED  BY <1>5, <1>6, <2>2 DEF Proc
    <2>5. PlaceOK(p, r, p) /\ StatOK(p, r) /\ ChanOK(p, r)
      BY <2>4, <1>0, <1>2 DEF OK, PlaceOK, StatOK, ChanOK, InIssignal
    <2>6. SleepOK(p, r)
      BY <2>4, <2>1, <1>0, <1>2 DEF OK, SleepOK, ChanOK, InIssignal, InSleep
    <2> QED  BY <2>1, <2>2, <2>3, <2>5, <2>6, <1>0, <1>2, Local DEF OK
  <1>8. CASE /\ Commit(Put(K, p, [e EXCEPT !.pc = "issig", !.ctx = "after"])) /\ UNCHANGED curproc
             /\ q.catch
    <2>2. PICK r : r = [e EXCEPT !.pc = "issig", !.ctx = "after"]
      OBVIOUS
    <2>3. r \in Proc
      BY <1>5, <2>2, PlaceType
    <2>4. /\ r.pc = "issig" /\ r.ctx = "after" /\ r.sintr = FALSE /\ r.tmout = FALSE /\ r.callout = FALSE
          /\ r.stat = q.stat /\ r.wchan = q.wchan /\ r.onslp = q.onslp /\ r.onrun = q.onrun
          /\ r.inmem = q.inmem /\ r.catch = q.catch /\ r.timo = q.timo /\ r.sig = q.sig
          /\ r.pcatch = q.pcatch /\ r.woken = q.woken /\ r.expired = q.expired
      <3> HIDE <1>3
      <3> QED  BY <1>5, <1>6, <2>2 DEF Proc
    <2>5. PlaceOK(p, r, p) /\ StatOK(p, r) /\ ChanOK(p, r)
      BY <2>4, <1>0, <1>2 DEF OK, PlaceOK, StatOK, ChanOK, InIssignal
    <2>6. SleepOK(p, r)
      BY <2>4, <1>8, <1>0, <1>2 DEF OK, SleepOK, ChanOK, InIssignal, InSleep
    <2> QED  BY <1>8, <2>2, <2>3, <2>5, <2>6, <1>0, <1>2, Local DEF OK
  <1>9. QED
    <2> HIDE <1>3
    <2>1. CASE q.tmout /\ q.sig = None
      BY <2>1, <1>1, <1>4, <1>7 DEF Resume
    <2>2. CASE q.catch /\ q.sig # None
      BY <2>2, <1>1, <1>4, <1>7 DEF Resume
    <2>3. CASE q.catch /\ q.sig = None /\ ~q.tmout /\ Unblocked(p) # {}
      BY <2>3, <1>1, <1>4, <1>8 DEF Resume
    <2>4. CASE /\ ~(q.tmout /\ q.sig = None) /\ ~(q.catch /\ q.sig # None)
               /\ ~(q.catch /\ q.sig = None /\ ~q.tmout /\ Unblocked(p) # {})
      BY <2>4, <1>1, <1>4, <1>7 DEF Resume
    <2> QED  BY <2>1, <2>2, <2>3, <2>4

\* The swapper's scan.
LEMMA SchedScanStep ==
  ASSUME Inv, SchedScan
  PROVE  Inv'
  <1> USE SleepConstants
  <1>0. Proc0 \in AllProcs /\ Cur(Proc0)
    BY DEF AllProcs, SchedScan
  <1>1. PICK q \in Proc : q = proc[Proc0]
    BY <1>0, CurFacts
  <1>2. OK(Proc0, q, Proc0) /\ q.pc = "scan" /\ Hands(Proc0, Proc0) /\ curproc = Proc0
    BY <1>0, <1>1, CurFacts DEF SchedScan
  <1>3. PICK x \in {"swapin", "gosleep"} : proc' = [proc EXCEPT ![Proc0] = [q EXCEPT !.pc = x]]
    BY <1>1 DEF SchedScan
  <1>a. PICK r : r = [q EXCEPT !.pc = x]
    OBVIOUS
  <1>4. Commit(Put(K, Proc0, r)) /\ curproc' = Proc0
    BY <1>0, <1>2, <1>3, <1>a, PutCommit DEF SchedScan
  <1>5. r \in Proc
    BY <1>a DEF Proc
  <1>6. PlaceOK(Proc0, r, Proc0) /\ StatOK(Proc0, r)
    BY <1>0, <1>2, <1>a DEF OK, PlaceOK, StatOK, Proc
  <1>7. ChanOK(Proc0, r) /\ SleepOK(Proc0, r)
    BY <1>0, <1>2, <1>a DEF OK, ChanOK, SleepOK, InIssignal, InSleep, Proc
  <1> QED  BY <1>0, <1>2, <1>4, <1>5, <1>6, <1>7, Local DEF OK

\* The swapper goes to sleep.
LEMMA SchedSleepStep ==
  ASSUME Inv, SchedSleep
  PROVE  Inv'
  <1> USE SleepConstants
  <1>0. Proc0 \in AllProcs /\ Cur(Proc0) /\ Proc0 \in AllChans /\ Proc0 # None
    BY DEF AllProcs, AllChans, SchedSleep
  <1>1. PICK q \in Proc : q = proc[Proc0]
    BY <1>0, CurFacts
  <1>2. /\ OK(Proc0, q, Proc0) /\ q.pc = "gosleep" /\ Hands(Proc0, None) /\ K \in Kernel
        /\ K.proc[Proc0] = q
    BY <1>0, <1>1, CurFacts, KFacts DEF SchedSleep
  <1>3. q.stat = "SRUN" /\ q.onrun = FALSE /\ q.inmem /\ ~q.tmout
    BY <1>2 DEF OK, PlaceOK, StatOK, SleepOK, InSleep, InIssignal, Proc
  <1>4. PICK e : e = [q EXCEPT !.wchan = Proc0, !.onslp = TRUE, !.catch = FALSE, !.pcatch = FALSE,
                               !.timo = FALSE, !.callout = FALSE, !.sintr = FALSE, !.sig = None,
                               !.woken = FALSE, !.expired = FALSE]
    OBVIOUS
  <1>5. e \in Proc
    BY <1>0, <1>4, EnqueueType
  <1>6. Enqueue(K, Proc0, Proc0, FALSE, FALSE) = Put(K, Proc0, e) /\ Put(K, Proc0, e).proc[Proc0] = e
    BY <1>0, <1>2, <1>4, <1>5, PutTwice DEF Enqueue
  <1>7. /\ e.wchan = Proc0 /\ e.onslp = TRUE /\ e.catch = FALSE /\ e.pcatch = FALSE /\ e.timo = FALSE
        /\ e.callout = FALSE /\ e.sintr = FALSE /\ e.sig = None /\ e.woken = FALSE
        /\ e.expired = FALSE /\ e.stat = "SRUN" /\ e.onrun = FALSE /\ e.inmem = q.inmem /\ e.tmout = q.tmout
    BY <1>3, <1>4, ZenonT(80) DEF Proc
  <1> HIDE <1>4
  <1>8. PICK r : r = [e EXCEPT !.stat = "SSLEEP", !.pc = "slept"]
    OBVIOUS
  <1>9. Commit(Put(K, Proc0, r)) /\ curproc' = None
    <2>1. Commit(Put(Put(K, Proc0, e), Proc0, r)) /\ curproc' = None
      BY <1>6, <1>8 DEF SchedSleep, SleepNow
    <2> QED  BY <2>1, <1>0, <1>2, <1>5, PutTwice
  <1>10. r \in Proc /\ r.pc = "slept" /\ r.stat = "SSLEEP"
    BY <1>5, <1>8, ZenonT(80) DEF Proc
  <1>11. /\ r.wchan = Proc0 /\ r.onslp = TRUE /\ r.catch = FALSE /\ r.pcatch = FALSE /\ r.timo = FALSE
         /\ r.callout = FALSE /\ r.sintr = FALSE /\ r.sig = None /\ r.woken = FALSE
         /\ r.expired = FALSE /\ r.onrun = FALSE /\ r.inmem = q.inmem /\ r.tmout = q.tmout
    BY <1>5, <1>7, <1>8 DEF Proc
  <1>12. PlaceOK(Proc0, r, None) /\ StatOK(Proc0, r) /\ ChanOK(Proc0, r)
    BY <1>10, <1>11, <1>0, <1>3 DEF PlaceOK, StatOK, ChanOK, InIssignal
  <1>13. SleepOK(Proc0, r)
    BY <1>10, <1>11, <1>0, <1>3 DEF SleepOK, InIssignal, InSleep
  <1> QED  BY <1>9, <1>10, <1>12, <1>13, <1>0, <1>2, Local DEF OK

\* The swapper puts a swapped-out process on the run queue.
LEMMA SchedSwapinStep ==
  ASSUME Inv, SchedSwapin
  PROVE  Inv'
  <1> USE SleepConstants
  <1>0. Proc0 \in AllProcs /\ Cur(Proc0) /\ Proc0 # None
    BY DEF AllProcs, AllChans, SchedSwapin
  <1>1. PICK p \in Procs :
          /\ Swapin(p)
          /\ LET k  == setrunqueue(K, p)
                 k1 == Put(k, p, [k.proc[p] EXCEPT !.inmem = TRUE])
             IN Commit(Put(k1, Proc0, [k1.proc[Proc0] EXCEPT !.pc = "scan"]))
    BY DEF SchedSwapin
  <1>2. p \in AllProcs /\ p # Proc0
    BY DEF AllProcs
  <1>3. PICK q \in Proc : q = proc[p]
    BY <1>2, KFacts
  <1>4. PICK z \in Proc : z = proc[Proc0]
    BY <1>0, KFacts
  <1>5. /\ OK(p, q, Proc0) /\ q.stat = "SRUN" /\ ~q.inmem /\ curproc = Proc0 /\ K.proc[p] = q
        /\ OK(Proc0, z, Proc0) /\ z.pc = "swapin" /\ K.proc[Proc0] = z /\ K \in Kernel
    BY <1>0, <1>1, <1>2, <1>3, <1>4, KFacts DEF Swapin, Cur, SchedSwapin
  <1>6. ~q.onrun
    BY <1>5 DEF OK, PlaceOK
  <1>7. PICK e : e = [q EXCEPT !.onrun = TRUE]
    OBVIOUS
  <1>8. e \in Proc
    BY <1>7, ZenonT(80) DEF Proc
  <1>9. setrunqueue(K, p) = Put(K, p, e)
    BY <1>5, <1>6, <1>7 DEF setrunqueue
  <1>10. PICK r : r = [e EXCEPT !.inmem = TRUE]
    OBVIOUS
  <1>11. r \in Proc
    BY <1>8, <1>10, ZenonT(80) DEF Proc
  <1>12. PlaceOK(p, r, Proc0) /\ StatOK(p, r)
    BY <1>2, <1>5, <1>7, <1>10 DEF OK, PlaceOK, StatOK, Proc
  <1>13. ChanOK(p, r) /\ SleepOK(p, r)
    BY <1>2, <1>5, <1>7, <1>10 DEF OK, ChanOK, SleepOK, InIssignal, InSleep, Proc
  <1>14. OK(p, r, Proc0)
    BY <1>11, <1>12, <1>13 DEF OK
  <1>15. PICK y : y = [z EXCEPT !.pc = "scan"]
    OBVIOUS
  <1>16. y \in Proc
    BY <1>15 DEF Proc
  <1>17. PlaceOK(Proc0, y, Proc0) /\ StatOK(Proc0, y)
    BY <1>5, <1>15 DEF OK, PlaceOK, StatOK, Proc
  <1>18. ChanOK(Proc0, y) /\ SleepOK(Proc0, y)
    BY <1>5, <1>15 DEF OK, ChanOK, SleepOK, InIssignal, InSleep, Proc
  <1> HIDE <1>7, <1>10, <1>15
  <1>19. Put(Put(K, p, e), p, r) = Put(K, p, r) /\ Put(K, p, e).proc[p] = e
    BY <1>2, <1>5, <1>8, PutTwice
  <1>20. Put(K, p, r) \in Kernel /\ Put(K, p, r).proc[Proc0] = z
    <2>1. Put(K, p, r) \in Kernel /\ \A t \in AllProcs : t # p => Put(K, p, r).proc[t] = K.proc[t]
      BY <1>2, <1>5, <1>11, PutFacts
    <2> QED  BY <2>1, <1>0, <1>2, <1>5
  <1>21. Commit(Put(Put(K, p, r), Proc0, y))
    <2>1. Commit(Put(Put(Put(K, p, e), p, r), Proc0,
                     [Put(Put(K, p, e), p, r).proc[Proc0] EXCEPT !.pc = "scan"]))
      BY <1>1, <1>9, <1>19, <1>10
    <2> QED  BY <2>1, <1>19, <1>20, <1>15
  <1>22. AllOK(Put(K, p, r), Proc0, {})
    <2>1. AllOK(K, Proc0, {}) /\ {} \ {p} = {}
      BY <1>5 DEF Inv
    <2>2. AllOK(Put(K, p, r), Proc0, {} \ {p})
      BY <2>1, <1>2, <1>14, PutOK
    <2> QED  BY <2>1, <2>2
  <1>23. AllOK(Put(Put(K, p, r), Proc0, y), Proc0, {})
    <2>1. OK(Proc0, y, Proc0) /\ {} \ {Proc0} = {}
      BY <1>16, <1>17, <1>18 DEF OK
    <2>2. AllOK(Put(Put(K, p, r), Proc0, y), Proc0, {} \ {Proc0})
      BY <2>1, <1>0, <1>22, PutOK
    <2> QED  BY <2>1, <2>2
  <1>24. curproc' = Proc0
    BY <1>5 DEF SchedSwapin
  <1> QED  BY <1>0, <1>21, <1>23, <1>24, Committed

\* A process swapped out is taken off the run queue.
LEMMA SwapoutStep ==
  ASSUME Inv, NEW p \in Swappable, Swapout(p)
  PROVE  Inv'
  <1> USE SleepConstants
  <1>0. p \in Procs /\ p \in AllProcs /\ p # Proc0 /\ curproc = None /\ p # None
    BY DEF AllProcs, AllChans, Swapout
  <1>1. PICK q \in Proc : q = proc[p]
    BY <1>0, KFacts
  <1>2. OK(p, q, None) /\ K.proc[p] = q /\ K \in Kernel /\ q.inmem /\ Hands(p, None)
    BY <1>0, <1>1, KFacts DEF Swapout, Hands
  <1>3. CASE q.stat # "SRUN"
    <2>1. PICK r : r = [q EXCEPT !.inmem = FALSE]
      OBVIOUS
    <2>2. Commit(Put(K, p, r)) /\ curproc' = None
      BY <1>0, <1>1, <1>2, <1>3, <2>1 DEF Swapout
    <2>3. r \in Proc
      BY <2>1, ZenonT(80) DEF Proc
    <2>4. PlaceOK(p, r, None) /\ StatOK(p, r)
      BY <1>0, <1>2, <1>3, <2>1 DEF OK, PlaceOK, StatOK, Proc
    <2>5. ChanOK(p, r) /\ SleepOK(p, r)
      BY <1>0, <1>2, <2>1 DEF OK, ChanOK, SleepOK, InIssignal, InSleep, Proc
    <2> QED  BY <1>0, <1>2, <2>2, <2>3, <2>4, <2>5, Local DEF OK
  <1>4. CASE q.stat = "SRUN"
    <2>1. q.onrun
      BY <1>0, <1>2, <1>4 DEF OK, PlaceOK
    <2>2. PICK e : e = [q EXCEPT !.onrun = FALSE]
      OBVIOUS
    <2>3. e \in Proc
      BY <2>2, ZenonT(80) DEF Proc
    <2>4. remrq(K, p) = Put(K, p, e)
      BY <1>2, <2>1, <2>2 DEF remrq
    <2>5. PICK r : r = [e EXCEPT !.inmem = FALSE]
      OBVIOUS
    <2>6. r \in Proc
      BY ONLY <2>3, <2>5, ZenonT(80) DEF Proc
    <2>7. PlaceOK(p, r, None) /\ StatOK(p, r)
      BY <1>0, <1>2, <1>4, <2>2, <2>5 DEF OK, PlaceOK, StatOK, Proc
    <2>8. ChanOK(p, r) /\ SleepOK(p, r)
      BY <1>0, <1>2, <2>2, <2>5 DEF OK, ChanOK, SleepOK, InIssignal, InSleep, Proc
    <2> HIDE <2>2, <2>5
    <2>9. Put(Put(K, p, e), p, r) = Put(K, p, r) /\ Put(K, p, e).proc[p] = e
      BY <1>0, <1>2, <2>3, PutTwice
    <2>10. Commit(Put(K, p, r)) /\ curproc' = None
      <3>1. Commit(Put(remrq(K, p), p, [remrq(K, p).proc[p] EXCEPT !.inmem = FALSE])) /\ curproc' = None
        BY <1>0, <1>1, <1>4 DEF Swapout
      <3> QED  BY <3>1, <2>4, <2>5, <2>9
    <2> QED  BY <1>0, <1>2, <2>10, <2>6, <2>7, <2>8, Local DEF OK
  <1> QED  BY <1>3, <1>4

\* The type of a process that gets the CPU back.
LEMMA ResumedType ==
  ASSUME NEW q \in Proc, NEW S \in SUBSET Sigs,
         NEW x \in {"kern", "issig", "stopping", "stopped", "slept", "resume", "return", "preempted",
                    "scan", "gosleep", "swapin", "dead"}
  PROVE  [q EXCEPT !.onrun = FALSE, !.siglist = S, !.taking = None, !.pc = x] \in Proc
  BY ZenonT(80) DEF Proc

\* cpu_switch finds the process runnable and off every channel.
LEMMA SwitchStep ==
  ASSUME Inv, NEW p \in AllProcs, Switch(p)
  PROVE  Inv'
  <1> USE SleepConstants
  <1>0. p # None /\ curproc = None
    BY DEF AllProcs, AllChans, Switch
  <1>1. PICK q \in Proc : q = proc[p]
    BY KFacts
  <1>2. OK(p, q, None) /\ Hands(p, p) /\ q.onrun
    BY <1>0, <1>1, KFacts DEF Switch, Hands
  <1>3. q.stat = "SRUN" /\ q.inmem
    BY <1>2 DEF OK, PlaceOK
  <1>4. q.wchan = None /\ q.pc \in {"kern", "preempted", "slept", "stopped", "scan"}
    BY <1>0, <1>2, <1>3 DEF OK, PlaceOK, StatOK, ChanOK
  <1>5. PICK S \in SUBSET Sigs : S = IF q.pc = "stopped" THEN q.siglist \ {q.taking} ELSE q.siglist
    BY DEF Proc
  <1>6. PICK x : x = CASE q.pc = "slept" /\ p = Proc0 -> "scan"
                       [] q.pc = "slept" /\ p # Proc0 -> "resume"
                       [] q.pc = "stopped" -> "issig"
                       [] q.pc = "preempted" -> "kern"
                       [] OTHER -> q.pc
    OBVIOUS
  <1>7. /\ q.pc = "slept" /\ p = Proc0 => x = "scan"
        /\ q.pc = "slept" /\ p # Proc0 => x = "resume"
        /\ q.pc = "stopped" => x = "issig"
        /\ q.pc = "preempted" => x = "kern"
        /\ q.pc \in {"kern", "scan"} => x = q.pc
    BY <1>6
  <1>8. PICK r : r = [q EXCEPT !.onrun = FALSE, !.siglist = S, !.taking = None, !.pc = x]
    OBVIOUS
  <1>9. r = Resumed(p, q)
    BY <1>5, <1>6, <1>8 DEF Resumed
  <1> HIDE <1>5, <1>6
  <1>10. Commit(Put(K, p, r)) /\ curproc' = p
    BY <1>1, <1>3, <1>4, <1>9, PutCommit DEF Switch
  <1>11. r \in Proc
    <2>1. x \in {"kern", "issig", "stopping", "stopped", "slept", "resume", "return", "preempted",
                 "scan", "gosleep", "swapin", "dead"}
      BY <1>7, <1>4
    <2> QED  BY <2>1, <1>8, ResumedType
  <1>12. /\ r.pc = x /\ r.stat = "SRUN" /\ r.onrun = FALSE /\ r.inmem = q.inmem /\ r.wchan = None
         /\ r.ctx = q.ctx /\ r.onslp = q.onslp /\ r.sintr = q.sintr /\ r.tmout = q.tmout
         /\ r.callout = q.callout /\ r.timo = q.timo /\ r.expired = q.expired /\ r.woken = q.woken
         /\ r.catch = q.catch /\ r.sig = q.sig /\ r.pcatch = q.pcatch /\ r.ret = q.ret
    BY <1>3, <1>4, <1>8 DEF Proc
  <1> HIDE <1>8
  <1>13. PlaceOK(p, r, p) /\ StatOK(p, r)
    BY <1>2, <1>3, <1>4, <1>7, <1>12 DEF OK, PlaceOK, StatOK
  <1>14. ChanOK(p, r)
    BY <1>2, <1>4, <1>12 DEF OK, ChanOK
  <1>15. SleepOK(p, r)
    BY <1>2, <1>4, <1>7, <1>12 DEF OK, PlaceOK, StatOK, SleepOK, InIssignal, InSleep
  <1> QED  BY <1>2, <1>10, <1>11, <1>13, <1>14, <1>15, Local DEF OK

\* The updates issignal and its callers make.
LEMMA TakenType ==
  ASSUME NEW q \in Proc, NEW s \in Sigs
  PROVE  [q EXCEPT !.stat = "SRUN", !.sig = s, !.pc = "resume", !.ctx = "none"] \in Proc
  BY ZenonT(80) DEF Proc

\* The type of a process that exits.
LEMMA DeadType ==
  ASSUME NEW q \in Proc
  PROVE  [q EXCEPT !.stat = "SZOMB", !.pc = "dead", !.ctx = "none"] \in Proc
  BY ZenonT(80) DEF Proc

\* The type of a process that stops itself.
LEMMA StoppingType ==
  ASSUME NEW q \in Proc, NEW s \in Sigs
  PROVE  [q EXCEPT !.pc = "stopping", !.taking = s] \in Proc
  BY DEF Proc

\* tsleep's first CURSIG returns a signal: off the queue again.
LEMMA BeforeSignal ==
  ASSUME NEW p \in Procs, NEW q, OK(p, q, p), q.pc = "issig", q.ctx = "before", NEW s \in Sigs
  PROVE  OK(p, [Unslept(q) EXCEPT !.stat = "SRUN", !.sig = s, !.pc = "resume", !.ctx = "none"], p)
  <1> USE SleepConstants
  <1>0. q \in Proc /\ p # Proc0
    BY DEF OK
  <1>1. PICK r : r = [Unslept(q) EXCEPT !.stat = "SRUN", !.sig = s, !.pc = "resume", !.ctx = "none"]
    OBVIOUS
  <1>2. r \in Proc
    <2>1. PICK u \in Proc : u = Unslept(q)
      BY <1>0, ZenonT(80) DEF Unslept, Proc
    <2> QED  BY <2>1, <1>1, TakenType
  <1>3. /\ r.pc = "resume" /\ r.stat = "SRUN" /\ r.onrun = q.onrun /\ r.inmem = q.inmem /\ r.wchan = None
        /\ r.ctx = "none" /\ r.onslp = FALSE /\ r.sintr = q.sintr /\ r.tmout = q.tmout
        /\ r.callout = q.callout /\ r.timo = q.timo /\ r.expired = q.expired /\ r.woken = q.woken
        /\ r.catch = q.catch /\ r.sig = s /\ r.pcatch = q.pcatch /\ r.ret = q.ret
    BY <1>0, <1>1 DEF Unslept, Proc
  <1> HIDE <1>1
  <1>4. PlaceOK(p, r, p) /\ StatOK(p, r) /\ ChanOK(p, r)
    BY <1>0, <1>3 DEF OK, PlaceOK, StatOK, ChanOK
  <1>5. SleepOK(p, r)
    BY <1>0, <1>3 DEF OK, SleepOK, InIssignal, InSleep
  <1> QED  BY <1>1, <1>2, <1>4, <1>5 DEF OK

\* What issignal's callers do with its result.
LEMMA IssignalReturnsStep ==
  ASSUME Inv, NEW p \in Procs, Cur(p), proc[p].pc = "issig", NEW s \in Sigs \cup {None},
         IssignalReturns(K, p, s)
  PROVE  Inv'
  <1> USE SleepConstants
  <1>0. p \in AllProcs /\ p # Proc0
    BY DEF AllProcs
  <1>1. PICK q \in Proc : q = proc[p]
    BY <1>0, CurFacts
  <1>2. /\ OK(p, q, p) /\ q.pc = "issig" /\ p # None /\ Hands(p, None) /\ Hands(p, p) /\ curproc = p
        /\ K.proc[p] = q /\ K \in Kernel
    BY <1>0, <1>1, CurFacts, KFacts
  <1>3. q.stat = "SRUN" /\ ~q.onrun /\ q.inmem /\ q.ctx \in {"before", "after", "user"}
    BY <1>2 DEF OK, PlaceOK, StatOK, Proc
  <1>4. CASE q.ctx = "before" /\ s # None
    <2> DEFINE u == Unslept(q)
               k1 == unsleep(K, p)
    <2>0. u \in Proc /\ (q.onslp <=> q.wchan # None)
      BY <1>2, <1>3, RanType DEF OK, ChanOK
    <2>1. k1.proc[p] = u /\ \A x : Put(k1, p, x) = Put(K, p, x)
      <3>1. CASE q.wchan = None
        <4>1. k1 = K /\ u = q
          BY <3>1, <1>2, <1>3, <2>0, RanType DEF unsleep
        <4> QED  BY <4>1, <1>2
      <3>2. CASE q.wchan # None
        <4>1. k1 = Put(K, p, u)
          BY <3>2, <1>2 DEF unsleep, Unslept
        <4> HIDE DEF k1, u
        <4> QED  BY <4>1, <2>0, <1>0, <1>2, PutTwice
      <3> QED  BY <3>1, <3>2
    <2> DEFINE r == [u EXCEPT !.stat = "SRUN", !.sig = s, !.pc = "resume", !.ctx = "none"]
    <2>2. Commit(Put(k1, p, [k1.proc[p] EXCEPT !.stat = "SRUN", !.sig = s, !.pc = "resume", !.ctx = "none"]))
          /\ curproc' = p
      BY <1>2, <1>4 DEF IssignalReturns
    <2>3. Commit(Put(K, p, r)) /\ curproc' = p
      <3> HIDE DEF k1, u
      <3> QED  BY <2>1, <2>2
    <2>4. OK(p, r, p)
      BY <1>2, <1>4, BeforeSignal
    <2> HIDE DEF r
    <2> QED  BY <1>0, <1>2, <2>3, <2>4, Local
  <1>5. CASE q.ctx = "before" /\ s = None /\ q.wchan = None
    <2>1. PICK r : r = [q EXCEPT !.catch = FALSE, !.pc = "resume", !.ctx = "none"]
      OBVIOUS
    <2>2. Commit(Put(K, p, r)) /\ curproc' = p
      BY <1>2, <1>5, <2>1 DEF IssignalReturns
    <2>3. r \in Proc
      BY <2>1, ZenonT(80) DEF Proc
    <2>4. PlaceOK(p, r, p) /\ StatOK(p, r)
      BY <1>0, <1>2, <1>3, <1>5, <2>1 DEF OK, PlaceOK, StatOK, Proc
    <2>5. ChanOK(p, r) /\ SleepOK(p, r)
      BY <1>0, <1>2, <1>5, <2>1 DEF OK, ChanOK, SleepOK, InIssignal, InSleep, Proc
    <2> QED  BY <1>0, <1>2, <2>2, <2>3, <2>4, <2>5, Local DEF OK
  <1>6. CASE q.ctx = "before" /\ s = None /\ q.wchan # None
    <2>1. PICK e : e = [q EXCEPT !.ctx = "none"]
      OBVIOUS
    <2>2. e \in Proc
      BY <2>1 DEF Proc
    <2>3. PICK r : r = [e EXCEPT !.stat = "SSLEEP", !.pc = "slept"]
      OBVIOUS
    <2>4. Put(Put(K, p, e), p, r) = Put(K, p, r) /\ Put(K, p, e).proc[p] = e
      BY <1>0, <1>2, <2>2, PutTwice
    <2>5. Commit(Put(K, p, r)) /\ curproc' = None
      <3>1. Commit(SleepNow(Put(K, p, e), p)) /\ curproc' = None
        BY <1>2, <1>6, <2>1 DEF IssignalReturns
      <3> QED  BY <3>1, <2>3, <2>4 DEF SleepNow
    <2>6. r \in Proc
      BY ONLY <2>2, <2>3, ZenonT(80) DEF Proc
    <2>7. PlaceOK(p, r, None) /\ StatOK(p, r)
      BY <1>0, <1>2, <1>3, <1>6, <2>1, <2>3 DEF OK, PlaceOK, StatOK, Proc
    <2>8. ChanOK(p, r) /\ SleepOK(p, r)
      BY <1>0, <1>2, <1>6, <2>1, <2>3 DEF OK, ChanOK, SleepOK, InIssignal, InSleep, Proc
    <2> QED  BY <1>0, <1>2, <2>5, <2>6, <2>7, <2>8, Local DEF OK
  <1>7. CASE q.ctx = "after"
    <2>0. PICK x \in {"0", "EINTR"} : x = IF s = None THEN "0" ELSE "EINTR"
      OBVIOUS
    <2>1. PICK r : r = [q EXCEPT !.pc = "return", !.ctx = "none", !.ret = x]
      OBVIOUS
    <2>2. Commit(Put(K, p, r)) /\ curproc' = p
      BY <1>2, <1>7, <2>0, <2>1 DEF IssignalReturns
    <2> HIDE <2>0
    <2>3. r \in Proc
      BY <2>1, ZenonT(80) DEF Proc
    <2>4. PlaceOK(p, r, p) /\ StatOK(p, r)
      BY <1>0, <1>2, <1>3, <1>7, <2>1 DEF OK, PlaceOK, StatOK, Proc
    <2>5. ChanOK(p, r) /\ SleepOK(p, r)
      BY <1>0, <1>2, <1>7, <2>1 DEF OK, ChanOK, SleepOK, InIssignal, InSleep, Proc
    <2> QED  BY <1>0, <1>2, <2>2, <2>3, <2>4, <2>5, Local DEF OK
  <1>8. CASE q.ctx = "user" /\ s = None
    <2>1. PICK r : r = [q EXCEPT !.pc = "kern", !.ctx = "none"]
      OBVIOUS
    <2>2. Commit(Put(K, p, r)) /\ curproc' = p
      BY <1>2, <1>8, <2>1 DEF IssignalReturns
    <2>3. r \in Proc
      BY <2>1, ZenonT(80) DEF Proc
    <2>4. PlaceOK(p, r, p) /\ StatOK(p, r)
      BY <1>0, <1>2, <1>3, <1>8, <2>1 DEF OK, PlaceOK, StatOK, Proc
    <2>5. ChanOK(p, r) /\ SleepOK(p, r)
      BY <1>0, <1>2, <1>8, <2>1 DEF OK, ChanOK, SleepOK, InIssignal, InSleep, Proc
    <2> QED  BY <1>0, <1>2, <2>2, <2>3, <2>4, <2>5, Local DEF OK
  <1>9. PICK S \in SUBSET Sigs : DropSig(K, p, s) = Put(K, p, [q EXCEPT !.siglist = S])
    <2>1. q.siglist \ {s} \in SUBSET Sigs
      BY DEF Proc
    <2> QED  BY <2>1, <1>2 DEF DropSig
  <1>10. PICK d : d = [q EXCEPT !.siglist = S]
    OBVIOUS
  <1>11. OK(p, d, p) /\ d \in Proc /\ DropSig(K, p, s) = Put(K, p, d)
    BY <1>2, <1>9, <1>10, SigOK DEF OK
  <1>12. CASE q.ctx = "user" /\ s # None /\ s \in Catch[p]
    <2>1. Commit(DropSig(K, p, s)) /\ curproc' = p
      BY <1>2, <1>12 DEF IssignalReturns
    <2> QED  BY <1>0, <1>2, <1>11, <2>1, Local
  <1>13. CASE q.ctx = "user" /\ s # None /\ s \notin Catch[p]
    <2>1. PICK r : r = [d EXCEPT !.stat = "SZOMB", !.pc = "dead", !.ctx = "none"]
      OBVIOUS
    <2>2. r \in Proc
      BY <1>11, <2>1, DeadType
    <2>3. /\ d.stat = "SRUN" /\ d.onrun = q.onrun /\ d.inmem = q.inmem /\ d.pc = "issig"
          /\ d.ctx = "user" /\ d.wchan = q.wchan
      BY <1>2, <1>3, <1>10, <1>13 DEF Proc
    <2> HIDE <1>10
    <2>4. PlaceOK(p, r, None) /\ StatOK(p, r)
      BY <1>0, <1>2, <1>3, <1>11, <2>1, <2>3 DEF OK, PlaceOK, StatOK, Proc
    <2>5. ChanOK(p, r) /\ SleepOK(p, r)
      BY <1>0, <1>2, <1>11, <2>1, <2>3 DEF OK, ChanOK, SleepOK, InIssignal, InSleep, Proc
    <2>6. r.onslp = FALSE /\ r.wchan = None
      BY <1>11, <2>1, <2>3 DEF OK, ChanOK, InIssignal, Proc
    <2> HIDE <2>1
    <2> DEFINE k2 == Put(K, p, r)
               k3 == Chld(k2, p)
               k4 == IF Parent[p] = None THEN k3 ELSE wakeup(k3, Parent[p])
    <2>7. Put(Put(K, p, d), p, r) = k2 /\ Put(K, p, d).proc[p] = d
      BY <1>0, <1>2, <1>11, PutTwice
    <2>8. Commit(k4) /\ curproc' = None
      <3>1. LET k1 == Put(K, p, d)
                j2 == Put(k1, p, [k1.proc[p] EXCEPT !.stat = "SZOMB", !.pc = "dead", !.ctx = "none"])
                j3 == Chld(j2, p)
            IN Commit(IF Parent[p] = None THEN j3 ELSE wakeup(j3, Parent[p])) /\ curproc' = None
        BY <1>2, <1>11, <1>13 DEF IssignalReturns
      <3> QED  BY <3>1, <2>1, <2>7
    <2>9. Awake(k2) /\ AllOK(k2, None, {}) /\ k2.proc[p] = r
      <3>1. AllOK(K, None, {p}) /\ {p} \ {p} = {} /\ OK(p, r, None) /\ WakeOK(r)
        BY <1>0, <1>2, <2>2, <2>4, <2>5, <2>6, Away DEF OK, WakeOK
      <3>2. \A t \in AllProcs : t # p => WakeOK(K.proc[t])
        BY <1>2, InvAwake, KFacts
      <3> QED  BY <3>1, <3>2, <1>0, <1>2, <2>2, PutOK, PutAwakes, PutFacts
    <2> HIDE DEF k2
    <2>10. Awake(k3) /\ AllOK(k3, None, {})
      <3>1. k2.proc[p].wchan # Proc0 /\ {} \in SUBSET {p}
        BY <2>6, <2>9 DEF AllChans, AllProcs
      <3> QED  BY <3>1, <2>9, ChldOK
    <2> HIDE DEF k3
    <2>11. AllOK(k4, None, {})
      <3>1. Parent[p] # None => Parent[p] \in AllChans
        BY DEF AllChans, AllProcs
      <3> QED  BY <3>1, <2>10, wakeupOK
    <2> HIDE DEF k4
    <2> QED  BY <2>8, <2>11, Committed
  <1> QED  BY <1>3, <1>4, <1>5, <1>6, <1>7, <1>8, <1>12, <1>13

\* One turn of issignal's loop.
LEMMA IssignalStep ==
  ASSUME Inv, NEW p \in Procs, Issignal(p)
  PROVE  Inv'
  <1> USE SleepConstants
  <1>0. p \in AllProcs /\ p # Proc0 /\ Cur(p) /\ proc[p].pc = "issig"
    BY DEF AllProcs, Issignal
  <1>1. PICK q \in Proc : q = proc[p]
    BY <1>0, CurFacts
  <1>2. /\ OK(p, q, p) /\ q.pc = "issig" /\ Hands(p, p) /\ curproc = p
        /\ K.proc[p] = q /\ K \in Kernel
    BY <1>0, <1>1, CurFacts, KFacts
  <1>3. q.stat = "SRUN" /\ q.onrun = FALSE /\ q.inmem
    BY <1>2 DEF OK, PlaceOK, StatOK, Proc
  <1>4. PICK mask \in SUBSET Sigs : mask = Unblocked(p) \ (IF p \in PPWait THEN StopSigs ELSE {})
    BY <1>1 DEF Unblocked, Proc
  <1>5. CASE mask = {}
    <2>1. IssignalReturns(K, p, None)
      BY <1>4, <1>5 DEF Issignal
    <2> QED  BY <2>1, <1>0, IssignalReturnsStep
  <1>6. CASE mask # {}
    <2>1. \E x \in mask : \A y \in mask : x <= y
      <3>1. mask \subseteq Nat
        OBVIOUS
      <3> QED  BY <3>1, <1>6, LeastIndex
    <2>2. PICK s : s = CHOOSE x \in mask : \A y \in mask : x <= y
      OBVIOUS
    <2>3. s \in Sigs
      BY <2>1, <2>2
    <2>4. CASE s \in Catch[p]
      <3>1. IssignalReturns(K, p, s)
        BY <1>4, <1>6, <2>2, <2>4 DEF Issignal
      <3> QED  BY <3>1, <2>3, <1>0, IssignalReturnsStep
    <2>5. CASE s \notin Catch[p] /\ s \in StopSigs /\ ~(s \in TtyStops /\ p \in Orphaned)
      <3> DEFINE k0 == stop(K, p)
                 k1 == ChldStop(k0, p)
      <3>a. s \notin IgnoreSigs
        BY <2>5 DEF StopSigs, TtyStops, IgnoreSigs, SIGSTOP, SIGTSTP, SIGTTIN, SIGTTOU, SIGCONT, SIGCHLD
      <3>1. Commit(Put(k1, p, [k1.proc[p] EXCEPT !.pc = "stopping", !.taking = s])) /\ curproc' = p
        <4>1. /\ LET k == ChldStop(stop(K, p), p)
                 IN Commit(Put(k, p, [k.proc[p] EXCEPT !.pc = "stopping", !.taking = s]))
              /\ UNCHANGED curproc
          BY <1>4, <1>6, <2>2, <2>5, <3>a DEF Issignal
        <4> QED  BY <4>1, <1>2
      <3>2. q.wchan \in Chans \cup {Selwait, p, None} /\ q.wchan # Proc0
        BY <1>0, <1>2 DEF OK, ChanOK, AllProcs, AllChans
      <3>3. PICK e : e = [q EXCEPT !.stat = "SSTOP"]
        OBVIOUS
      <3>4. e \in Proc /\ e.wchan = q.wchan
        BY <3>3 DEF Proc
      <3>5. AllOK(K, p, {p}) /\ \A t \in AllProcs : t # p => WakeOK(K.proc[t])
        BY <1>0, <1>2, Away, InvAwake, KFacts
      <3>6. Awake(k0) /\ AllOK(k0, p, {p}) /\ k0.proc[p] = e
        BY <1>2, <1>3, <3>2, <3>3, <3>5, stopOK
      <3> HIDE DEF k0
      <3>7. Awake(k1) /\ AllOK(k1, p, {p}) /\ k1.proc[p] = e
        BY <3>2, <3>4, <3>6, ChldOK
      <3> HIDE DEF k1
      <3>8. PICK r : r = [e EXCEPT !.pc = "stopping", !.taking = s]
        OBVIOUS
      <3>9. r \in Proc
        BY <3>4, <3>8, <2>3, StoppingType
      <3>10. PlaceOK(p, r, p) /\ StatOK(p, r)
        BY <1>0, <1>2, <1>3, <3>3, <3>8 DEF OK, PlaceOK, StatOK, Proc
      <3>11. ChanOK(p, r) /\ SleepOK(p, r)
        BY <1>0, <1>2, <3>3, <3>8 DEF OK, ChanOK, SleepOK, InIssignal, InSleep, Proc
      <3>12. OK(p, r, p)
        BY <3>9, <3>10, <3>11 DEF OK
      <3> HIDE <3>3, <3>8
      <3>13. AllOK(Put(k1, p, r), p, {p} \ {p}) /\ {p} \ {p} = {}
        BY <1>0, <3>7, <3>12, PutOK
      <3>14. Commit(Put(k1, p, r))
        BY <3>1, <3>7, <3>8
      <3> QED  BY <1>0, <3>1, <3>13, <3>14, Committed
    <2>6. CASE /\ s \notin Catch[p]
               /\ s \in IgnoreSigs \/ (s \in TtyStops /\ p \in Orphaned)
      <3>1. Commit(DropSig(K, p, s)) /\ curproc' = p
        BY <1>2, <1>4, <1>6, <2>2, <2>6 DEF Issignal, StopSigs, TtyStops, IgnoreSigs, SIGSTOP, SIGTSTP,
             SIGTTIN, SIGTTOU, SIGCONT, SIGCHLD
      <3>2. PICK S \in SUBSET Sigs : DropSig(K, p, s) = Put(K, p, [q EXCEPT !.siglist = S])
        <4>1. q.siglist \ {s} \in SUBSET Sigs
          BY DEF Proc
        <4> QED  BY <4>1, <1>2 DEF DropSig
      <3>3. OK(p, [q EXCEPT !.siglist = S], p)
        BY <1>2, SigOK
      <3> QED  BY <1>0, <1>2, <3>1, <3>2, <3>3, Local
    <2>7. CASE /\ s \notin Catch[p]
               /\ ~(s \in StopSigs /\ ~(s \in TtyStops /\ p \in Orphaned))
               /\ ~(s \in IgnoreSigs \/ (s \in TtyStops /\ p \in Orphaned))
      <3>1. IssignalReturns(K, p, s)
        BY <1>4, <1>6, <2>2, <2>7 DEF Issignal
      <3> QED  BY <3>1, <2>3, <1>0, IssignalReturnsStep
    <2> QED  BY <2>4, <2>5, <2>6, <2>7
  <1> QED  BY <1>5, <1>6

\* Every step of the system keeps the invariant.
LEMMA NextInv == Inv /\ [Next]_vars => Inv'
  <1> SUFFICES ASSUME Inv, [Next]_vars PROVE Inv'
    OBVIOUS
  <1>1. CASE UNCHANGED vars
    <2>1. K' = K /\ curproc' = curproc
      BY <1>1 DEF K, vars
    <2> QED  BY <2>1 DEF Inv, AllOK
  <1>2. ASSUME NEW p \in Procs, NEW c \in Chans \cup {Selwait, p}, NEW catch \in BOOLEAN,
               NEW timo \in BOOLEAN, Tsleep(p, c, catch, timo)
        PROVE  Inv'
    BY <1>2, TsleepStep
  <1>3. ASSUME NEW p \in Procs, ProcStep(p) \/ UserRet(p) \/ Preempt(p)
        PROVE  Inv'
    BY <1>3, IssignalStep, StopSwitchStep, ResumeStep, ReturnStep, UserRetStep, PreemptStep
       DEF ProcStep
  <1>4. CASE SwapperStep
    BY <1>4, SchedScanStep, SchedSleepStep, SchedSwapinStep DEF SwapperStep
  <1>5. ASSUME NEW p \in Swappable, Swapout(p)
        PROVE  Inv'
    BY <1>5, SwapoutStep
  <1>6. ASSUME NEW p \in AllProcs, Switch(p)
        PROVE  Inv'
    BY <1>6, SwitchStep
  <1>7. CASE \/ \E c \in Chans : Wakeup(c)
             \/ \E p \in Procs, s \in Sigs \ {SIGCHLD} : Signal(p, s)
             \/ \E p \in Procs : Endtsleep(p) \/ Selwakeup(p)
             \/ Vmmeter
    BY <1>7, InterruptStep
  <1> QED  BY <1>1, <1>2, <1>3, <1>4, <1>5, <1>6, <1>7 DEF Next

\* The table of processes is consistent in every reachable state: where each process is in
\* tsleep, issignal or the scheduler decides its p_stat, its queue, its channel and its timeout.
THEOREM SleepInv == Spec => []Inv
  <1>1. Init => Inv
    BY InitInv
  <1>2. Inv /\ [Next]_vars => Inv'
    BY NextInv
  <1> QED  BY <1>1, <1>2, PTL DEF Spec

\* Every field of every process keeps its type.
THEOREM SleepTypes == Spec => []TypeOK
  <1>1. Inv => TypeOK
    <2> SUFFICES ASSUME Inv PROVE TypeOK
      OBVIOUS
    <2>1. ASSUME NEW p \in AllProcs, NEW q \in Proc
          PROVE  /\ q.stat \in {"SRUN", "SSLEEP", "SSTOP", "SZOMB"}
                 /\ q.wchan \in AllChans \cup {None}
                 /\ {q.onslp, q.onrun, q.inmem, q.sintr, q.tmout, q.callout} \subseteq BOOLEAN
                 /\ q.siglist \subseteq Sigs
                 /\ q.pc \in {"kern", "issig", "stopping", "stopped", "slept", "resume", "return",
                              "preempted", "scan", "gosleep", "swapin", "dead"}
      BY DEF Proc
    <2>2. panicstr = "none" /\ curproc \in AllProcs \cup {None} /\ \A p \in AllProcs : proc[p] \in Proc
      BY KFacts DEF Inv
    <2> QED  BY <2>1, <2>2 DEF TypeOK
  <1> QED  BY <1>1, SleepInv, PTL

\* No panic of tsleep, wakeup, setrunnable, setrunqueue, remrq or Xswitch is reached, in whatever
\* order wakeups, timeouts, signals, stops and swaps come.
THEOREM SleepNeverPanics == Spec => []NoPanic
  <1>1. Inv => NoPanic
    BY KFacts DEF NoPanic
  <1> QED  BY <1>1, SleepInv, PTL

\* p_forw links a sleep queue exactly while p_wchan is set, and the run queue exactly while the
\* process is runnable, in memory and not running: never both.
THEOREM QueuesDisjoint == Spec => []QueueDiscipline
  <1>1. Inv => QueueDiscipline
    <2> SUFFICES ASSUME Inv PROVE QueueDiscipline
      OBVIOUS
    <2>1. ASSUME NEW p \in AllProcs, NEW q, OK(p, q, curproc)
          PROVE  /\ q.onslp <=> q.wchan # None
                 /\ ~(q.onslp /\ q.onrun)
                 /\ q.stat = "SSLEEP" => q.onslp
                 /\ q.onrun <=> (q.stat = "SRUN" /\ q.inmem /\ p # curproc)
                    \/ (p = curproc /\ q.pc = "stopping" /\ q.onrun)
      BY <2>1 DEF OK, PlaceOK, StatOK, ChanOK
    <2> QED  BY <2>1, KFacts DEF QueueDiscipline
  <1> QED  BY <1>1, SleepInv, PTL

\* The armed endtsleep callout and P_TIMEOUT belong to the sleep in progress.
THEOREM TimeoutIsOurs == Spec => []TimeoutOfThisSleep
  <1>1. Inv => TimeoutOfThisSleep
    <2> SUFFICES ASSUME Inv PROVE TimeoutOfThisSleep
      OBVIOUS
    <2>1. ASSUME NEW p \in Procs, NEW q, OK(p, q, curproc)
          PROVE  /\ q.callout => q.timo /\ q.pc \notin {"kern", "return", "preempted", "dead"}
                 /\ q.tmout => q.timo /\ q.expired /\ q.wchan = None
      BY <2>1 DEF OK, SleepOK, InSleep, InIssignal
    <2> QED  BY <2>1, KFacts DEF TimeoutOfThisSleep, AllProcs
  <1> QED  BY <1>1, SleepInv, PTL

\* tsleep returns EWOULDBLOCK only when this sleep timed out before any wakeup, EINTR only with
\* PCATCH, and 0 without PCATCH only after a wakeup.
THEOREM TsleepTellsTheTruth == Spec => []ReturnValueIsTrue
  <1>1. Inv => ReturnValueIsTrue
    <2> SUFFICES ASSUME Inv PROVE ReturnValueIsTrue
      OBVIOUS
    <2>1. ASSUME NEW p \in Procs, NEW q, OK(p, q, curproc)
          PROVE  q.pc = "return" => /\ q.ret = "EWOULDBLOCK" => q.expired /\ ~q.woken
                                    /\ q.ret = "EINTR" => q.pcatch
                                    /\ q.ret = "0" /\ ~q.pcatch => q.woken
      BY <2>1 DEF OK, SleepOK
    <2> QED  BY <2>1, KFacts DEF ReturnValueIsTrue, AllProcs
  <1> QED  BY <1>1, SleepInv, PTL

\* A sleep without PCATCH is never stopped by a signal, and a stopped process is on no run queue.
THEOREM StoppedMeansInterruptible == Spec => []UninterruptibleNeverStopped
  <1>1. Inv => UninterruptibleNeverStopped
    <2> SUFFICES ASSUME Inv PROVE UninterruptibleNeverStopped
      OBVIOUS
    <2>1. ASSUME NEW p \in Procs, NEW q, OK(p, q, curproc)
          PROVE  q.stat = "SSTOP" => /\ q.wchan # None => q.pcatch
                                     /\ ~q.onrun
                                     /\ q.pc \in {"slept", "stopping", "stopped"}
      BY <2>1, SleepConstants DEF OK, PlaceOK, StatOK, ChanOK, SleepOK, InIssignal, Proc
    <2> QED  BY <2>1, KFacts DEF UninterruptibleNeverStopped, AllProcs
  <1> QED  BY <1>1, SleepInv, PTL

=============================================================================
