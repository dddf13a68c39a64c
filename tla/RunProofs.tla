----------------------------- MODULE RunProofs -----------------------------
(***************************************************************************)
(* Proofs about RunQueue, for any number of queues, priorities and         *)
(* processes, with or without interrupts between Xswitch's load of whichqs *)
(* and its cli.                                                            *)
(*                                                                         *)
(* The invariant relates three things that the code keeps apart: the links *)
(* of the queues, the null or non-null p_back, and the p_stat and          *)
(* p_priority of the processes.  The bits of whichqs are not part of it,   *)
(* since an interrupt in the window makes Xswitch store a stale register;  *)
(* BitsTell says that nothing else makes them wrong.  Each of setrunqueue, *)
(* remrq and Xswitch keeps queues and bits for any set of queued processes *)
(* (InsertKeeps, RemoveKeeps, TakeKeeps); the actions only have to show    *)
(* which process joins or leaves that set.                                 *)
(***************************************************************************)
EXTENDS RunQueue, TailQProofs, TLAPS

\* The processes that should be on a queue.
Queued == {p \in Procs : stat[p] = "SRUN" /\ p # curproc}

\* Queues q, with back pointers b, hold exactly the processes of R by their priorities pr.
QueuesHold(q, b, pr, R) ==
  /\ q \in [Queues -> Seq(Procs)]
  /\ \A i \in Queues : IsTailQ(q[i], Procs)
  /\ \A i \in Queues : ToSet(q[i]) = {p \in R : QueueOf(pr[p]) = i}
  /\ b = R

\* The bits w tell which of the queues q have processes.
Bits(q, w) == w = {i \in Queues : q[i] # <<>>}

Inv == /\ TypeOK
       /\ panicstr = "none" => QueuesHold(qs, p_back, priority, Queued)
       /\ pc = "run" => curproc \in Procs /\ stat[curproc] = "SRUN"
       /\ pc # "run" => curproc = None

\* A step keeps the bits right and does not panic if they are right before.
KeepsBits == WhichqsTells => WhichqsTells' /\ panicstr' = panicstr

-----------------------------------------------------------------------------
(* The queues. *)

\* Every priority has a queue.
LEMMA QueueOfType == \A n \in Prios : QueueOf(n) \in Queues
  <1> SUFFICES ASSUME NEW n \in Prios PROVE n \div PPQ \in 0..(NQS - 1)
    BY DEF QueueOf, Queues
  <1>1. NQS \in Nat /\ PPQ \in Nat /\ PPQ > 0 /\ n \in Nat /\ n < NQS * PPQ
    BY RunQueueConstants DEF Prios
  <1> DEFINE d == n \div PPQ
  <1>2. d \in Int /\ d * PPQ <= n /\ n < (d + 1) * PPQ
    BY <1>1
  <1> HIDE DEF d
  <1>3. d >= 0
    BY <1>1, <1>2
  <1>4. d < NQS
    BY <1>1, <1>2
  <1> QED  BY <1>1, <1>2, <1>3, <1>4 DEF d

\* A non-empty set of queues has a first one: bsfl finds it.
LEMMA FirstQueue ==
  ASSUME NEW T \in SUBSET Queues, T # {}
  PROVE  (CHOOSE x \in T : \A y \in T : x <= y) \in T
  <1>1. T \subseteq Nat
    BY RunQueueConstants DEF Queues
  <1> QED  BY <1>1, LeastIndex

\* setrunqueue links a process that is on no queue, on the queue of its priority.
LEMMA InsertKeeps ==
  ASSUME NEW q, NEW b, NEW pr, NEW R, QueuesHold(q, b, pr, R),
         NEW pr2 \in [Procs -> Prios], NEW p \in Procs, p \notin R,
         \A r \in R : pr2[r] = pr[r]
  PROVE  LET n == QueueOf(pr2[p])
             q2 == [q EXCEPT ![n] = TAILQ_INSERT_TAIL(@, p)]
         IN /\ n \in Queues
            /\ QueuesHold(q2, b \cup {p}, pr2, R \cup {p})
            /\ \A w : Bits(q, w) => Bits(q2, w \cup {n})
  <1> DEFINE n == QueueOf(pr2[p])
             t == TAILQ_INSERT_TAIL(q[n], p)
             q2 == [q EXCEPT ![n] = t]
  <1>1. n \in Queues
    BY QueueOfType
  <1>2. q \in [Queues -> Seq(Procs)] /\ \A i \in Queues : IsTailQ(q[i], Procs)
    BY DEF QueuesHold
  <1>3. \A i \in Queues : ToSet(q[i]) = {r \in R : QueueOf(pr[r]) = i}
    BY DEF QueuesHold
  <1>4. IsTailQ(t, Procs) /\ ToSet(t) = ToSet(q[n]) \cup {p}
    BY <1>1, <1>2, <1>3, InsertTailProps
  <1>5. t \in Seq(Procs) /\ t # <<>>
    BY <1>4, EmptyTailQ DEF IsTailQ
  <1> HIDE DEF n, t
  <1>6. q2 \in [Queues -> Seq(Procs)] /\ q2[n] = t /\ \A i \in Queues \ {n} : q2[i] = q[i]
    BY <1>1, <1>2, <1>5
  <1> HIDE DEF q2
  <1>7. \A i \in Queues : IsTailQ(q2[i], Procs)
    BY <1>2, <1>4, <1>6
  <1>8. ASSUME NEW i \in Queues
        PROVE  ToSet(q2[i]) = {r \in R \cup {p} : QueueOf(pr2[r]) = i}
    <2>1. {r \in R : QueueOf(pr2[r]) = i} = {r \in R : QueueOf(pr[r]) = i}
      OBVIOUS
    <2>2. CASE i = n
      BY <1>3, <1>4, <1>6, <2>1, <2>2 DEF n
    <2>3. CASE i # n
      BY <1>3, <1>6, <2>1, <2>3 DEF n
    <2> QED  BY <2>2, <2>3
  <1>9. \A w : Bits(q, w) => Bits(q2, w \cup {n})
    BY <1>1, <1>5, <1>6 DEF Bits
  <1>10. QueuesHold(q2, b \cup {p}, pr2, R \cup {p})
    BY <1>6, <1>7, <1>8 DEF QueuesHold
  <1> QED  BY <1>1, <1>9, <1>10 DEF q2, n, t

\* remrq unlinks a queued process and clears the bit of its queue if it was the last.
LEMMA RemoveKeeps ==
  ASSUME NEW q, NEW b, NEW pr, NEW R, QueuesHold(q, b, pr, R),
         pr \in [Procs -> Prios], NEW p \in Procs, p \in R
  PROVE  LET n == QueueOf(pr[p]) IN
         /\ QueuesHold(Unlinked(q, p), b \ {p}, pr, R \ {p})
         /\ \A w : Bits(q, w) => /\ n \in w
                                /\ Bits(Unlinked(q, p),
                                        IF Unlinked(q, p)[n] = <<>> THEN w \ {n} ELSE w)
  <1> DEFINE n == QueueOf(pr[p])
             q2 == Unlinked(q, p)
  <1>1. n \in Queues
    BY QueueOfType
  <1>2. q \in [Queues -> Seq(Procs)] /\ \A i \in Queues : IsTailQ(q[i], Procs)
    BY DEF QueuesHold
  <1>3. \A i \in Queues : ToSet(q[i]) = {r \in R : QueueOf(pr[r]) = i}
    BY DEF QueuesHold
  <1>4. b = R
    BY DEF QueuesHold
  <1>5. p \in ToSet(q[n]) /\ q[n] # <<>>
    BY <1>1, <1>2, <1>3, EmptyTailQ
  <1>6. \A i \in Queues : /\ q2[i] = TAILQ_REMOVE(q[i], p)
                          /\ IsTailQ(q2[i], Procs) /\ ToSet(q2[i]) = ToSet(q[i]) \ {p}
    BY <1>2, RemoveProps DEF Unlinked
  <1>7. q2 \in [Queues -> Seq(Procs)]
    <2>1. q2 = [i \in Queues |-> TAILQ_REMOVE(q[i], p)]
      BY DEF Unlinked
    <2>2. \A i \in Queues : TAILQ_REMOVE(q[i], p) \in Seq(Procs)
      BY <1>6 DEF IsTailQ
    <2> HIDE DEF q2
    <2> QED  BY <2>1, <2>2
  <1> HIDE DEF q2, n
  <1>8. \A i \in Queues : ToSet(q2[i]) = {r \in R \ {p} : QueueOf(pr[r]) = i}
    BY <1>3, <1>6
  <1>9. ASSUME NEW i \in Queues, i # n PROVE q2[i] = q[i]
    <2>1. p \notin ToSet(q[i])
      BY <1>3, <1>9 DEF n
    <2> QED  BY <1>6, <2>1 DEF TAILQ_REMOVE
  <1>10. \A w : Bits(q, w) => n \in w /\ Bits(q2, IF q2[n] = <<>> THEN w \ {n} ELSE w)
    BY <1>1, <1>5, <1>9 DEF Bits
  <1>11. QueuesHold(q2, b \ {p}, pr, R \ {p})
    BY <1>4, <1>6, <1>7, <1>8 DEF QueuesHold
  <1> QED  BY <1>10, <1>11 DEF q2, n

\* Xswitch takes the first process of queue i and clears the bit if it was the last.
LEMMA TakeKeeps ==
  ASSUME NEW q, NEW b, NEW pr, NEW R, QueuesHold(q, b, pr, R), NEW i \in Queues, q[i] # <<>>
  PROVE  LET q2 == [q EXCEPT ![i] = Tail(@)]
         IN /\ Head(q[i]) \in R
            /\ QueuesHold(q2, b \ {Head(q[i])}, pr, R \ {Head(q[i])})
            /\ \A w : Bits(q, w) => Bits(q2, IF Tail(q[i]) = <<>> THEN w \ {i} ELSE w)
  <1> DEFINE p == Head(q[i])
             t == Tail(q[i])
             q2 == [q EXCEPT ![i] = t]
  <1>1. i \in Queues /\ q[i] # <<>> /\ b = R
    BY DEF QueuesHold
  <1>2. q \in [Queues -> Seq(Procs)] /\ \A j \in Queues : IsTailQ(q[j], Procs)
    BY DEF QueuesHold
  <1>3. \A j \in Queues : ToSet(q[j]) = {r \in R : QueueOf(pr[r]) = j}
    BY DEF QueuesHold
  <1>4. /\ p \in ToSet(q[i])
        /\ IsTailQ(t, Procs) /\ ToSet(t) = ToSet(q[i]) \ {p}
    BY <1>1, <1>2, TailProps
  <1>5. t \in Seq(Procs) /\ p \in R /\ QueueOf(pr[p]) = i
    BY <1>1, <1>3, <1>4 DEF IsTailQ
  <1> HIDE DEF p, t
  <1>6. q2 \in [Queues -> Seq(Procs)] /\ q2[i] = t /\ \A j \in Queues \ {i} : q2[j] = q[j]
    BY <1>1, <1>2, <1>5
  <1> HIDE DEF q2
  <1>7. \A j \in Queues : IsTailQ(q2[j], Procs)
    BY <1>2, <1>4, <1>6
  <1>8. ASSUME NEW j \in Queues
        PROVE  ToSet(q2[j]) = {r \in R \ {p} : QueueOf(pr[r]) = j}
    <2>1. CASE j = i
      BY <1>3, <1>4, <1>6, <2>1
    <2>2. CASE j # i
      BY <1>3, <1>5, <1>6, <2>2
    <2> QED  BY <2>1, <2>2
  <1>9. \A w : Bits(q, w) => Bits(q2, IF t = <<>> THEN w \ {i} ELSE w)
    BY <1>1, <1>6 DEF Bits
  <1>10. QueuesHold(q2, b \ {p}, pr, R \ {p})
    BY <1>1, <1>6, <1>7, <1>8 DEF QueuesHold
  <1> QED  BY <1>5, <1>9, <1>10 DEF q2, t, p

\* Changing priorities moves nobody as long as the queued keep their queues.
LEMMA RepriorityKeeps ==
  ASSUME NEW q, NEW b, NEW pr, NEW pr2, NEW R, QueuesHold(q, b, pr, R),
         \A r \in R : QueueOf(pr2[r]) = QueueOf(pr[r])
  PROVE  QueuesHold(q, b, pr2, R)
  <1>1. \A i : {r \in R : QueueOf(pr2[r]) = i} = {r \in R : QueueOf(pr[r]) = i}
    OBVIOUS
  <1> QED  BY <1>1 DEF QueuesHold

-----------------------------------------------------------------------------
(* The actions. *)

\* The bits of whichqs.
LEMMA BitsAre ==
  ASSUME whichqs \subseteq Queues
  PROVE  WhichqsTells <=> Bits(qs, whichqs)
  BY DEF WhichqsTells, Bits

\* The initial state.
LEMMA InitInv == Init => Inv
  <1> SUFFICES ASSUME Init PROVE Inv
    OBVIOUS
  <1>1. qs = [i \in Queues |-> <<>>] /\ whichqs = {} /\ p_back = {}
    BY DEF Init
  <1>2. TypeOK
    <2>1. qs \in [Queues -> Seq(Procs)] /\ whichqs \subseteq Queues /\ p_back \subseteq Procs
      BY <1>1
    <2>2. stat \in [Procs -> {"SRUN", "SSLEEP"}]
      BY DEF Init
    <2> QED  BY <2>1, <2>2 DEF Init, TypeOK
  <1>3. Queued = {}
    BY DEF Init, Queued
  <1>4. QueuesHold(qs, p_back, priority, {})
    BY <1>1 DEF QueuesHold, IsTailQ, ToSet
  <1> QED  BY <1>2, <1>3, <1>4, RunQueueConstants DEF Init, Inv

\* What setrunqueue commits for a process that is on no queue.
LEMMA SetrunqueueCommits ==
  ASSUME NEW q, NEW p, p \notin q.p_back, q.panicstr = "none", NEW n,
         Commit(setrunqueue(q, p, n))
  PROVE  /\ qs' = [q.qs EXCEPT ![QueueOf(n)] = TAILQ_INSERT_TAIL(@, p)]
         /\ whichqs' = q.whichqs \cup {QueueOf(n)}
         /\ p_back' = q.p_back \cup {p} /\ panicstr' = "none"
  BY DEF Commit, setrunqueue

\* The queues' types follow from what they hold.
LEMMA HoldTypes ==
  ASSUME NEW q, NEW b, NEW pr, NEW R, R \subseteq Procs, QueuesHold(q, b, pr, R)
  PROVE  q \in [Queues -> Seq(Procs)] /\ b \subseteq Procs
  BY DEF QueuesHold

\* setrunqueue of a process that becomes runnable or gives up the CPU.
LEMMA SetrunqueueInv ==
  ASSUME Inv, Up, NEW p \in Procs, Commit(setrunqueue(Q, p, priority'[p])),
         p \notin Queued, Queued' = Queued \cup {p},
         priority' \in [Procs -> Prios], \A r \in Procs \ {p} : priority'[r] = priority[r]
  PROVE  /\ QueuesHold(qs', p_back', priority', Queued') /\ panicstr' = "none" /\ KeepsBits
         /\ qs' \in [Queues -> Seq(Procs)] /\ whichqs' \subseteq Queues /\ p_back' \subseteq Procs
  <1>1. QueuesHold(qs, p_back, priority, Queued) /\ whichqs \subseteq Queues /\ panicstr = "none"
    BY DEF Inv, Up, TypeOK
  <1>2. Queued \subseteq Procs /\ Queued' \subseteq Procs
    BY DEF Queued
  <1>3. /\ Q.qs = qs /\ Q.whichqs = whichqs /\ Q.p_back = p_back /\ Q.panicstr = "none"
        /\ p \notin Q.p_back
    BY <1>1 DEF Q, QueuesHold
  <1> HIDE DEF Q
  <1>4. /\ qs' = [qs EXCEPT ![QueueOf(priority'[p])] = TAILQ_INSERT_TAIL(@, p)]
        /\ whichqs' = whichqs \cup {QueueOf(priority'[p])}
        /\ p_back' = p_back \cup {p} /\ panicstr' = "none"
    BY <1>3, SetrunqueueCommits
  <1>5. /\ QueueOf(priority'[p]) \in Queues
        /\ QueuesHold(qs', p_back', priority', Queued')
        /\ \A w : Bits(qs, w) => Bits(qs', w \cup {QueueOf(priority'[p])})
    <2> DEFINE n == QueueOf(priority'[p])
               q2 == [qs EXCEPT ![n] = TAILQ_INSERT_TAIL(@, p)]
    <2>1. \A r \in Queued : priority'[r] = priority[r]
      BY <1>2
    <2>2. /\ n \in Queues /\ QueuesHold(q2, p_back \cup {p}, priority', Queued \cup {p})
          /\ \A w : Bits(qs, w) => Bits(q2, w \cup {n})
      BY <1>1, <2>1, InsertKeeps
    <2> HIDE DEF n
    <2>3. q2 = qs' /\ p_back \cup {p} = p_back' /\ Queued \cup {p} = Queued'
      BY <1>4 DEF n
    <2> HIDE DEF q2
    <2> QED  BY <2>2, <2>3 DEF n
  <1>6. whichqs' \subseteq Queues
    BY <1>1, <1>4, <1>5
  <1>7. qs' \in [Queues -> Seq(Procs)] /\ p_back' \subseteq Procs
    BY <1>2, <1>5, HoldTypes
  <1>8. KeepsBits
    <2>1. WhichqsTells <=> Bits(qs, whichqs)
      BY <1>1, BitsAre
    <2>2. Bits(qs, whichqs) => Bits(qs, whichqs)'
      BY <1>4, <1>5 DEF Bits
    <2>3. Bits(qs, whichqs)' => WhichqsTells'
      BY DEF Bits, WhichqsTells
    <2> QED  BY <1>1, <1>4, <2>1, <2>2, <2>3 DEF KeepsBits
  <1> QED  BY <1>4, <1>5, <1>6, <1>7, <1>8

\* wakeup keeps the invariant, and the bits.
LEMMA WakeupInv ==
  ASSUME Inv, NEW p \in Procs, NEW fast \in BOOLEAN, Wakeup(p, fast)
  PROVE  Inv' /\ KeepsBits
  <1>1. /\ Up /\ stat[p] = "SSLEEP" /\ stat' = [stat EXCEPT ![p] = "SRUN"]
        /\ Commit(setrunqueue(Q, p, priority'[p]))
        /\ UNCHANGED <<curproc, pc, spl0, edi>>
    BY DEF Wakeup, Interrupts
  <1>2. TypeOK
    BY DEF Inv
  <1>3. PUSER \in Prios
    BY RunQueueConstants DEF Prios
  <1>4. priority' \in [Procs -> Prios] /\ \A r \in Procs \ {p} : priority'[r] = priority[r]
    BY <1>2, <1>3 DEF Wakeup, TypeOK
  <1>5. p \notin Queued /\ p # curproc /\ Queued' = Queued \cup {p}
    BY <1>1, <1>2, RunQueueConstants DEF Queued, Inv, TypeOK
  <1>6. /\ QueuesHold(qs', p_back', priority', Queued') /\ panicstr' = "none" /\ KeepsBits
        /\ qs' \in [Queues -> Seq(Procs)] /\ whichqs' \subseteq Queues /\ p_back' \subseteq Procs
    BY <1>1, <1>4, <1>5, SetrunqueueInv
  <1>7. TypeOK'
    BY <1>1, <1>2, <1>4, <1>6 DEF TypeOK
  <1> QED  BY <1>1, <1>5, <1>6, <1>7 DEF Inv, TypeOK

\* schedcpu keeps the invariant; if the bit of the process's queue is lost, remrq panics.
LEMMA SchedcpuInv ==
  ASSUME Inv, NEW p \in Procs, NEW n \in UserPrios, Schedcpu(p, n)
  PROVE  Inv' /\ KeepsBits
  <1>1. /\ Up /\ priority' = [priority EXCEPT ![p] = n]
        /\ UNCHANGED <<stat, curproc, pc, spl0, edi>>
    BY DEF Schedcpu, Interrupts
  <1>2. /\ TypeOK /\ QueuesHold(qs, p_back, priority, Queued) /\ panicstr = "none"
        /\ (WhichqsTells <=> Bits(qs, whichqs))
    BY <1>1, BitsAre DEF Inv, Up, TypeOK
  <1>3. /\ priority' \in [Procs -> Prios] /\ priority'[p] = n
        /\ \A r \in Procs \ {p} : priority'[r] = priority[r]
    BY <1>1, <1>2 DEF TypeOK, UserPrios
  <1>4. Queued' = Queued /\ Queued \subseteq Procs
    BY <1>1 DEF Queued
  <1>b. Bits(qs, whichqs)' => WhichqsTells'
    BY DEF Bits, WhichqsTells
  <1>6. /\ panicstr' \in {"none", "remrq"} /\ whichqs' \subseteq Queues
        /\ panicstr' = "none" => QueuesHold(qs', p_back', priority', Queued)
        /\ qs' \in [Queues -> Seq(Procs)] /\ p_back' \subseteq Procs
        /\ Bits(qs, whichqs) => Bits(qs, whichqs)' /\ panicstr' = "none"
    <2> DEFINE i == QueueOf(priority[p])
               q == remrq(Q, p)
               w == IF Unlinked(qs, p)[i] = <<>> THEN whichqs \ {i} ELSE whichqs
    <2>1. CASE p \in Queued /\ QueueOf(n) # i /\ i \in whichqs
      <3>1. /\ QueuesHold(Unlinked(qs, p), p_back \ {p}, priority, Queued \ {p})
            /\ Bits(qs, whichqs) => Bits(Unlinked(qs, p), w)
        BY <1>2, <2>1, RemoveKeeps DEF TypeOK
      <3>2. /\ q.qs = Unlinked(qs, p) /\ q.whichqs = w
            /\ q.p_back = p_back \ {p} /\ q.panicstr = "none"
        BY <1>2, <2>1 DEF remrq, Q
      <3>a. w \subseteq Queues
        BY <1>2 DEF TypeOK
      <3> HIDE DEF q, w
      <3>3. Commit(setrunqueue(q, p, n))
        BY <2>1, <3>2 DEF Schedcpu, Queued, q
      <3>4. /\ qs' = [Unlinked(qs, p) EXCEPT ![QueueOf(n)] = TAILQ_INSERT_TAIL(@, p)]
            /\ whichqs' = w \cup {QueueOf(n)}
            /\ p_back' = (p_back \ {p}) \cup {p} /\ panicstr' = "none"
        BY <3>2, <3>3, SetrunqueueCommits
      <3>5. /\ QueuesHold(qs', p_back', priority', (Queued \ {p}) \cup {p})
            /\ Bits(Unlinked(qs, p), w) => Bits(qs', w \cup {QueueOf(n)})
            /\ QueueOf(n) \in Queues
        <4> DEFINE q2 == [Unlinked(qs, p) EXCEPT ![QueueOf(n)] = TAILQ_INSERT_TAIL(@, p)]
                   R == Queued \ {p}
        <4>1. \A r \in R : priority'[r] = priority[r]
          BY <1>3, <1>4
        <4>2. p \notin R /\ QueuesHold(Unlinked(qs, p), p_back \ {p}, priority, R)
          BY <3>1
        <4> HIDE DEF R
        <4>3. /\ QueueOf(n) \in Queues
              /\ QueuesHold(q2, (p_back \ {p}) \cup {p}, priority', R \cup {p})
              /\ \A u : Bits(Unlinked(qs, p), u) => Bits(q2, u \cup {QueueOf(n)})
          BY <1>3, <4>1, <4>2, InsertKeeps
        <4> QED  BY <3>4, <4>3 DEF R
      <3>6. (Queued \ {p}) \cup {p} = Queued
        BY <2>1
      <3>7. Bits(qs, whichqs) => Bits(qs, whichqs)'
        BY <3>1, <3>4, <3>5 DEF Bits
      <3>8. qs' \in [Queues -> Seq(Procs)] /\ p_back' \subseteq Procs
        BY <1>4, <3>5, <3>6, HoldTypes
      <3> QED  BY <3>a, <3>4, <3>5, <3>6, <3>7, <3>8
    <2>2. CASE p \in Queued /\ QueueOf(n) # i /\ i \notin whichqs
      <3>1. q = [Q EXCEPT !.panicstr = "remrq"]
        BY <2>2 DEF remrq, Q
      <3>2. /\ q.qs = qs /\ q.whichqs = whichqs /\ q.p_back = p_back /\ q.panicstr = "remrq"
        BY <3>1 DEF Q
      <3> HIDE DEF q
      <3>3. Commit(q)
        BY <2>2, <3>2 DEF Schedcpu, Queued, q
      <3>4. ~Bits(qs, whichqs)
        BY <1>2, <2>2, RemoveKeeps DEF TypeOK
      <3> QED  BY <1>2, <3>2, <3>3, <3>4 DEF Commit, TypeOK
    <2>3. CASE ~(p \in Queued /\ QueueOf(n) # i)
      <3>1. UNCHANGED <<qs, whichqs, p_back, panicstr>>
        BY <2>3 DEF Schedcpu, Queued
      <3>2. \A r \in Queued : QueueOf(priority'[r]) = QueueOf(priority[r])
        BY <1>3, <1>4, <2>3
      <3>3. QueuesHold(qs, p_back, priority', Queued)
        BY <1>2, <3>2, RepriorityKeeps
      <3> QED  BY <1>2, <3>1, <3>3 DEF TypeOK, Bits
    <2> QED  BY <2>1, <2>2, <2>3
  <1>7. TypeOK'
    BY <1>1, <1>2, <1>3, <1>6 DEF TypeOK
  <1>8. KeepsBits
    BY <1>2, <1>6, <1>b DEF KeepsBits
  <1> QED  BY <1>1, <1>4, <1>6, <1>7, <1>8 DEF Inv

\* A process that gives up the CPU to sleep or stop was not queued and is not.
LEMMA BlockInv ==
  ASSUME Inv, Up, NEW p \in Procs, pc = "run", curproc = p,
         stat' = [stat EXCEPT ![p] = "SSLEEP"],
         priority' \in [Procs -> Prios], \A r \in Procs \ {p} : priority'[r] = priority[r],
         curproc' = None, pc' = "load", spl0' \in BOOLEAN,
         UNCHANGED <<qs, whichqs, p_back, edi, panicstr>>
  PROVE  Inv' /\ KeepsBits
  <1>1. TypeOK /\ QueuesHold(qs, p_back, priority, Queued)
    BY DEF Inv, Up
  <1>2. Queued' = Queued /\ p \notin Queued /\ Queued \subseteq Procs
    BY <1>1, RunQueueConstants DEF Queued, TypeOK
  <1>3. QueuesHold(qs, p_back, priority', Queued)
    BY <1>1, <1>2, RepriorityKeeps
  <1>4. TypeOK'
    BY <1>1 DEF TypeOK
  <1> QED  BY <1>2, <1>3, <1>4 DEF Inv, KeepsBits, WhichqsTells

\* tsleep keeps the invariant.
LEMMA SleepInv ==
  ASSUME Inv, NEW p \in Procs, NEW n \in Prios, Sleep(p, n)
  PROVE  Inv' /\ KeepsBits
  <1>1. priority' \in [Procs -> Prios] /\ \A r \in Procs \ {p} : priority'[r] = priority[r]
    BY DEF Sleep, Inv, TypeOK
  <1> QED  BY <1>1, BlockInv DEF Sleep

\* A stop keeps the invariant.
LEMMA StopInv ==
  ASSUME Inv, NEW p \in Procs, Stop(p)
  PROVE  Inv' /\ KeepsBits
  <1>1. priority' \in [Procs -> Prios] /\ \A r \in Procs \ {p} : priority'[r] = priority[r]
    BY DEF Stop, Inv, TypeOK
  <1> QED  BY <1>1, BlockInv DEF Stop

\* Preemption keeps the invariant.
LEMMA PreemptInv ==
  ASSUME Inv, NEW p \in Procs, NEW n \in UserPrios, Preempt(p, n)
  PROVE  Inv' /\ KeepsBits
  <1>1. /\ Up /\ pc = "run" /\ curproc = p /\ priority' = [priority EXCEPT ![p] = n]
        /\ Commit(setrunqueue(Q, p, n))
        /\ curproc' = None /\ pc' = "load" /\ spl0' = FALSE /\ UNCHANGED <<stat, edi>>
    BY DEF Preempt
  <1>2. TypeOK
    BY DEF Inv
  <1>3. /\ priority' \in [Procs -> Prios] /\ priority'[p] = n
        /\ \A r \in Procs \ {p} : priority'[r] = priority[r]
    BY <1>1, <1>2 DEF TypeOK, UserPrios
  <1>4. p \notin Queued /\ Queued' = Queued \cup {p}
    BY <1>1, RunQueueConstants DEF Queued, Inv
  <1>5. /\ QueuesHold(qs', p_back', priority', Queued') /\ panicstr' = "none" /\ KeepsBits
        /\ qs' \in [Queues -> Seq(Procs)] /\ whichqs' \subseteq Queues /\ p_back' \subseteq Procs
    BY <1>1, <1>3, <1>4, SetrunqueueInv
  <1>6. TypeOK'
    BY <1>1, <1>2, <1>3, <1>5 DEF TypeOK
  <1> QED  BY <1>1, <1>5, <1>6 DEF Inv

\* Xswitch takes a runnable process, or panics on an empty queue; from an up-to-date
\* register it does not, and stores back whichqs without the bit of a queue it emptied.
LEMMA PickInv ==
  ASSUME Inv, Pick
  PROVE  Inv' /\ (edi = whichqs => KeepsBits)
  <1> DEFINE i == CHOOSE x \in edi : \A y \in edi : x <= y
             p == Head(qs[i])
  <1>1. /\ TypeOK /\ QueuesHold(qs, p_back, priority, Queued) /\ panicstr = "none"
        /\ pc = "pick" /\ curproc = None /\ edi # {} /\ edi \subseteq Queues
        /\ (WhichqsTells <=> Bits(qs, whichqs))
    BY BitsAre DEF Pick, Inv, Up, TypeOK
  <1>2. i \in edi /\ i \in Queues
    BY <1>1, FirstQueue
  <1>3. CASE qs[i] = <<>>
    <2>1. panicstr' = "Xswitch" /\ UNCHANGED <<qs, whichqs, p_back, priority, stat, curproc, pc, spl0, edi>>
      BY <1>3 DEF Pick
    <2>2. edi = whichqs => ~Bits(qs, whichqs)
      BY <1>2, <1>3 DEF Bits
    <2> HIDE DEF i
    <2>3. TypeOK'
      BY <1>1, <2>1 DEF TypeOK
    <2> QED  BY <1>1, <2>1, <2>2, <2>3 DEF Inv, KeepsBits
  <1>4. CASE qs[i] # <<>>
    <2> DEFINE w == IF Tail(qs[i]) = <<>> THEN edi \ {i} ELSE edi
    <2>a. /\ qs' = [qs EXCEPT ![i] = Tail(@)] /\ edi' = {} /\ whichqs' = w
          /\ p_back' = p_back \ {p} /\ panicstr' = IF stat[p] # "SRUN" THEN "Xswitch" ELSE "none"
          /\ curproc' = p /\ pc' = "run" /\ spl0' = FALSE /\ UNCHANGED <<priority, stat>>
      BY <1>4 DEF Pick, StoredBack
    <2>1. /\ p \in Queued
          /\ QueuesHold([qs EXCEPT ![i] = Tail(@)], p_back \ {p}, priority, Queued \ {p})
          /\ edi = whichqs /\ Bits(qs, whichqs) => Bits([qs EXCEPT ![i] = Tail(@)], w)
      <3> HIDE DEF i
      <3> QED  BY <1>1, <1>2, <1>4, TakeKeeps
    <2>2. w \subseteq Queues
      BY <1>1
    <2> HIDE DEF w, i, p
    <2>3. p \in Procs /\ stat[p] = "SRUN"
      BY <2>1 DEF Queued
    <2>4. Queued' = Queued \ {p} /\ Queued' \subseteq Procs
      BY <1>1, <2>a, RunQueueConstants DEF Queued
    <2>5. QueuesHold(qs', p_back', priority', Queued') /\ panicstr' = "none"
      BY <2>a, <2>1, <2>3, <2>4
    <2>6. qs' \in [Queues -> Seq(Procs)] /\ p_back' \subseteq Procs
      BY <2>4, <2>5, HoldTypes
    <2>7. TypeOK'
      BY <1>1, <2>a, <2>2, <2>3, <2>5, <2>6 DEF TypeOK
    <2>8. edi = whichqs => KeepsBits
      BY <1>1, <2>a, <2>1, <2>5 DEF KeepsBits, Bits, WhichqsTells
    <2> QED  BY <2>a, <2>3, <2>5, <2>7, <2>8 DEF Inv
  <1> QED  BY <1>3, <1>4

\* Every step keeps the invariant, and the bits unless Xswitch stores a stale register.
LEMMA NextInv == Inv /\ [Next]_vars => Inv' /\ (KeepsBits \/ (Pick /\ edi # whichqs))
  <1> SUFFICES ASSUME Inv, [Next]_vars PROVE Inv' /\ (KeepsBits \/ (Pick /\ edi # whichqs))
    OBVIOUS
  <1>1. ASSUME NEW p \in Procs, NEW fast \in BOOLEAN, Wakeup(p, fast) PROVE Inv' /\ KeepsBits
    BY <1>1, WakeupInv
  <1>2. ASSUME NEW p \in Procs, NEW n \in UserPrios, Schedcpu(p, n) PROVE Inv' /\ KeepsBits
    BY <1>2, SchedcpuInv
  <1>3. ASSUME NEW p \in Procs, NEW n \in UserPrios, Preempt(p, n) PROVE Inv' /\ KeepsBits
    BY <1>3, PreemptInv
  <1>4. ASSUME NEW p \in Procs, NEW n \in Prios, Sleep(p, n) PROVE Inv' /\ KeepsBits
    BY <1>4, SleepInv
  <1>5. ASSUME NEW p \in Procs, Stop(p) PROVE Inv' /\ KeepsBits
    BY <1>5, StopInv
  <1>6. ASSUME Load \/ PickNone \/ Idle PROVE Inv' /\ KeepsBits
    <2>1. Queued' = Queued
      BY <1>6 DEF Load, PickNone, Idle, Queued
    <2>2. TypeOK'
      BY <1>6 DEF Load, PickNone, Idle, Inv, TypeOK
    <2>3. KeepsBits
      BY <1>6 DEF Load, PickNone, Idle, KeepsBits, WhichqsTells
    <2> QED  BY <1>6, <2>1, <2>2, <2>3 DEF Load, PickNone, Idle, Inv
  <1>7. CASE Pick
    BY <1>7, PickInv
  <1>8. CASE UNCHANGED vars
    <2>1. Queued' = Queued /\ TypeOK'
      BY <1>8 DEF vars, Queued, Inv, TypeOK
    <2>2. KeepsBits
      BY <1>8 DEF vars, KeepsBits, WhichqsTells
    <2> QED  BY <1>8, <2>1, <2>2 DEF vars, Inv
  <1> QED  BY <1>1, <1>2, <1>3, <1>4, <1>5, <1>6, <1>7, <1>8 DEF Next, Xswitch

\* The invariant holds in every reachable state.
LEMMA SpecInv == Spec => []Inv
  <1>1. Inv /\ [Next]_vars => Inv'
    BY NextInv
  <1> QED  BY <1>1, InitInv, PTL DEF Spec

-----------------------------------------------------------------------------
(* The theorems. *)

\* The run queues, the register and the process fields keep their types.
THEOREM RunTypes == Spec => []TypeOK
  <1>1. Inv => TypeOK
    BY DEF Inv
  <1> QED  BY <1>1, SpecInv, PTL

\* Every runnable process but the running one is linked exactly once, on the queue of its
\* priority; no other process is on a queue.  A lost or stale bit of whichqs does not
\* change that: remrq and Xswitch panic before they touch the links.
THEOREM QueuedOnce == Spec => []OnItsQueue
  <1>1. Inv => OnItsQueue
    <2> SUFFICES ASSUME Inv, panicstr = "none", NEW i \in Queues
                 PROVE  /\ \A j, k \in DOMAIN qs[i] : qs[i][j] = qs[i][k] => j = k
                        /\ ToSet(qs[i]) = {p \in Procs : /\ stat[p] = "SRUN" /\ p # curproc
                                                         /\ i = QueueOf(priority[p])}
      BY DEF OnItsQueue
    <2>1. IsTailQ(qs[i], Procs) /\ ToSet(qs[i]) = {p \in Queued : QueueOf(priority[p]) = i}
      BY DEF Inv, QueuesHold
    <2> QED  BY <2>1 DEF IsTailQ, Queued
  <1> QED  BY <1>1, SpecInv, PTL

\* No step of setrunqueue, remrq, Xswitch or schedcpu panics while the bits of whichqs are
\* right, and only one makes them wrong: Xswitch picks by a register that is not whichqs
\* any more.  (An interrupt between its load and its cli does that; MCRunQueueWindow.)
THEOREM BitsTell == Spec => [][KeepsBits \/ (Pick /\ edi # whichqs)]_vars
  <1>1. Inv /\ [Next]_vars => [KeepsBits \/ (Pick /\ edi # whichqs)]_vars
    BY NextInv
  <1> QED  BY <1>1, SpecInv, PTL DEF Spec
=============================================================================
