---------------------------- MODULE CalloutProofs ----------------------------
(***************************************************************************)
(* Proofs about the callout queue of kern_clock.c, for every table size,   *)
(* every set of timers and every MaxTicks and MaxLate: the queue keeps its *)
(* delta encoding, its order and its slots, a due entry is always on its   *)
(* way to softclock, and timeout, untimeout, hardclock and softclock       *)
(* implement the promise stated in CalloutAbs.                             *)
(*                                                                         *)
(* The inductive invariant IInv joins the properties of Callout.  None of  *)
(* DeltaEncoding, SortedByDue and WalkSoFar is inductive alone: a tick     *)
(* keeps the deltas right only because the queue is sorted, and an insert  *)
(* keeps it sorted only because the walk has subtracted the deltas.        *)
(***************************************************************************)
EXTENDS Callout, TailQProofs, SequenceTheorems, WellFoundedInduction, TLAPS

\* What InsertAt returns: linking an entry at i (the end of timeout) shifts
\* the later entries up by one and keeps the others.
LEMMA InsertAtProps ==
  ASSUME NEW S, NEW q \in Seq(S), NEW i \in 1..(Len(q) + 1), NEW e \in S
  PROVE  /\ InsertAt(q, i, e) \in Seq(S)
         /\ Len(InsertAt(q, i, e)) = Len(q) + 1
         /\ \A k \in 1..(Len(q) + 1) :
               InsertAt(q, i, e)[k] = IF k < i THEN q[k]
                                      ELSE IF k = i THEN e ELSE q[k - 1]
<1> DEFINE a == SubSeq(q, 1, i - 1)
           b == SubSeq(q, i, Len(q))
           c == a \o <<e>>
<1>1. a \in Seq(S) /\ Len(a) = i - 1 /\ \A k \in 1..(i - 1) : a[k] = q[k]
  OBVIOUS
<1>2. b \in Seq(S) /\ Len(b) = Len(q) + 1 - i
      /\ \A k \in 1..(Len(q) + 1 - i) : b[k] = q[k + i - 1]
  OBVIOUS
<1> HIDE DEF a, b
<1>3. c \in Seq(S) /\ Len(c) = i /\ c[i] = e /\ \A k \in 1..(i - 1) : c[k] = q[k]
  BY <1>1
<1> HIDE DEF c
<1>4. /\ c \o b \in Seq(S)
      /\ Len(c \o b) = Len(c) + Len(b)
      /\ \A k \in 1..(Len(c) + Len(b)) :
            (c \o b)[k] = IF k <= Len(c) THEN c[k] ELSE b[k - Len(c)]
  BY <1>2, <1>3, ConcatProperties
<1>5. InsertAt(q, i, e) = c \o b
  BY DEF InsertAt, a, b, c
<1>6. ASSUME NEW k \in 1..(Len(q) + 1)
      PROVE  InsertAt(q, i, e)[k] = IF k < i THEN q[k]
                                    ELSE IF k = i THEN e ELSE q[k - 1]
  <2>1. CASE k <= i
    BY <1>2, <1>3, <1>4, <1>5, <2>1
  <2>2. CASE k > i
    <3>1. k - i \in 1..(Len(q) + 1 - i) /\ (k - i) + i - 1 = k - 1
      BY <2>2
    <3>2. b[k - i] = q[k - 1]
      BY <1>2, <3>1
    <3> QED BY <1>2, <1>3, <1>4, <1>5, <2>2, <3>2
  <2> QED BY <2>1, <2>2
<1> QED BY <1>2, <1>3, <1>4, <1>5, <1>6

\* The inductive invariant.
IInv == /\ TypeOK /\ SlotsPartitioned /\ SortedByDue /\ DeltaEncoding
        /\ DueIsRequested /\ PanicOnlyWhenFull /\ WalkSoFar /\ CallsAreTimers

\* The table set up by machdep.c, all slots free, satisfies IInv.
LEMMA InitInv == Init => IInv
<1> SUFFICES ASSUME Init PROVE IInv
  OBVIOUS
<1> USE DEF Init
<1>1. TypeOK
  <2>1. calltodo \in Seq(Slots) /\ callfree \in SUBSET Slots
    OBVIOUS
  <2>2. c_time \in [Slots -> Int] /\ left \in [Slots -> Int]
    OBVIOUS
  <2>3. c_tmr \in [Slots -> Timers \cup {Idle}]
    OBVIOUS
  <2> QED BY <2>1, <2>2, <2>3 DEF TypeOK
<1>2. InQueue = {}
  BY DEF InQueue
<1>3. SlotsPartitioned
  BY <1>2 DEF SlotsPartitioned
<1>4. SortedByDue /\ DeltaEncoding /\ DueIsRequested
  BY DEF SortedByDue, DeltaEncoding, DueIsRequested
<1>5. PanicOnlyWhenFull /\ WalkSoFar /\ CallsAreTimers
  BY DEF PanicOnlyWhenFull, WalkSoFar, CallsAreTimers
<1> QED BY <1>1, <1>3, <1>4, <1>5 DEF IInv

\* Every position of the queue holds a slot with integer times.
LEMMA QueueIndex ==
  ASSUME IInv
  PROVE  /\ Len(calltodo) \in Nat
         /\ \A i \in 1..Len(calltodo) : /\ calltodo[i] \in Slots
                                        /\ calltodo[i] \in InQueue
                                        /\ left[calltodo[i]] \in Int
                                        /\ c_time[calltodo[i]] \in Int
  BY DEF IInv, TypeOK, InQueue

\* Taking a slot off callfree in timeout keeps IInv.
LEMMA TimeoutEnterInv ==
  ASSUME IInv, NEW f \in Timers, NEW n \in 0..MaxTicks, TimeoutEnter(f, n)
  PROVE  IInv'
<1> USE CalloutConstants
<1>1. PICK s \in callfree : /\ new' = s
                            /\ callfree' = callfree \ {s}
                            /\ c_tmr' = [c_tmr EXCEPT ![s] = f]
                            /\ ticks' = IF n <= 0 THEN 1 ELSE n
                            /\ left' = [left EXCEPT ![s] = ticks']
  BY DEF TimeoutEnter
<1>2. /\ UNCHANGED <<calltodo, c_time, sc, clkmask, netisr, calling, panicked>>
      /\ cpu' = "walk" /\ pos' = 0 /\ cpu = "run" /\ sc # "top" /\ ~panicked
  BY DEF TimeoutEnter, Running, soft
<1>3. s \in Slots /\ s \notin InQueue /\ ticks' \in 1..MaxTicks
  BY <1>1 DEF IInv, TypeOK, SlotsPartitioned
<1>4. TypeOK'
  BY <1>1, <1>2, <1>3 DEF IInv, TypeOK
<1>5. InQueue' = InQueue
  BY <1>2 DEF InQueue
<1>6. SlotsPartitioned'
  BY <1>1, <1>2, <1>3, <1>5 DEF IInv, SlotsPartitioned
<1>7. \A i \in 1..Len(calltodo) : left'[calltodo[i]] = left[calltodo[i]]
  BY <1>1, <1>3, QueueIndex DEF IInv, TypeOK
<1>8. SortedByDue' /\ DeltaEncoding' /\ DueIsRequested'
  <2>1. SortedByDue'
    BY <1>2, <1>7 DEF IInv, SortedByDue
  <2>2. DeltaEncoding'
    BY <1>2, <1>7, QueueIndex DEF IInv, DeltaEncoding
  <2>3. DueIsRequested'
    BY <1>2, <1>7 DEF IInv, DueIsRequested
  <2> QED BY <2>1, <2>2, <2>3
<1>9. PanicOnlyWhenFull'
  BY <1>2 DEF PanicOnlyWhenFull
<1>10. WalkSoFar'
  BY <1>1, <1>2, <1>3, QueueIndex DEF IInv, TypeOK, WalkSoFar
<1>11. CallsAreTimers'
  BY <1>1, <1>2, <1>3 DEF IInv, TypeOK, CallsAreTimers
<1> QED BY <1>4, <1>6, <1>8, <1>9, <1>10, <1>11 DEF IInv

\* The panic of timeout on an empty callfree keeps IInv.
LEMMA TimeoutPanicInv ==
  ASSUME IInv, TimeoutPanic
  PROVE  IInv'
<1> USE DEF TimeoutPanic, Running, queue, locals, soft, IInv
<1>1. InQueue' = InQueue
  BY DEF InQueue
<1>2. TypeOK'
  BY DEF TypeOK
<1>3. SlotsPartitioned' /\ CallsAreTimers'
  BY <1>1 DEF SlotsPartitioned, CallsAreTimers
<1>4. SortedByDue' /\ DeltaEncoding' /\ DueIsRequested' /\ WalkSoFar'
  BY DEF SortedByDue, DeltaEncoding, DueIsRequested, WalkSoFar
<1>5. PanicOnlyWhenFull'
  BY <1>1 DEF PanicOnlyWhenFull, SlotsPartitioned
<1> QED BY <1>2, <1>3, <1>4, <1>5

\* One turn of timeout's loop keeps IInv: subtracting a positive c_time
\* leaves ticks relative to the entry just passed.
LEMMA TimeoutWalkInv ==
  ASSUME IInv, TimeoutWalk
  PROVE  IInv'
<1> USE DEF TimeoutWalk, queue, soft
<1>1. InQueue' = InQueue
  BY DEF InQueue
<1>2. TypeOK'
  <2>1. pos \in Nat /\ ticks \in Int /\ Len(calltodo) \in Nat /\ pos < Len(calltodo)
    BY QueueIndex DEF IInv, TypeOK, WalksPast
  <2>2. c_time[calltodo[pos + 1]] \in Int
    BY <2>1, QueueIndex
  <2>3. pos' \in Nat /\ ticks' \in Int
    BY <2>1, <2>2 DEF Pos
  <2> QED BY <2>3 DEF IInv, TypeOK
<1>3. SlotsPartitioned' /\ CallsAreTimers'
  BY <1>1 DEF IInv, SlotsPartitioned, CallsAreTimers
<1>4. SortedByDue' /\ DeltaEncoding' /\ DueIsRequested' /\ PanicOnlyWhenFull'
  BY DEF IInv, SortedByDue, DeltaEncoding, DueIsRequested, PanicOnlyWhenFull, InQueue
<1>5. WalkSoFar'
  <2> DEFINE t == calltodo[pos + 1]
             prev == IF pos = 0 THEN 0 ELSE Pos(left[calltodo[pos]])
  <2>1. /\ pos \in Nat /\ pos + 1 \in 1..Len(calltodo) /\ ticks > c_time[t]
        /\ left[new] \in Int /\ left[t] \in Int /\ prev \in Nat
        /\ ticks = left[new] - prev
    <3>1. Len(calltodo) \in Nat /\ \A i \in 1..Len(calltodo) : left[calltodo[i]] \in Int
      BY QueueIndex
    <3>2. /\ pos < Len(calltodo) /\ ticks > c_time[t] /\ pos \in Nat
          /\ left[new] \in Int /\ ticks = left[new] - prev
      BY DEF IInv, TypeOK, WalkSoFar, WalksPast
    <3> QED BY <3>1, <3>2 DEF Pos
  <2>2. c_time[t] = left[t] - prev
    BY <2>1, QueueIndex DEF IInv, DeltaEncoding
  <2>3. left[t] < left[new]
    BY <2>1, <2>2
  <2>4. ticks' = left[new] - Pos(left[t])
    <3>1. prev = 0 \/ (pos > 0 /\ prev = left[calltodo[pos]] /\ prev <= left[t])
      BY <2>1, QueueIndex DEF IInv, SortedByDue, Pos
    <3> QED BY <2>1, <2>2, <3>1 DEF Pos
  <2> QED BY <2>1, <2>3, <2>4 DEF IInv, WalkSoFar
<1> QED BY <1>2, <1>3, <1>4, <1>5 DEF IInv

\* The end of timeout keeps IInv and adds exactly the new entry: it splits
\* the delta of the entry that follows it.
LEMMA TimeoutInsertInv ==
  ASSUME IInv, TimeoutInsert
  PROVE  IInv' /\ InQueue' = InQueue \cup {new}
<1> DEFINE N == Len(calltodo)
           t == calltodo[pos + 1]
           prev == IF pos = 0 THEN 0 ELSE Pos(left[calltodo[pos]])
<1>1. /\ UNCHANGED <<callfree, c_tmr, left, new, sc, clkmask, netisr, calling, panicked>>
      /\ cpu' = "run" /\ pos' = 0 /\ ticks' = 0 /\ cpu = "walk"
      /\ calltodo' = InsertAt(calltodo, pos + 1, new)
      /\ pos < N => ~(ticks > c_time[t])
      /\ c_time' = [s \in Slots |->
                      IF s = new THEN ticks
                      ELSE IF pos < N /\ s = t THEN c_time[s] - ticks ELSE c_time[s]]
  BY DEF TimeoutInsert, WalksPast, soft
<1>2. /\ N \in Nat /\ pos \in 0..N /\ new \in Slots /\ ticks \in Int
      /\ left[new] \in Int /\ left[new] > 0 /\ left[new] <= MaxTicks
      /\ sc # "top"
      /\ new \notin InQueue
  BY <1>1, CalloutConstants DEF IInv, TypeOK, WalkSoFar, SlotsPartitioned
<1>3. \A i \in 1..N : /\ calltodo[i] \in Slots /\ calltodo[i] \in InQueue /\ calltodo[i] # new
                      /\ left[calltodo[i]] \in Int /\ c_time[calltodo[i]] \in Int
  BY <1>2, QueueIndex
<1>4. /\ calltodo' \in Seq(Slots) /\ Len(calltodo') = N + 1
      /\ \A k \in 1..(N + 1) : calltodo'[k] = IF k < pos + 1 THEN calltodo[k]
                                              ELSE IF k = pos + 1 THEN new ELSE calltodo[k - 1]
  <2>1. calltodo \in Seq(Slots) /\ pos + 1 \in 1..(N + 1)
    BY <1>2 DEF IInv, TypeOK
  <2>2. /\ InsertAt(calltodo, pos + 1, new) \in Seq(Slots)
        /\ Len(InsertAt(calltodo, pos + 1, new)) = N + 1
        /\ \A k \in 1..(N + 1) : InsertAt(calltodo, pos + 1, new)[k] =
             IF k < pos + 1 THEN calltodo[k] ELSE IF k = pos + 1 THEN new ELSE calltodo[k - 1]
    <3>1. \A i \in 1..(N + 1) :
             /\ InsertAt(calltodo, i, new) \in Seq(Slots)
             /\ Len(InsertAt(calltodo, i, new)) = N + 1
             /\ \A k \in 1..(N + 1) : InsertAt(calltodo, i, new)[k] =
                  IF k < i THEN calltodo[k] ELSE IF k = i THEN new ELSE calltodo[k - 1]
      BY <1>2, <2>1, InsertAtProps
    <3> QED BY <2>1, <3>1
  <2> QED BY <1>1, <2>2
<1> HIDE DEF N
<1>5. InQueue' = InQueue \cup {new}
  <2>1. \A i \in 1..N : \E k \in 1..(N + 1) : calltodo'[k] = calltodo[i]
    <3> SUFFICES ASSUME NEW i \in 1..N
                 PROVE  \E k \in 1..(N + 1) : calltodo'[k] = calltodo[i]
      OBVIOUS
    <3>1. CASE i < pos + 1
      BY <1>2, <1>4, <3>1
    <3>2. CASE i >= pos + 1
      <4>1. calltodo'[i + 1] = calltodo[i]
        BY <1>2, <1>4, <3>2
      <4> QED BY <1>2, <4>1
    <3> QED BY <1>2, <3>1, <3>2
  <2>2. calltodo'[pos + 1] = new /\ pos + 1 \in 1..(N + 1)
    BY <1>2, <1>4
  <2>3. \A k \in 1..(N + 1) : calltodo'[k] = new \/ \E i \in 1..N : calltodo'[k] = calltodo[i]
    BY <1>2, <1>4
  <2>4. InQueue = {calltodo[i] : i \in 1..N}
    BY DEF InQueue, N
  <2>5. InQueue' = {calltodo'[k] : k \in 1..(N + 1)}
    BY <1>4 DEF InQueue
  <2>6. \A x \in InQueue' : x \in InQueue \/ x = new
    BY <2>3, <2>4, <2>5
  <2>7. \A x \in InQueue : x \in InQueue'
    BY <2>1, <2>4, <2>5
  <2>8. new \in InQueue'
    BY <2>2, <2>5
  <2> QED BY <2>6, <2>7, <2>8
<1>6. TypeOK'
  <2>1. c_time \in [Slots -> Int] /\ ticks \in Int
    BY DEF IInv, TypeOK
  <2>2. c_time' \in [Slots -> Int]
    BY <1>1, <2>1
  <2>3. cpu' = "run" /\ pos' = 0 /\ ticks' = 0 /\ calltodo' \in Seq(Slots)
    BY <1>1, <1>4
  <2>4. /\ callfree' = callfree /\ c_tmr' = c_tmr /\ left' = left /\ new' = new /\ sc' = sc
        /\ clkmask' = clkmask /\ netisr' = netisr /\ calling' = calling /\ panicked' = panicked
    BY <1>1
  <2> QED BY <2>2, <2>3, <2>4 DEF IInv, TypeOK
<1>7. SlotsPartitioned'
  <2>1. \A i, j \in 1..(N + 1) : calltodo'[i] = calltodo'[j] => i = j
    <3>1. \A i, j \in 1..N : calltodo[i] = calltodo[j] => i = j
      BY DEF IInv, SlotsPartitioned, N
    <3> SUFFICES ASSUME NEW i \in 1..(N + 1), NEW j \in 1..(N + 1), calltodo'[i] = calltodo'[j], i < j
                 PROVE  FALSE
      BY <1>2
    <3>2. CASE i = pos + 1 \/ j = pos + 1
      BY <1>2, <1>3, <1>4, <3>2
    <3>3. CASE i # pos + 1 /\ j # pos + 1
      <4>1. CASE j < pos + 1
        <5>1. calltodo'[i] = calltodo[i] /\ calltodo'[j] = calltodo[j] /\ i \in 1..N /\ j \in 1..N
          BY <1>2, <1>4, <4>1
        <5>2. calltodo[i] = calltodo[j]
          BY <5>1
        <5>3. i = j
          BY <3>1, <5>1, <5>2
        <5>4. i \in Int /\ j \in Int /\ i < j
          BY <1>2
        <5> QED BY <5>1, <5>3, <5>4
      <4>2. CASE i < pos + 1 /\ j > pos + 1
        <5>1. /\ calltodo'[i] = calltodo[i] /\ calltodo'[j] = calltodo[j - 1]
              /\ i \in 1..N /\ j - 1 \in 1..N /\ i < j - 1
          BY <1>2, <1>4, <4>2
        <5>2. calltodo[i] = calltodo[j - 1]
          BY <5>1
        <5>3. i = j - 1
          BY <3>1, <5>1, <5>2
        <5>4. i \in Int /\ j \in Int /\ i < j
          BY <1>2
        <5> QED BY <5>1, <5>3, <5>4
      <4>3. CASE i > pos + 1
        <5>1. /\ calltodo'[i] = calltodo[i - 1] /\ calltodo'[j] = calltodo[j - 1]
              /\ i - 1 \in 1..N /\ j - 1 \in 1..N /\ i - 1 < j - 1
          BY <1>2, <1>4, <4>3
        <5>2. calltodo[i - 1] = calltodo[j - 1]
          BY <5>1
        <5>3. i - 1 = j - 1
          BY <3>1, <5>1, <5>2
        <5>4. i \in Int /\ j \in Int /\ i < j
          BY <1>2
        <5> QED BY <5>1, <5>3, <5>4
      <4> QED BY <1>2, <3>3, <4>1, <4>2, <4>3
    <3> QED BY <3>2, <3>3
  <2> QED BY <1>1, <1>4, <1>5, <2>1 DEF IInv, SlotsPartitioned
<1>8. \A i, j \in 1..N : i < j => left[calltodo[i]] <= left[calltodo[j]]
  BY DEF IInv, SortedByDue, N
<1>9. \A i \in 1..N : c_time[calltodo[i]] =
          left[calltodo[i]] - (IF i = 1 THEN 0 ELSE Pos(left[calltodo[i - 1]]))
  BY DEF IInv, DeltaEncoding, N
<1>10. ticks = left[new] - prev /\ prev \in Int
  BY <1>1, <1>2, <1>3 DEF IInv, WalkSoFar, Pos
<1>11. pos < N => c_time[t] = left[t] - prev /\ left[new] <= left[t]
  BY <1>1, <1>2, <1>3, <1>9, <1>10
<1>12. \A i \in 1..N : i <= pos => left[calltodo[i]] < left[new]
  <2>1. pos > 0 => left[calltodo[pos]] < left[new]
    BY <1>1 DEF IInv, WalkSoFar
  <2> QED BY <1>2, <1>3, <1>8, <2>1
<1>13. \A i \in 1..N : i > pos => left[new] <= left[calltodo[i]]
  BY <1>2, <1>3, <1>8, <1>11
<1>14. SortedByDue'
  <2> SUFFICES ASSUME NEW i \in 1..(N + 1), NEW j \in 1..(N + 1), i < j
               PROVE  left[calltodo'[i]] <= left[calltodo'[j]]
    BY <1>1, <1>4 DEF SortedByDue
  <2>1. CASE i < pos + 1
    <3>1. calltodo'[i] = calltodo[i] /\ i \in 1..N
      BY <1>2, <1>4, <2>1
    <3>2. CASE j < pos + 1
      BY <1>2, <1>4, <1>8, <3>1, <3>2
    <3>3. CASE j = pos + 1
      BY <1>2, <1>3, <1>4, <1>12, <2>1, <3>1, <3>3
    <3>4. CASE j > pos + 1
      <4>1. calltodo'[j] = calltodo[j - 1] /\ j - 1 \in 1..N /\ i < j - 1
        BY <1>2, <1>4, <2>1, <3>4
      <4> QED BY <1>8, <3>1, <4>1
    <3> QED BY <1>2, <3>2, <3>3, <3>4
  <2>2. CASE i = pos + 1
    BY <1>2, <1>3, <1>4, <1>13, <2>2
  <2>3. CASE i > pos + 1
    BY <1>2, <1>3, <1>4, <1>8, <2>3
  <2> QED BY <1>2, <2>1, <2>2, <2>3
<1>15. \A i, j \in 1..N : calltodo[i] = calltodo[j] => i = j
  BY DEF IInv, SlotsPartitioned, N
<1>16. DeltaEncoding'
  <2> SUFFICES ASSUME NEW k \in 1..(N + 1)
               PROVE  c_time'[calltodo'[k]] =
                        left[calltodo'[k]] - (IF k = 1 THEN 0 ELSE Pos(left[calltodo'[k - 1]]))
    BY <1>1, <1>4 DEF DeltaEncoding
  <2>1. CASE k < pos + 1
    <3>1. calltodo'[k] = calltodo[k] /\ (k # 1 => calltodo'[k - 1] = calltodo[k - 1])
      BY <1>2, <1>4, <2>1
    <3>2. c_time'[calltodo[k]] = c_time[calltodo[k]]
      BY <1>1, <1>2, <1>3, <1>15, <2>1
    <3> QED BY <1>2, <1>9, <2>1, <3>1, <3>2
  <2>2. CASE k = pos + 1
    <3>1. calltodo'[k] = new /\ (k # 1 => calltodo'[k - 1] = calltodo[k - 1])
      BY <1>2, <1>4, <2>2
    <3>2. c_time'[new] = ticks
      BY <1>1, <1>2
    <3> QED BY <1>2, <1>10, <2>2, <3>1, <3>2
  <2>3. CASE k = pos + 2
    <3>1. calltodo'[k] = t /\ k # 1 /\ calltodo'[k - 1] = new /\ pos < N
      BY <1>2, <1>4, <2>3
    <3>2. c_time'[t] = c_time[t] - ticks /\ left[t] \in Int
      BY <1>1, <1>2, <1>3, <3>1
    <3>3. Pos(left[new]) = left[new]
      BY <1>2 DEF Pos
    <3>4. c_time[t] - ticks = left[t] - left[new]
      BY <1>2, <1>10, <1>11, <3>1, <3>2
    <3> QED BY <3>1, <3>2, <3>3, <3>4
  <2>4. CASE k > pos + 2
    <3>1. /\ k - 1 \in 1..N /\ k - 1 # 1 /\ k # 1
          /\ calltodo'[k] = calltodo[k - 1] /\ calltodo'[k - 1] = calltodo[(k - 1) - 1]
      BY <1>2, <1>4, <2>4
    <3>2. c_time'[calltodo[k - 1]] = c_time[calltodo[k - 1]]
      BY <1>1, <1>2, <1>3, <1>15, <2>4, <3>1
    <3> QED BY <1>9, <3>1, <3>2
  <2> QED BY <1>2, <2>1, <2>2, <2>3, <2>4
<1>17. DueIsRequested'
  <2>1. (\E i \in 1..N : left[calltodo[i]] <= 0) => (sc # "idle" \/ netisr)
    BY DEF IInv, DueIsRequested, N
  <2>2. ASSUME NEW k \in 1..(N + 1), left[calltodo'[k]] <= 0
        PROVE  \E i \in 1..N : left[calltodo[i]] <= 0
    <3>1. CASE k < pos + 1
      BY <1>2, <1>4, <2>2, <3>1
    <3>2. CASE k = pos + 1
      BY <1>2, <1>4, <2>2, <3>2
    <3>3. CASE k > pos + 1
      <4>1. calltodo'[k] = calltodo[k - 1] /\ k - 1 \in 1..N
        BY <1>2, <1>4, <3>3
      <4> QED BY <2>2, <4>1
    <3> QED BY <1>2, <3>1, <3>2, <3>3
  <2> QED BY <1>1, <1>4, <2>1, <2>2 DEF DueIsRequested
<1>18. PanicOnlyWhenFull' /\ WalkSoFar' /\ CallsAreTimers'
  BY <1>1, <1>2 DEF IInv, PanicOnlyWhenFull, WalkSoFar, CallsAreTimers
<1> QED BY <1>5, <1>6, <1>7, <1>14, <1>16, <1>17, <1>18 DEF IInv

\* Unlinking any entry and giving its positive delta to the next keeps the
\* slots, the order and the encoding: shared by untimeout and softclock.
LEMMA RemovalKeepsQueue ==
  ASSUME IInv, NEW i \in 1..Len(calltodo),
         cpu = "run", cpu' = "run", left' = left,
         calltodo' \in Seq(Slots),
         Len(calltodo') = Len(calltodo) - 1,
         \A k \in 1..(Len(calltodo) - 1) :
            calltodo'[k] = IF k < i THEN calltodo[k] ELSE calltodo[k + 1],
         callfree' = callfree \cup {calltodo[i]},
         c_time' = [s \in Slots |->
                      IF i < Len(calltodo) /\ s = calltodo[i + 1]
                      THEN c_time[s] + Pos(c_time[calltodo[i]])
                      ELSE c_time[s]]
  PROVE  /\ InQueue' = InQueue \ {calltodo[i]}
         /\ c_time' \in [Slots -> Int] /\ callfree' \in SUBSET Slots
         /\ SlotsPartitioned' /\ SortedByDue' /\ DeltaEncoding'
<1> DEFINE N == Len(calltodo)
<1>1. /\ N \in Nat /\ i \in 1..N
      /\ \A k \in 1..N : /\ calltodo[k] \in Slots /\ calltodo[k] \in InQueue
                         /\ left[calltodo[k]] \in Int /\ c_time[calltodo[k]] \in Int
  BY QueueIndex
<1>2. Len(calltodo') = N - 1
      /\ \A k \in 1..(N - 1) : calltodo'[k] = IF k < i THEN calltodo[k] ELSE calltodo[k + 1]
  OBVIOUS
<1>3. \A j, k \in 1..N : calltodo[j] = calltodo[k] => j = k
  BY DEF IInv, SlotsPartitioned
<1>4. \A j, k \in 1..N : j < k => left[calltodo[j]] <= left[calltodo[k]]
  BY DEF IInv, SortedByDue
<1>5. \A k \in 1..N : c_time[calltodo[k]] =
          left[calltodo[k]] - (IF k = 1 THEN 0 ELSE Pos(left[calltodo[k - 1]]))
  BY DEF IInv, DeltaEncoding
<1>6. InQueue = {calltodo[k] : k \in 1..N} /\ InQueue' = {calltodo'[k] : k \in 1..(N - 1)}
  BY <1>2 DEF InQueue
<1>7. c_time' = [s \in Slots |-> IF i < N /\ s = calltodo[i + 1]
                                 THEN c_time[s] + Pos(c_time[calltodo[i]]) ELSE c_time[s]]
  OBVIOUS
<1>8. c_time' \in [Slots -> Int]
  <2>1. c_time \in [Slots -> Int] /\ Pos(c_time[calltodo[i]]) \in Int
    BY <1>1 DEF IInv, TypeOK, Pos
  <2> QED BY <1>7, <2>1
<1> HIDE DEF N
<1>9. InQueue' = InQueue \ {calltodo[i]}
  <2>1. ASSUME NEW k \in 1..N, k # i
        PROVE  \E j \in 1..(N - 1) : calltodo'[j] = calltodo[k]
    <3>1. CASE k < i
      BY <1>1, <1>2, <3>1
    <3>2. CASE k > i
      <4>1. k - 1 \in 1..(N - 1) /\ calltodo'[k - 1] = calltodo[k]
        BY <1>1, <1>2, <3>2
      <4> QED BY <4>1
    <3> QED BY <1>1, <2>1, <3>1, <3>2
  <2>2. \A j \in 1..(N - 1) : \E k \in 1..N : k # i /\ calltodo'[j] = calltodo[k]
    <3> SUFFICES ASSUME NEW j \in 1..(N - 1)
                 PROVE  \E k \in 1..N : k # i /\ calltodo'[j] = calltodo[k]
      OBVIOUS
    <3>1. CASE j < i
      BY <1>1, <1>2, <3>1
    <3>2. CASE j >= i
      <4>1. j + 1 \in 1..N /\ j + 1 # i /\ calltodo'[j] = calltodo[j + 1]
        BY <1>1, <1>2, <3>2
      <4> QED BY <4>1
    <3> QED BY <1>1, <3>1, <3>2
  <2>3. \A x \in InQueue' : x \in InQueue /\ x # calltodo[i]
    BY <1>1, <1>3, <1>6, <2>2
  <2>4. \A x \in InQueue : x # calltodo[i] => x \in InQueue'
    BY <1>6, <2>1
  <2> QED BY <2>3, <2>4
<1>10. SlotsPartitioned'
  <2>1. \A j, k \in 1..(N - 1) : calltodo'[j] = calltodo'[k] => j = k
    <3> SUFFICES ASSUME NEW j \in 1..(N - 1), NEW k \in 1..(N - 1), calltodo'[j] = calltodo'[k], j < k
                 PROVE  FALSE
      BY <1>1
    <3> QED BY <1>1, <1>2, <1>3
  <2> QED BY <1>1, <1>2, <1>9, <2>1 DEF IInv, SlotsPartitioned
<1>11. SortedByDue'
  <2> SUFFICES ASSUME NEW j \in 1..(N - 1), NEW k \in 1..(N - 1), j < k
               PROVE  left[calltodo'[j]] <= left[calltodo'[k]]
    BY <1>2 DEF SortedByDue
  <2>1. CASE k < i
    BY <1>1, <1>2, <1>4, <2>1
  <2>2. CASE j < i /\ k >= i
    <3>1. j \in 1..N /\ k + 1 \in 1..N /\ j < k + 1
      BY <1>1, <2>2
    <3>2. calltodo'[j] = calltodo[j] /\ calltodo'[k] = calltodo[k + 1]
      BY <1>1, <1>2, <2>2
    <3> QED BY <1>4, <3>1, <3>2
  <2>3. CASE j >= i
    <3>1. j + 1 \in 1..N /\ k + 1 \in 1..N /\ j + 1 < k + 1
      BY <1>1, <2>3
    <3>2. calltodo'[j] = calltodo[j + 1] /\ calltodo'[k] = calltodo[k + 1]
      BY <1>1, <1>2, <2>3
    <3> QED BY <1>4, <3>1, <3>2
  <2> QED BY <1>1, <2>1, <2>2, <2>3
<1>12. DeltaEncoding'
  <2> SUFFICES ASSUME NEW k \in 1..(N - 1)
               PROVE  c_time'[calltodo'[k]] =
                        left[calltodo'[k]] - (IF k = 1 THEN 0 ELSE Pos(left[calltodo'[k - 1]]))
    BY <1>2 DEF DeltaEncoding
  <2>1. CASE k < i
    <3>1. calltodo'[k] = calltodo[k] /\ (k # 1 => calltodo'[k - 1] = calltodo[k - 1])
      BY <1>1, <1>2, <2>1
    <3>2. c_time'[calltodo[k]] = c_time[calltodo[k]]
      BY <1>1, <1>3, <1>7, <2>1
    <3> QED BY <1>1, <1>5, <3>1, <3>2
  <2>2. CASE k = i
    <3> DEFINE x == calltodo[i]
               y == calltodo[i + 1]
               before == IF i = 1 THEN 0 ELSE Pos(left[calltodo[i - 1]])
    <3>1. /\ i + 1 \in 1..N /\ i < N /\ calltodo'[k] = y
          /\ k # 1 => calltodo'[k - 1] = calltodo[i - 1]
      BY <1>1, <1>2, <2>2
    <3>2. c_time'[y] = c_time[y] + Pos(c_time[x])
      BY <1>1, <1>7, <3>1
    <3>3. c_time[y] = left[y] - Pos(left[x]) /\ left[x] \in Int /\ left[y] \in Int
      <4>1. i + 1 # 1 /\ (i + 1) - 1 = i
        BY <1>1
      <4> QED BY <1>1, <1>5, <3>1, <4>1
    <3>4. c_time[x] = left[x] - before /\ before \in Nat
      BY <1>1, <1>5 DEF Pos
    <3>5. before = 0 \/ (before > 0 /\ before <= left[x])
      BY <1>1, <1>4, <3>4 DEF Pos
    <3>6. c_time[y] + Pos(c_time[x]) = left[y] - before
      <4> HIDE DEF x, y, before
      <4>1. CASE before = 0
        BY <3>3, <3>4, <4>1 DEF Pos
      <4>2. CASE before > 0 /\ before <= left[x]
        <5>1. left[x] > 0 /\ c_time[x] \in Int /\ c_time[x] >= 0
          BY <3>3, <3>4, <4>2
        <5>2. Pos(left[x]) = left[x] /\ Pos(c_time[x]) = c_time[x]
          BY <5>1 DEF Pos
        <5> QED BY <3>3, <3>4, <5>2
      <4> QED BY <3>5, <4>1, <4>2
    <3> QED BY <2>2, <3>1, <3>2, <3>6
  <2>3. CASE k > i
    <3>1. /\ k + 1 \in 1..N /\ k + 1 # 1 /\ k # 1 /\ (k + 1) - 1 = k
          /\ calltodo'[k] = calltodo[k + 1] /\ calltodo'[k - 1] = calltodo[k]
      BY <1>1, <1>2, <2>3
    <3>2. c_time'[calltodo[k + 1]] = c_time[calltodo[k + 1]]
      BY <1>1, <1>3, <1>7, <2>3, <3>1
    <3> QED BY <1>5, <3>1, <3>2
  <2> QED BY <1>1, <2>1, <2>2, <2>3
<1>13. callfree' \in SUBSET Slots
  BY <1>1 DEF IInv, TypeOK
<1> QED BY <1>8, <1>9, <1>10, <1>11, <1>12, <1>13

\* untimeout keeps IInv and removes the first entry that matches.
LEMMA UntimeoutInv ==
  ASSUME IInv, NEW f \in Timers, Untimeout(f)
  PROVE  /\ IInv'
         /\ \E i \in 1..Len(calltodo) :
              /\ FirstMatch(i, f)
              /\ InQueue' = InQueue \ {calltodo[i]}
<1>1. PICK i \in 1..Len(calltodo) :
         /\ FirstMatch(i, f)
         /\ c_time' = [s \in Slots |->
                         IF i < Len(calltodo) /\ s = calltodo[i + 1]
                         THEN c_time[s] + Pos(c_time[calltodo[i]])
                         ELSE c_time[s]]
         /\ calltodo' = RemoveAt(calltodo, i)
         /\ callfree' = callfree \cup {calltodo[i]}
  BY DEF Untimeout
<1>2. /\ UNCHANGED <<c_tmr, left, cpu, new, pos, ticks, sc, clkmask, netisr, calling, panicked>>
      /\ cpu = "run" /\ sc # "top" /\ ~panicked
  BY DEF Untimeout, Running, locals, soft
<1>3. /\ calltodo' \in Seq(Slots)
      /\ Len(calltodo') = Len(calltodo) - 1
      /\ \A k \in 1..(Len(calltodo) - 1) :
            calltodo'[k] = IF k < i THEN calltodo[k] ELSE calltodo[k + 1]
  BY <1>1, RemoveAtProps DEF IInv, TypeOK
<1>4. /\ InQueue' = InQueue \ {calltodo[i]}
      /\ c_time' \in [Slots -> Int] /\ callfree' \in SUBSET Slots
      /\ SlotsPartitioned' /\ SortedByDue' /\ DeltaEncoding'
  BY <1>1, <1>2, <1>3, RemovalKeepsQueue
<1>5. TypeOK'
  BY <1>2, <1>3, <1>4 DEF IInv, TypeOK
<1>6. DueIsRequested'
  BY <1>2, <1>4 DEF IInv, DueIsRequested, InQueue
<1>7. PanicOnlyWhenFull' /\ WalkSoFar' /\ CallsAreTimers'
  BY <1>1, <1>2 DEF IInv, PanicOnlyWhenFull, WalkSoFar, CallsAreTimers
<1> QED BY <1>1, <1>4, <1>5, <1>6, <1>7 DEF IInv

\* softclock's pop of the head keeps IInv: a due head has no positive delta
\* to hand on.
LEMMA SoftclockCallInv ==
  ASSUME IInv, SoftclockCall
  PROVE  IInv' /\ InQueue' = InQueue \ {calltodo[1]}
<1>1. /\ sc = "top" /\ calltodo # <<>> /\ c_time[calltodo[1]] <= 0
      /\ sc' = "call" /\ calling' = c_tmr[calltodo[1]]
      /\ callfree' = callfree \cup {calltodo[1]}
      /\ calltodo' = Tail(calltodo)
      /\ UNCHANGED <<c_time, c_tmr, left, cpu, new, pos, ticks, clkmask, netisr, panicked>>
  BY DEF SoftclockCall, HeadIsDue, locals
<1>2. 1 \in 1..Len(calltodo) /\ calltodo[1] \in Slots /\ calltodo[1] \in InQueue
  <2>1. Len(calltodo) \in Nat /\ Len(calltodo) # 0
    BY <1>1 DEF IInv, TypeOK
  <2> QED BY <2>1, QueueIndex
<1>3. cpu = "run" /\ cpu' = "run" /\ ~panicked
  BY <1>1 DEF IInv, TypeOK, WalkSoFar, PanicOnlyWhenFull
<1>4. /\ calltodo' \in Seq(Slots)
      /\ Len(calltodo') = Len(calltodo) - 1
      /\ \A k \in 1..(Len(calltodo) - 1) :
            calltodo'[k] = IF k < 1 THEN calltodo[k] ELSE calltodo[k + 1]
  BY <1>1, HeadTailProperties DEF IInv, TypeOK
<1>5. c_time' = [s \in Slots |->
                   IF 1 < Len(calltodo) /\ s = calltodo[1 + 1]
                   THEN c_time[s] + Pos(c_time[calltodo[1]])
                   ELSE c_time[s]]
  <2>1. Pos(c_time[calltodo[1]]) = 0 /\ \A s \in Slots : c_time[s] \in Int
    BY <1>1, <1>2 DEF IInv, TypeOK, Pos
  <2> QED BY <1>1, <2>1 DEF IInv, TypeOK
<1>6. /\ InQueue' = InQueue \ {calltodo[1]}
      /\ c_time' \in [Slots -> Int] /\ callfree' \in SUBSET Slots
      /\ SlotsPartitioned' /\ SortedByDue' /\ DeltaEncoding'
  <2> DEFINE i == 1
  <2>1. /\ i \in 1..Len(calltodo)
        /\ \A k \in 1..(Len(calltodo) - 1) :
             calltodo'[k] = IF k < i THEN calltodo[k] ELSE calltodo[k + 1]
        /\ c_time' = [s \in Slots |->
                        IF i < Len(calltodo) /\ s = calltodo[i + 1]
                        THEN c_time[s] + Pos(c_time[calltodo[i]])
                        ELSE c_time[s]]
        /\ callfree' = callfree \cup {calltodo[i]}
    BY <1>1, <1>2, <1>4, <1>5
  <2> HIDE DEF i
  <2>2. /\ InQueue' = InQueue \ {calltodo[i]}
        /\ c_time' \in [Slots -> Int] /\ callfree' \in SUBSET Slots
        /\ SlotsPartitioned' /\ SortedByDue' /\ DeltaEncoding'
    BY <1>1, <1>3, <1>4, <2>1, RemovalKeepsQueue
  <2> QED BY <2>2 DEF i
<1>7. c_tmr[calltodo[1]] \in Timers
  BY <1>2 DEF IInv, CallsAreTimers, SlotsPartitioned
<1>8. TypeOK'
  BY <1>1, <1>4, <1>6, <1>7 DEF IInv, TypeOK
<1>9. DueIsRequested' /\ PanicOnlyWhenFull' /\ WalkSoFar'
  BY <1>1, <1>3 DEF DueIsRequested, PanicOnlyWhenFull, WalkSoFar
<1>10. CallsAreTimers'
  BY <1>1, <1>7, CalloutConstants DEF IInv, CallsAreTimers
<1> QED BY <1>6, <1>8, <1>9, <1>10 DEF IInv

\* If no entry up to i has a positive c_time, entry i is due: the first entry
\* that is not due has its whole remaining time as its c_time.
LEMMA AllDueBefore ==
  ASSUME IInv, NEW i \in 1..Len(calltodo),
         \A j \in 1..i : c_time[calltodo[j]] <= 0
  PROVE  left[calltodo[i]] <= 0
<1> DEFINE T == {k \in 1..i : left[calltodo[k]] > 0}
<1>1. Len(calltodo) \in Nat /\ \A k \in 1..Len(calltodo) : left[calltodo[k]] \in Int
  BY QueueIndex
<1>2. SUFFICES ASSUME left[calltodo[i]] > 0 PROVE FALSE
  BY <1>1
<1>3. i \in T /\ T \subseteq Nat
  BY <1>1, <1>2
<1>4. PICK x \in T : \A y \in T : x <= y
  BY <1>3, LeastIndex
<1>5. x \in 1..i /\ left[calltodo[x]] > 0 /\ (x > 1 => left[calltodo[x - 1]] <= 0)
  BY <1>1, <1>4
<1>6. c_time[calltodo[x]] = left[calltodo[x]]
  <2>1. c_time[calltodo[x]] = left[calltodo[x]] - (IF x = 1 THEN 0 ELSE Pos(left[calltodo[x - 1]]))
    BY <1>1, <1>5 DEF IInv, DeltaEncoding
  <2> QED BY <1>1, <1>5, <2>1 DEF Pos
<1> QED BY <1>1, <1>5, <1>6

\* A tick keeps IInv: the prefix that hardclock decrements is exactly the
\* entries that are due and the first that is not, and if the tick makes an
\* entry due softclock is requested or called.
LEMMA HardclockInv ==
  ASSUME IInv, NEW base \in BOOLEAN, Hardclock(base)
  PROVE  IInv'
<1> DEFINE N == Len(calltodo)
<1>1. /\ UNCHANGED <<calltodo, callfree, c_tmr, cpu, new, pos, ticks, calling, panicked>>
      /\ cpu = "run" /\ sc # "top" /\ ~panicked
      /\ c_time' = [s \in Slots |-> IF s \in Decremented THEN c_time[s] - 1 ELSE c_time[s]]
      /\ left' = [s \in Slots |-> IF s \in InQueue THEN left[s] - 1 ELSE left[s]]
  BY DEF Hardclock, Running, locals
<1>2. /\ base => sc = "idle"
      /\ IF Needsoft
         THEN IF base
              THEN sc' = "top" /\ clkmask' = TRUE /\ netisr' = netisr
              ELSE netisr' = TRUE /\ sc' = sc /\ clkmask' = clkmask
         ELSE sc' = sc /\ clkmask' = clkmask /\ netisr' = netisr
  BY DEF Hardclock
<1>3. /\ N \in Nat
      /\ \A k \in 1..N : /\ calltodo[k] \in Slots /\ calltodo[k] \in InQueue
                         /\ left[calltodo[k]] \in Int /\ c_time[calltodo[k]] \in Int
  BY QueueIndex
<1>4. InQueue' = InQueue
  BY <1>1 DEF InQueue
<1>5. TypeOK'
  <2>1. c_time' \in [Slots -> Int] /\ left' \in [Slots -> Int]
    BY <1>1 DEF IInv, TypeOK
  <2>2. sc' \in {"idle", "top", "call"} /\ clkmask' \in BOOLEAN /\ netisr' \in BOOLEAN
    BY <1>2 DEF IInv, TypeOK
  <2> QED BY <1>1, <2>1, <2>2 DEF IInv, TypeOK
<1>6. SlotsPartitioned'
  BY <1>1, <1>4 DEF IInv, SlotsPartitioned
<1>7. \A k \in 1..N : left'[calltodo[k]] = left[calltodo[k]] - 1
  BY <1>1, <1>3
<1>8. \A j, k \in 1..N : j < k => left[calltodo[j]] <= left[calltodo[k]]
  BY DEF IInv, SortedByDue
<1>9. SortedByDue'
  BY <1>1, <1>3, <1>7, <1>8 DEF SortedByDue
<1>10. \A k \in 1..N : c_time[calltodo[k]] =
          left[calltodo[k]] - (IF k = 1 THEN 0 ELSE Pos(left[calltodo[k - 1]]))
  BY DEF IInv, DeltaEncoding
<1>11. \A k \in 1..N : calltodo[k] \in Decremented
                        <=> \A j \in 1..(k - 1) : c_time[calltodo[j]] <= 0
  <2>1. \A j, k \in 1..N : calltodo[j] = calltodo[k] => j = k
    BY DEF IInv, SlotsPartitioned
  <2> QED BY <2>1 DEF Decremented
<1>12. DeltaEncoding'
  <2> SUFFICES ASSUME NEW k \in 1..N
               PROVE  c_time'[calltodo[k]] =
                        left'[calltodo[k]] - (IF k = 1 THEN 0 ELSE Pos(left'[calltodo[k - 1]]))
    BY <1>1 DEF DeltaEncoding
  <2>1. CASE k = 1
    <3>1. calltodo[k] \in Decremented
      BY <1>11, <2>1
    <3>2. c_time'[calltodo[k]] = c_time[calltodo[k]] - 1
      BY <1>1, <1>3, <3>1
    <3> QED BY <1>3, <1>7, <1>10, <2>1, <3>2
  <2>2. CASE k > 1 /\ calltodo[k] \in Decremented
    <3>1. k - 1 \in 1..N /\ left[calltodo[k - 1]] \in Int
      BY <1>3, <2>2
    <3>2. left[calltodo[k - 1]] <= 0
      BY <1>11, <2>2, <3>1, AllDueBefore
    <3>3. c_time'[calltodo[k]] = c_time[calltodo[k]] - 1
      BY <1>1, <1>3, <2>2
    <3>4. Pos(left[calltodo[k - 1]]) = 0 /\ Pos(left'[calltodo[k - 1]]) = 0
      BY <1>7, <3>1, <3>2 DEF Pos
    <3>5. /\ left[calltodo[k]] \in Int /\ k # 1
          /\ c_time[calltodo[k]] = left[calltodo[k]] - Pos(left[calltodo[k - 1]])
      BY <1>3, <1>10, <2>2
    <3>6. left'[calltodo[k]] = left[calltodo[k]] - 1
      BY <1>7
    <3> QED BY <3>3, <3>4, <3>5, <3>6
  <2>3. CASE k > 1 /\ calltodo[k] \notin Decremented
    <3>1. k - 1 \in 1..N /\ left[calltodo[k - 1]] \in Int
      BY <1>3, <2>3
    <3>2. PICK j \in 1..(k - 1) : ~(c_time[calltodo[j]] <= 0)
      BY <1>11, <2>3
    <3>3. j \in 1..N /\ left[calltodo[j]] > 0
      <4>1. j \in 1..N
        BY <3>1, <3>2
      <4>2. c_time[calltodo[j]] <= left[calltodo[j]]
        <5>1. CASE j = 1
          BY <1>3, <1>10, <4>1, <5>1
        <5>2. CASE j # 1
          <6>1. left[calltodo[j - 1]] \in Int /\ j - 1 \in 1..N
            BY <1>3, <4>1, <5>2
          <6>2. Pos(left[calltodo[j - 1]]) \in Nat
            BY <6>1 DEF Pos
          <6> QED BY <1>3, <1>10, <4>1, <5>2, <6>2
        <5> QED BY <5>1, <5>2
      <4> QED BY <1>3, <3>2, <4>1, <4>2
    <3>4. left[calltodo[k - 1]] > 0
      BY <1>3, <1>8, <3>1, <3>2, <3>3
    <3>5. c_time'[calltodo[k]] = c_time[calltodo[k]]
      BY <1>1, <1>3, <2>3
    <3>6. /\ Pos(left[calltodo[k - 1]]) = left[calltodo[k - 1]]
          /\ Pos(left'[calltodo[k - 1]]) = left[calltodo[k - 1]] - 1
      BY <1>7, <3>1, <3>4 DEF Pos
    <3>7. /\ left[calltodo[k]] \in Int /\ k # 1
          /\ c_time[calltodo[k]] = left[calltodo[k]] - Pos(left[calltodo[k - 1]])
      BY <1>3, <1>10, <2>3
    <3>8. left'[calltodo[k]] = left[calltodo[k]] - 1
      BY <1>7
    <3> QED BY <3>1, <3>5, <3>6, <3>7, <3>8
  <2> QED BY <1>3, <2>1, <2>2, <2>3
<1>13. DueIsRequested'
  <2> SUFFICES ASSUME NEW k \in 1..N, left'[calltodo[k]] <= 0
               PROVE  sc' # "idle" \/ netisr'
    BY <1>1 DEF DueIsRequested
  <2>1. 1 \in 1..N /\ left[calltodo[1]] - 1 <= 0
    BY <1>3, <1>7, <1>8
  <2>2. c_time[calltodo[1]] - 1 <= 0
    BY <1>3, <1>10, <2>1
  <2>3. calltodo[1] \in Decremented
    BY <1>11, <2>1
  <2>4. Needsoft
    BY <2>2, <2>3 DEF Needsoft
  <2> QED BY <1>2, <2>4
<1>14. PanicOnlyWhenFull' /\ WalkSoFar'
  BY <1>1 DEF PanicOnlyWhenFull, WalkSoFar
<1>15. CallsAreTimers'
  BY <1>1, <1>2 DEF IInv, CallsAreTimers
<1> QED BY <1>5, <1>6, <1>9, <1>12, <1>13, <1>14, <1>15 DEF IInv

\* Taking the softclock request in doreti keeps IInv.
LEMMA SoftIntrInv ==
  ASSUME IInv, SoftIntr
  PROVE  IInv'
<1> USE DEF SoftIntr, Running, queue, locals, IInv
<1>1. InQueue' = InQueue
  BY DEF InQueue
<1>2. TypeOK' /\ SlotsPartitioned' /\ CallsAreTimers'
  BY <1>1 DEF TypeOK, SlotsPartitioned, CallsAreTimers
<1>3. SortedByDue' /\ DeltaEncoding' /\ DueIsRequested' /\ PanicOnlyWhenFull' /\ WalkSoFar'
  BY DEF SortedByDue, DeltaEncoding, DueIsRequested, PanicOnlyWhenFull, WalkSoFar
<1> QED BY <1>2, <1>3

\* The return of the function softclock called keeps IInv.
LEMMA SoftclockReturnInv ==
  ASSUME IInv, SoftclockReturn
  PROVE  IInv'
<1> USE DEF SoftclockReturn, Running, queue, locals, IInv
<1>1. InQueue' = InQueue
  BY DEF InQueue
<1>2. TypeOK' /\ SlotsPartitioned' /\ CallsAreTimers'
  BY <1>1 DEF TypeOK, SlotsPartitioned, CallsAreTimers
<1>3. SortedByDue' /\ DeltaEncoding' /\ DueIsRequested' /\ PanicOnlyWhenFull' /\ WalkSoFar'
  BY DEF SortedByDue, DeltaEncoding, DueIsRequested, PanicOnlyWhenFull, WalkSoFar
<1> QED BY <1>2, <1>3

\* softclock leaves its loop only when nothing is due, so IInv is kept.
LEMMA SoftclockExitInv ==
  ASSUME IInv, SoftclockExit
  PROVE  IInv'
<1> USE DEF SoftclockExit, queue, locals
<1>1. InQueue' = InQueue
  BY DEF InQueue
<1>2. TypeOK' /\ SlotsPartitioned' /\ CallsAreTimers'
  BY <1>1 DEF IInv, TypeOK, SlotsPartitioned, CallsAreTimers
<1>3. SortedByDue' /\ DeltaEncoding' /\ PanicOnlyWhenFull' /\ WalkSoFar'
  BY <1>1 DEF IInv, SortedByDue, DeltaEncoding, PanicOnlyWhenFull, WalkSoFar
<1>4. DueIsRequested'
  <2> SUFFICES ASSUME NEW k \in 1..Len(calltodo), left[calltodo[k]] <= 0
               PROVE  FALSE
    BY DEF DueIsRequested
  <2>1. /\ Len(calltodo) \in Nat
        /\ \A i \in 1..Len(calltodo) : left[calltodo[i]] \in Int
    BY QueueIndex
  <2>2. 1 \in 1..Len(calltodo) /\ left[calltodo[1]] <= 0
    BY <2>1 DEF IInv, SortedByDue
  <2>3. c_time[calltodo[1]] = left[calltodo[1]]
    BY <2>1, <2>2 DEF IInv, DeltaEncoding
  <2>4. calltodo # <<>>
    BY <2>2
  <2> QED BY <2>2, <2>3, <2>4 DEF HeadIsDue
<1> QED BY <1>2, <1>3, <1>4 DEF IInv

\* Every step of the kernel keeps IInv.
LEMMA NextInv == IInv /\ [Next]_vars => IInv'
<1> SUFFICES ASSUME IInv, [Next]_vars PROVE IInv'
  OBVIOUS
<1>1. ASSUME NEW f \in Timers, NEW n \in 0..MaxTicks, TimeoutEnter(f, n) PROVE IInv'
  BY <1>1, TimeoutEnterInv
<1>2. CASE TimeoutPanic
  BY <1>2, TimeoutPanicInv
<1>3. CASE TimeoutWalk
  BY <1>3, TimeoutWalkInv
<1>4. CASE TimeoutInsert
  BY <1>4, TimeoutInsertInv
<1>5. ASSUME NEW f \in Timers, Untimeout(f) PROVE IInv'
  BY <1>5, UntimeoutInv
<1>6. ASSUME NEW base \in BOOLEAN, Hardclock(base) PROVE IInv'
  BY <1>6, HardclockInv
<1>7. CASE SoftIntr
  BY <1>7, SoftIntrInv
<1>8. CASE SoftclockCall
  BY <1>8, SoftclockCallInv
<1>9. CASE SoftclockReturn
  BY <1>9, SoftclockReturnInv
<1>10. CASE SoftclockExit
  BY <1>10, SoftclockExitInv
<1>11. CASE UNCHANGED vars
  <2> USE <1>11 DEF vars, queue, locals, soft, IInv
  <2>1. InQueue' = InQueue
    BY DEF InQueue
  <2>2. TypeOK' /\ SlotsPartitioned' /\ CallsAreTimers'
    BY <2>1 DEF TypeOK, SlotsPartitioned, CallsAreTimers
  <2>3. SortedByDue' /\ DeltaEncoding' /\ DueIsRequested' /\ PanicOnlyWhenFull' /\ WalkSoFar'
    BY <2>1 DEF SortedByDue, DeltaEncoding, DueIsRequested, PanicOnlyWhenFull, WalkSoFar
  <2> QED BY <2>2, <2>3
<1> QED BY <1>1, <1>2, <1>3, <1>4, <1>5, <1>6, <1>7, <1>8, <1>9, <1>10, <1>11 DEF Next

\* IInv holds in every reachable state of timeout, untimeout, hardclock and
\* softclock, whatever the interleaving of interrupts.
THEOREM CalloutInvariant == Spec => []IInv
  BY InitInv, NextInv, PTL DEF Spec

\* Type correctness of the callout table and of softclock's state.
THEOREM CalloutTypeOK == Spec => []TypeOK
<1>1. IInv => TypeOK
  BY DEF IInv
<1> QED BY <1>1, CalloutInvariant, PTL

\* No slot of callout[] is lost or used twice, so timeout panics only when
\* every slot is pending.
THEOREM CalloutSlots == Spec => [](SlotsPartitioned /\ PanicOnlyWhenFull)
<1>1. IInv => SlotsPartitioned /\ PanicOnlyWhenFull
  BY DEF IInv
<1> QED BY <1>1, CalloutInvariant, PTL

\* A due entry always has softclock running or requested.
THEOREM CalloutDue == Spec => []DueIsRequested
<1>1. IInv => DueIsRequested
  BY DEF IInv
<1> QED BY <1>1, CalloutInvariant, PTL

\* The comment of hardclock is true: c_time is a delta from the previous
\* entry, and the queue is ordered by due time.
THEOREM CalloutDelta == Spec => [](DeltaEncoding /\ SortedByDue)
<1>1. IInv => DeltaEncoding /\ SortedByDue
  BY DEF IInv
<1> QED BY <1>1, CalloutInvariant, PTL

\* The entries of the refinement mapping.
LEMMA PendingEntry ==
  \A e : e \in Pending <=> \E s \in InQueue : e = [id |-> s, what |-> c_tmr[s], left |-> left[s]]
  BY DEF Pending

\* A step that changes no queued slot changes no pending call.
LEMMA PendingKept ==
  ASSUME InQueue' = InQueue,
         \A s \in InQueue : c_tmr'[s] = c_tmr[s] /\ left'[s] = left[s]
  PROVE  Pending' = Pending
  BY DEF Pending

\* The end of timeout is the abstract Arm.
LEMMA InsertIsArm ==
  ASSUME IInv, TimeoutInsert
  PROVE  Abs!Arm
<1> DEFINE e == [id |-> new, what |-> c_tmr[new], left |-> left[new]]
<1>1. InQueue' = InQueue \cup {new}
  BY TimeoutInsertInv
<1>2. UNCHANGED <<c_tmr, left, calling>> /\ cpu = "walk"
  BY DEF TimeoutInsert, soft
<1>3. Pending' = Pending \cup {e}
  BY <1>1, <1>2 DEF Pending
<1>4. new \in Slots /\ new \notin InQueue /\ c_tmr[new] \in Timers /\ left[new] \in 1..MaxTicks
  BY <1>2 DEF IInv, TypeOK, SlotsPartitioned, CallsAreTimers, WalkSoFar
<1>5. \A o \in Pending : o.id # new
  BY <1>4 DEF Pending
<1> QED BY <1>2, <1>3, <1>4, <1>5 DEF Abs!Arm

\* untimeout is the abstract Cancel: of equal timers, one due first.
LEMMA UntimeoutIsCancel ==
  ASSUME IInv, NEW f \in Timers, Untimeout(f)
  PROVE  Abs!Cancel
<1>1. PICK i \in 1..Len(calltodo) :
              /\ FirstMatch(i, f)
              /\ InQueue' = InQueue \ {calltodo[i]}
  BY UntimeoutInv
<1>2. UNCHANGED <<c_tmr, left, calling>>
  BY DEF Untimeout, soft
<1> DEFINE t == calltodo[i]
           e == [id |-> t, what |-> c_tmr[t], left |-> left[t]]
<1>3. t \in InQueue
  BY QueueIndex
<1>4. Pending' = Pending \ {e} /\ e \in Pending
  BY <1>1, <1>2, <1>3 DEF Pending
<1>5. \A o \in Pending : o.what = e.what => e.left <= o.left
  <2> SUFFICES ASSUME NEW k \in 1..Len(calltodo), c_tmr[calltodo[k]] = f
               PROVE  left[t] <= left[calltodo[k]]
    BY <1>1 DEF Pending, InQueue, FirstMatch
  <2>1. Len(calltodo) \in Nat /\ left[t] \in Int
    BY QueueIndex
  <2>2. k = i \/ i < k
    BY <1>1, <2>1 DEF FirstMatch
  <2> QED BY <2>1, <2>2 DEF IInv, SortedByDue
<1> QED BY <1>2, <1>4, <1>5 DEF Abs!Cancel

\* A tick of hardclock brings every pending call one tick nearer, although it
\* touches only a prefix of the queue.
LEMMA HardclockIsTick ==
  ASSUME IInv, NEW base \in BOOLEAN, Hardclock(base)
  PROVE  Abs!Tick
<1>1. /\ UNCHANGED <<calltodo, c_tmr, calling>>
      /\ left' = [s \in Slots |-> IF s \in InQueue THEN left[s] - 1 ELSE left[s]]
  BY DEF Hardclock
<1>2. InQueue' = InQueue /\ InQueue \subseteq Slots
  BY <1>1 DEF InQueue, IInv, TypeOK
<1>3. \A s \in InQueue : left'[s] = left[s] - 1
  BY <1>1, <1>2
<1> DEFINE T == {[id |-> e.id, what |-> e.what, left |-> e.left - 1] : e \in Pending}
<1>4. ASSUME NEW x \in Pending' PROVE x \in T
  <2>1. PICK s \in InQueue : x = [id |-> s, what |-> c_tmr[s], left |-> left[s] - 1]
    BY <1>1, <1>2, <1>3, <1>4 DEF Pending
  <2> DEFINE e == [id |-> s, what |-> c_tmr[s], left |-> left[s]]
  <2>2. e \in Pending /\ x = [id |-> e.id, what |-> e.what, left |-> e.left - 1]
    BY <2>1, PendingEntry
  <2> QED BY <2>2
<1>5. ASSUME NEW x \in T PROVE x \in Pending'
  <2>1. PICK e \in Pending : x = [id |-> e.id, what |-> e.what, left |-> e.left - 1]
    BY <1>5
  <2>2. PICK s \in InQueue : e = [id |-> s, what |-> c_tmr[s], left |-> left[s]]
    BY PendingEntry
  <2>3. x = [id |-> s, what |-> c_tmr'[s], left |-> left'[s]] /\ s \in InQueue'
    BY <1>1, <1>2, <1>3, <2>1, <2>2
  <2> QED BY <2>3 DEF Pending
<1>6. Pending' = T
  BY <1>4, <1>5
<1> QED BY <1>1, <1>6 DEF Abs!Tick

\* softclock's call is the abstract Fire: due, and most overdue.
LEMMA CallIsFire ==
  ASSUME IInv, SoftclockCall
  PROVE  Abs!Fire
<1>1. InQueue' = InQueue \ {calltodo[1]}
  BY SoftclockCallInv
<1>2. /\ UNCHANGED <<c_tmr, left>> /\ calling' = c_tmr[calltodo[1]]
      /\ sc = "top" /\ calltodo # <<>> /\ c_time[calltodo[1]] <= 0
  BY DEF SoftclockCall, HeadIsDue
<1> DEFINE t == calltodo[1]
           e == [id |-> t, what |-> c_tmr[t], left |-> left[t]]
<1>3. 1 \in 1..Len(calltodo) /\ Len(calltodo) \in Nat
  BY <1>2 DEF IInv, TypeOK
<1>4. t \in InQueue /\ left[t] \in Int
  BY <1>3, QueueIndex
<1>5. Pending' = Pending \ {e} /\ e \in Pending
  BY <1>1, <1>2, <1>4 DEF Pending
<1>6. e.left <= 0
  BY <1>2, <1>3, <1>4 DEF IInv, DeltaEncoding
<1>7. \A o \in Pending : e.left <= o.left
  <2> SUFFICES ASSUME NEW k \in 1..Len(calltodo)
               PROVE  left[t] <= left[calltodo[k]]
    BY DEF Pending, InQueue
  <2>1. k = 1 \/ 1 < k
    BY <1>3
  <2> QED BY <1>3, <1>4, <2>1 DEF IInv, SortedByDue
<1>8. calling = Idle
  BY <1>2 DEF IInv, CallsAreTimers
<1> QED BY <1>2, <1>5, <1>6, <1>7, <1>8 DEF Abs!Fire

\* Every step is a step of the abstract specification or a stutter.
LEMMA StepRefines == IInv /\ [Next]_vars => [Abs!Next]_<<Pending, calling>>
<1> SUFFICES ASSUME IInv, [Next]_vars
             PROVE  Abs!Next \/ UNCHANGED <<Pending, calling>>
  OBVIOUS
<1>1. ASSUME NEW f \in Timers, NEW n \in 0..MaxTicks, TimeoutEnter(f, n)
      PROVE  UNCHANGED <<Pending, calling>>
  <2>1. PICK s \in callfree : /\ c_tmr' = [c_tmr EXCEPT ![s] = f]
                              /\ left' = [left EXCEPT ![s] = ticks']
    BY <1>1 DEF TimeoutEnter
  <2>2. s \notin InQueue /\ InQueue' = InQueue /\ calling' = calling /\ InQueue \subseteq Slots
    BY <1>1 DEF TimeoutEnter, soft, InQueue, IInv, TypeOK, SlotsPartitioned
  <2>3. \A u \in InQueue : c_tmr'[u] = c_tmr[u] /\ left'[u] = left[u]
    BY <2>1, <2>2 DEF IInv, TypeOK
  <2> QED BY <2>2, <2>3, PendingKept
<1>2. ASSUME NEW f \in Timers, Untimeout(f) PROVE Abs!Next
  BY <1>2, UntimeoutIsCancel DEF Abs!Next
<1>3. ASSUME NEW base \in BOOLEAN, Hardclock(base) PROVE Abs!Next
  BY <1>3, HardclockIsTick DEF Abs!Next
<1>4. CASE TimeoutInsert
  BY <1>4, InsertIsArm DEF Abs!Next
<1>5. CASE SoftclockCall
  BY <1>5, CallIsFire DEF Abs!Next
<1>6. CASE SoftclockReturn
  <2>1. Pending' = Pending
    BY <1>6 DEF SoftclockReturn, queue, Pending, InQueue
  <2>2. calling # Idle /\ calling' = Idle
    BY <1>6 DEF SoftclockReturn, IInv, CallsAreTimers
  <2> QED BY <2>1, <2>2 DEF Abs!Next, Abs!Done
<1>7. CASE TimeoutPanic \/ TimeoutWalk \/ SoftIntr \/ SoftclockExit \/ UNCHANGED vars
  BY <1>7 DEF TimeoutPanic, TimeoutWalk, SoftIntr, SoftclockExit, vars, queue, soft,
              Pending, InQueue
<1> QED BY <1>1, <1>2, <1>3, <1>4, <1>5, <1>6, <1>7 DEF Next

\* The callout queue implements timeout(9) as CalloutAbs states it: no call
\* is early, none is made after a cancel, the most overdue call is first.
THEOREM CalloutRefinement == Spec => ImplementsAbs
<1>1. Init => Abs!Init
  BY DEF Init, Abs!Init, Pending, InQueue
<1> QED BY <1>1, CalloutInvariant, StepRefines, PTL DEF Spec, ImplementsAbs, Abs!Spec, Abs!vars
=============================================================================
