------------------------------- MODULE Callout -------------------------------
(***************************************************************************)
(* The callout queue of kern/kern_clock.c: timeout, untimeout, the queue   *)
(* part of hardclock, and softclock.                                       *)
(*                                                                         *)
(* One CPU.  Code at splhigh is never interrupted, so untimeout, the queue *)
(* part of hardclock and one turn of softclock's loop are single actions;  *)
(* timeout, also at splhigh, is split at its walk of the queue (cpu =      *)
(* "walk"), during which nothing else runs.  A function called by          *)
(* softclock runs at softclock's own level: the hardware clock and other   *)
(* interrupt handlers interleave with it, a second softclock does not.     *)
(* The variable left is a history variable: ticks to the promised time.    *)
(***************************************************************************)
EXTENDS Integers, Sequences, FiniteSets, SequencesExt

CONSTANTS Slots,     \* the entries of the callout[] table
          Timers,    \* (function, argument) pairs
          Idle,      \* not a timer: softclock is calling nothing
          MaxTicks,  \* bound: largest ticks argument of timeout
          MaxLate    \* bound: ticks the clock runs ahead of softclock

ASSUME CalloutConstants == /\ IsFiniteSet(Slots)
                           /\ Idle \notin Timers
                           /\ MaxTicks \in Nat \ {0}
                           /\ MaxLate \in Nat \ {0}

VARIABLES
  calltodo,   \* the queue: slots linked by c_next from calltodo.c_next
  callfree,   \* the slots of the free list
  c_time,     \* c_time of each slot: a delta from the previous entry
  c_tmr,      \* c_func and c_arg of each slot
  cpu,        \* "run", or "walk" inside timeout's loop
  new, pos, ticks, \* timeout's locals: the slot, entries passed, ticks left
  sc,         \* softclock: "idle", "top" of its loop, or in a "call"
  clkmask,    \* softclock was called by hardclock, clock still masked
  netisr,     \* NETISR_SCLK is set in netisr: softclock is requested
  calling,    \* the function softclock is calling
  left,       \* history: ticks until the call is due (<= 0: due)
  panicked    \* panic("timeout table full")

queue   == <<calltodo, callfree, c_time, c_tmr, left>>
locals  == <<cpu, new, pos, ticks>>
soft    == <<sc, clkmask, netisr, calling>>
vars    == <<queue, locals, soft, panicked>>

Pos(n)    == IF n > 0 THEN n ELSE 0
InQueue   == {calltodo[i] : i \in 1..Len(calltodo)}

\* Anything but the masked parts of the kernel may run.
Running == cpu = "run" /\ sc # "top" /\ ~panicked

Init == /\ calltodo = <<>>
        /\ callfree = Slots
        /\ c_time = [s \in Slots |-> 0]
        /\ c_tmr \in [Slots -> {Idle}]
        /\ cpu = "run" /\ new \in Slots /\ pos = 0 /\ ticks = 0
        /\ sc = "idle" /\ clkmask = FALSE /\ netisr = FALSE /\ calling = Idle
        /\ left = [s \in Slots |-> 0]
        /\ panicked = FALSE

-----------------------------------------------------------------------------
(* timeout(ftn, arg, ticks) *)

TimeoutEnter(f, n) ==
  /\ Running
  /\ callfree # {}
  /\ \E s \in callfree :
       /\ new' = s
       /\ callfree' = callfree \ {s}
       /\ c_tmr' = [c_tmr EXCEPT ![s] = f]
       /\ ticks' = IF n <= 0 THEN 1 ELSE n
       /\ left' = [left EXCEPT ![s] = ticks']
  /\ cpu' = "walk" /\ pos' = 0
  /\ UNCHANGED <<calltodo, c_time, soft, panicked>>

\* Mutant: the test for a full table is gone, the slot taken is the null one.
TimeoutNullSlot ==
  /\ Running
  /\ callfree = {}
  /\ new' = Idle /\ cpu' = "walk" /\ pos' = 0 /\ ticks' = 1
  /\ UNCHANGED <<queue, soft, panicked>>

TimeoutPanic ==
  /\ Running
  /\ callfree = {}
  /\ panicked' = TRUE
  /\ UNCHANGED <<queue, locals, soft>>

\* The walk goes past the next entry t.
WalksPast == pos < Len(calltodo) /\ ticks > c_time[calltodo[pos + 1]]

TimeoutWalk ==
  /\ cpu = "walk"
  /\ WalksPast
  /\ pos' = pos + 1
  /\ ticks' = ticks - Pos(c_time[calltodo[pos + 1]])
  /\ UNCHANGED <<queue, cpu, new, soft, panicked>>

\* Mutant: the entry after the new one keeps its delta.
TimeoutInsertOnly ==
  /\ cpu = "walk"
  /\ ~WalksPast
  /\ c_time' = [c_time EXCEPT ![new] = ticks]
  /\ calltodo' = InsertAt(calltodo, pos + 1, new)
  /\ cpu' = "run" /\ pos' = 0 /\ ticks' = 0
  /\ UNCHANGED <<callfree, c_tmr, left, new, soft, panicked>>

TimeoutInsert ==
  /\ cpu = "walk"
  /\ ~WalksPast
  /\ c_time' = [s \in Slots |->
                  IF s = new THEN ticks
                  ELSE IF pos < Len(calltodo) /\ s = calltodo[pos + 1]
                       THEN c_time[s] - ticks
                       ELSE c_time[s]]
  /\ calltodo' = InsertAt(calltodo, pos + 1, new)
  /\ cpu' = "run" /\ pos' = 0 /\ ticks' = 0
  /\ UNCHANGED <<callfree, c_tmr, left, new, soft, panicked>>

(* untimeout(ftn, arg): the first entry that matches, if there is one *)

\* The entry untimeout looks for.
FirstMatch(i, f) == /\ c_tmr[calltodo[i]] = f
                    /\ \A j \in 1..(i - 1) : c_tmr[calltodo[j]] # f

\* Mutant: the delta of the removed entry is not given to the next one.
UntimeoutDropsDelta(f) ==
  /\ Running
  /\ \E i \in 1..Len(calltodo) :
       /\ FirstMatch(i, f)
       /\ calltodo' = RemoveAt(calltodo, i)
       /\ callfree' = callfree \cup {calltodo[i]}
  /\ UNCHANGED <<c_time, c_tmr, left, locals, soft, panicked>>

Untimeout(f) ==
  /\ Running
  /\ \E i \in 1..Len(calltodo) :
       LET t == calltodo[i] IN
       /\ FirstMatch(i, f)
       /\ c_time' = [s \in Slots |->
                       IF i < Len(calltodo) /\ s = calltodo[i + 1]
                       THEN c_time[s] + Pos(c_time[t])
                       ELSE c_time[s]]
       /\ calltodo' = RemoveAt(calltodo, i)
       /\ callfree' = callfree \cup {t}
  /\ UNCHANGED <<c_tmr, left, locals, soft, panicked>>

-----------------------------------------------------------------------------
(* hardclock: its loop decrements an entry when every earlier one is already *)
(* due, and stops at the first that is not below zero afterwards.            *)

Decremented == {calltodo[i] : i \in {k \in 1..Len(calltodo) :
                  \A j \in 1..(k - 1) : c_time[calltodo[j]] <= 0}}

\* Mutant: an entry due exactly now does not count.
NeedsoftLate == \E s \in Decremented : c_time[s] - 1 < 0

\* The local needsoft: some entry is due after its decrement.
Needsoft == \E s \in Decremented : c_time[s] - 1 <= 0

\* Mutant: a tick at level 0 requests nothing.
HardclockForgets(base) ==
  /\ Running
  /\ ~(sc = "call" /\ clkmask)
  /\ base => sc = "idle"
  /\ \A s \in InQueue : left[s] > -MaxLate
  /\ c_time' = [s \in Slots |-> IF s \in Decremented THEN c_time[s] - 1 ELSE c_time[s]]
  /\ left' = [s \in Slots |-> IF s \in InQueue THEN left[s] - 1 ELSE left[s]]
  /\ netisr' = (netisr \/ (Needsoft /\ ~base))
  /\ UNCHANGED <<calltodo, callfree, c_tmr, locals, sc, clkmask, calling, panicked>>

\* base: the interrupt arrived at priority level 0 (CLKF_BASEPRI).
Hardclock(base) ==
  /\ Running
  /\ ~(sc = "call" /\ clkmask)
  /\ base => sc = "idle"
  /\ \A s \in InQueue : left[s] > -MaxLate
  /\ c_time' = [s \in Slots |-> IF s \in Decremented THEN c_time[s] - 1 ELSE c_time[s]]
  /\ left' = [s \in Slots |-> IF s \in InQueue THEN left[s] - 1 ELSE left[s]]
  /\ IF Needsoft
     THEN IF base
          THEN sc' = "top" /\ clkmask' = TRUE /\ UNCHANGED netisr
          ELSE netisr' = TRUE /\ UNCHANGED <<sc, clkmask>>
     ELSE UNCHANGED <<sc, clkmask, netisr>>
  /\ UNCHANGED <<calltodo, callfree, c_tmr, locals, calling, panicked>>

\* doreti: on the way back to level 0 the requested softclock is called.
SoftIntr ==
  /\ Running
  /\ sc = "idle" /\ netisr
  /\ netisr' = FALSE
  /\ sc' = "top" /\ clkmask' = FALSE
  /\ UNCHANGED <<queue, locals, calling, panicked>>

(* softclock: one turn of its loop, and the called function's return *)

HeadIsDue == calltodo # <<>> /\ c_time[calltodo[1]] <= 0

\* Mutant: the slot of the called function is not freed.
SoftclockLeaks ==
  /\ sc = "top" /\ HeadIsDue
  /\ sc' = "call"
  /\ calling' = c_tmr[calltodo[1]]
  /\ calltodo' = Tail(calltodo)
  /\ UNCHANGED <<callfree, c_time, c_tmr, left, locals, clkmask, netisr, panicked>>

SoftclockCall ==
  /\ sc = "top" /\ HeadIsDue
  /\ sc' = "call"
  /\ calling' = c_tmr[calltodo[1]]
  /\ callfree' = callfree \cup {calltodo[1]}
  /\ calltodo' = Tail(calltodo)
  /\ UNCHANGED <<c_time, c_tmr, left, locals, clkmask, netisr, panicked>>

SoftclockReturn ==
  /\ Running
  /\ sc = "call"
  /\ sc' = "top" /\ calling' = Idle
  /\ UNCHANGED <<queue, locals, clkmask, netisr, panicked>>

SoftclockExit ==
  /\ sc = "top" /\ ~HeadIsDue
  /\ sc' = "idle" /\ clkmask' = FALSE
  /\ UNCHANGED <<queue, locals, netisr, calling, panicked>>

-----------------------------------------------------------------------------
Next == \/ \E f \in Timers, n \in 0..MaxTicks : TimeoutEnter(f, n)
        \/ TimeoutPanic
        \/ TimeoutWalk
        \/ TimeoutInsert
        \/ \E f \in Timers : Untimeout(f)
        \/ \E base \in BOOLEAN : Hardclock(base)
        \/ SoftIntr
        \/ SoftclockCall
        \/ SoftclockReturn
        \/ SoftclockExit

Spec == Init /\ [][Next]_vars

\* The clock keeps interrupting: an interrupt that arrives while masked is
\* latched by the interrupt controller, hence strong fairness; the same for
\* the latched request in netisr.  A called function returns.
Fairness == /\ WF_vars(TimeoutWalk \/ TimeoutInsert)
            /\ SF_vars(\E base \in BOOLEAN : Hardclock(base))
            /\ SF_vars(SoftIntr)
            /\ WF_vars(SoftclockCall \/ SoftclockExit)
            /\ SF_vars(SoftclockReturn)

FairSpec == Spec /\ Fairness

-----------------------------------------------------------------------------
(* Properties *)

\* Every variable keeps its type; a timer in the queue always has a function.
TypeOK ==
  /\ calltodo \in Seq(Slots)
  /\ callfree \in SUBSET Slots
  /\ c_time \in [Slots -> Int]
  /\ c_tmr \in [Slots -> Timers \cup {Idle}]
  /\ cpu \in {"run", "walk"}
  /\ new \in Slots /\ pos \in Nat /\ ticks \in Int
  /\ sc \in {"idle", "top", "call"}
  /\ clkmask \in BOOLEAN /\ netisr \in BOOLEAN
  /\ calling \in Timers \cup {Idle}
  /\ left \in [Slots -> Int]
  /\ panicked \in BOOLEAN

\* No slot is in two places: the queue has no repetition, and a slot in it is
\* neither on the free list nor being inserted; no slot is lost either.
SlotsPartitioned ==
  /\ \A i, j \in 1..Len(calltodo) : calltodo[i] = calltodo[j] => i = j
  /\ InQueue \cap callfree = {}
  /\ cpu = "walk" => new \notin InQueue \cup callfree
  /\ Slots = InQueue \cup callfree \cup (IF cpu = "walk" THEN {new} ELSE {})

\* The queue is ordered by the time at which its entries are due, whatever
\* was inserted, cancelled or left overdue before.
SortedByDue ==
  \A i, j \in 1..Len(calltodo) : i < j => left[calltodo[i]] <= left[calltodo[j]]

\* The comment of hardclock: the time of an entry is a delta from the previous
\* one, and for entries already due it is the (negative) lateness itself.
\* This is what makes decrementing a prefix right for every entry.
DeltaEncoding ==
  \A i \in 1..Len(calltodo) :
     c_time[calltodo[i]] =
        left[calltodo[i]] - (IF i = 1 THEN 0 ELSE Pos(left[calltodo[i - 1]]))

\* A due call is never forgotten: softclock is running or requested as long as
\* some entry is due, even if the clock found softclock busy or masked.
DueIsRequested ==
  (\E i \in 1..Len(calltodo) : left[calltodo[i]] <= 0) => (sc # "idle" \/ netisr)

\* timeout panics only when every slot of the table is really pending.
PanicOnlyWhenFull ==
  panicked => cpu = "run" /\ sc # "top" /\ InQueue = Slots

\* In the middle of timeout's walk the corrected ticks are exactly the new
\* entry's distance from the entries passed, all of which are due earlier.
WalkSoFar ==
  cpu = "walk" =>
    /\ sc # "top"
    /\ left[new] \in 1..MaxTicks
    /\ pos \in 0..Len(calltodo)
    /\ pos > 0 => left[calltodo[pos]] < left[new]
    /\ ticks = left[new] - (IF pos = 0 THEN 0 ELSE Pos(left[calltodo[pos]]))

\* softclock calls a function exactly while it is in a call, and every entry
\* that is pending or being inserted has a function to call.
CallsAreTimers ==
  /\ sc = "call" <=> calling # Idle
  /\ \A s \in Slots : s \notin callfree => c_tmr[s] \in Timers

Pending == {[id |-> s, what |-> c_tmr[s], left |-> left[s]] : s \in InQueue}

Abs == INSTANCE CalloutAbs WITH Ids <- Slots, pend <- Pending

\* The queue implements the promise of timeout(9): no call is early, calls are
\* made most overdue first, a cancelled call is never made, a tick reaches
\* every pending call.
ImplementsAbs == Abs!Spec

\* Every timeout is eventually called or cancelled.
EventuallyCalled ==
  \A s \in Slots : s \in InQueue ~> (s \notin InQueue \/ panicked)
=============================================================================
