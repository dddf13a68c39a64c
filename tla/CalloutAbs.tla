----------------------------- MODULE CalloutAbs -----------------------------
(***************************************************************************)
(* What timeout(9) and untimeout(9) promise their callers, with no queue,  *)
(* no deltas and no software interrupt: a set of pending calls, each with  *)
(* the clock ticks it still has to wait, and the one call that is running. *)
(* Callout implements it: the callout run checks so, CalloutProofs proves so. *)
(***************************************************************************)
EXTENDS Integers

CONSTANTS Ids,      \* identities of pending calls
          Timers,   \* what is called: a (function, argument) pair
          Idle,     \* no function is being called
          MaxTicks  \* bound: largest number of ticks asked for

VARIABLES pend,     \* the pending calls
          calling   \* the function the software clock is calling, or Idle

vars == <<pend, calling>>

Entry == [id : Ids, what : Timers, left : Int]

Init == pend = {} /\ calling = Idle

\* timeout(): one more pending call, at least one tick away.
Arm == /\ \E id \in Ids, f \in Timers, n \in 1..MaxTicks :
             /\ \A e \in pend : e.id # id
             /\ pend' = pend \cup {[id |-> id, what |-> f, left |-> n]}
       /\ UNCHANGED calling

\* untimeout(): of the pending calls of f, one that is due first.
Cancel == /\ \E e \in pend :
                /\ \A o \in pend : o.what = e.what => e.left <= o.left
                /\ pend' = pend \ {e}
          /\ UNCHANGED calling

\* A tick of the clock brings every pending call one tick nearer.
Tick == /\ pend' = {[id |-> e.id, what |-> e.what, left |-> e.left - 1] : e \in pend}
        /\ UNCHANGED calling

\* A call is made only when its ticks have passed, the most overdue first,
\* and one at a time.
Fire == /\ calling = Idle
        /\ \E e \in pend :
              /\ e.left <= 0
              /\ \A o \in pend : e.left <= o.left
              /\ pend' = pend \ {e}
              /\ calling' = e.what

\* The called function returns.
Done == calling # Idle /\ calling' = Idle /\ UNCHANGED pend

Next == Arm \/ Cancel \/ Tick \/ Fire \/ Done

Spec == Init /\ [][Next]_vars
=============================================================================
