---------------------------- MODULE MCSleepQueue ----------------------------
(***************************************************************************)
(* SleepQueue for a parent p1 and its child p2.  Every wait channel is on  *)
(* the same hash chain, the worst case for wakeup's checks.                *)
(***************************************************************************)
EXTENDS SleepQueue

CONSTANTS p1, p2, CatchP2, HoldP1

OneChain     == [c \in AllChans |-> 0]
ParentOf     == [p \in Procs |-> IF p = p2 THEN p1 ELSE None]
CatchOf      == [p \in Procs |-> IF p = p2 THEN CatchP2 ELSE {SIGCHLD} \cap Sigs]
HoldOf       == [p \in Procs |-> IF p = p1 THEN HoldP1 ELSE {}]
=============================================================================
