---------------------------- MODULE MCProcTable ----------------------------
(***************************************************************************)
(* ProcTable with init and three other processes, a login shell and two    *)
(* generations under it, and three numbers to give them, so that numbers   *)
(* wrap around and meet groups that have lost their leader.  Three         *)
(* sessions are init's and two others.                                     *)
(***************************************************************************)
EXTENDS ProcTable, TLC

CONSTANTS init, p1, p2, p3, s1, s2, s3

\* Any memory is as good as any other.
Symmetry == Permutations({p1, p2, p3}) \cup Permutations(Sessions)
=============================================================================
