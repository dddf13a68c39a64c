------------------------------ MODULE MCVnode ------------------------------
(* Vnode for TLC: vnodes, processes and files are interchangeable. *)
EXTENDS Vnode, TLC

Symmetry == Permutations(Vnodes) \cup Permutations(Procs) \cup Permutations(Files)
=============================================================================
