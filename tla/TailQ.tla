------------------------------- MODULE TailQ -------------------------------
(***************************************************************************)
(* The doubly linked tail queues of include/sys/queue.h and the run queues *)
(* of locore.s, which are linked the same way: an element is on a queue at *)
(* most once and is unlinked where it is.                                  *)
(***************************************************************************)
EXTENDS Integers, Sequences, SequencesExt

TAILQ_INSERT_HEAD(q, e) == <<e>> \o q
TAILQ_INSERT_TAIL(q, e) == Append(q, e)
TAILQ_REMOVE(q, e) == IF e \in ToSet(q) THEN RemoveAt(q, CHOOSE i \in DOMAIN q : q[i] = e) ELSE q
=============================================================================
