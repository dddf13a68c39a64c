------------------------------ MODULE LockMgr ------------------------------
(***************************************************************************)
(* lockmgr of kern/kern_lock.c on one lock, with the simple locks of       *)
(* include/i386/param.h that the uniprocessor build compiles.              *)
(*                                                                         *)
(* The state bits and the share count live in lk_interlock.lock_data, the  *)
(* word that simple_lock sets to 1 and simple_unlock to 0 around every     *)
(* call: a call starts with lock_data = 1 and leaves 0.  lk_flags is a     *)
(* u_short, so LK_DRAINING and LK_DRAINED (bits 16 and up) do not fit.     *)
(* LK_REENABLE lies inside LK_TYPE_MASK: with it any request is unknown.   *)
(*                                                                         *)
(* A call is one step: it gives up the CPU only in the tsleep of ACQUIRE   *)
(* and of LK_DRAIN.  slept records that a call got there, and ends the     *)
(* behaviour; LockProofs shows that none does, so that a request which     *)
(* should wait is granted, fails or panics.                                *)
(***************************************************************************)
EXTENDS Integers, FiniteSets

CONSTANTS Pids,       \* the processes
          KernProc,   \* LK_KERNPROC, the pid used when p is null
          NoProc,     \* LK_NOPROC
          Requests,   \* the request types in use
          MaxHold     \* bound: locks one process holds at a time

ASSUME LockConstants ==
  /\ NoProc \notin Pids
  /\ MaxHold \in 1..100
  /\ Requests \subseteq {"SHARED", "EXCLUSIVE", "UPGRADE", "EXCLUPGRADE", "DOWNGRADE",
                         "RELEASE", "DRAIN"}

VARIABLES lk,       \* the struct lock: data (bits, nshare), flags, count, holder, waitcount
          shared,   \* history: shared locks granted to and not given up by each process
          excl,     \* history: exclusive locks, likewise
          drained,  \* history: an LK_DRAIN was granted
          slept,    \* some call reached a tsleep
          panicstr

vars == <<lk, shared, excl, drained, slept, panicstr>>

Claimed == {"HAVE_EXCL", "WANT_EXCL", "WANT_UPGRADE"}

\* lockinit
Init == /\ lk = [bits |-> {}, nshare |-> 0, flags |-> {}, count |-> 0,
                 holder |-> NoProc, waitcount |-> 0]
        /\ shared = [p \in Pids |-> 0]
        /\ excl = [p \in Pids |-> 0]
        /\ drained = FALSE /\ slept = FALSE /\ panicstr = ""

\* The store lock_data = v, v = 0 or 1: no bit is left and the count is v.
Store(l, v) == [l EXCEPT !.bits = {}, !.nshare = v]

simple_lock(l)   == Store(l, 1)
simple_unlock(l) == Store(l, 0)

\* What fits in the u_short lk_flags.
U16(flags) == flags \ {"DRAINING", "DRAINED"}

AddShare(l, n) == [l EXCEPT !.nshare = @ + n]
SetBit(l, b)   == [l EXCEPT !.bits = @ \cup {b}]
ClearBit(l, b) == [l EXCEPT !.bits = @ \ {b}]
Held(l, p, n)  == [l EXCEPT !.holder = p, !.count = n]
SetFlags(l, f) == [l EXCEPT !.flags = f]

DropShare(l) == LET m == AddShare(l, -1)
                IN IF m.nshare = 0 THEN ClearBit(m, "SHARE_NONZERO") ELSE m

\* The result of a call: the lock, what is granted ("none" for an error), a
\* panic, and whether the call went to sleep on the way.
Done(l, what)    == [lk |-> l, grant |-> what, panic |-> "", sleep |-> FALSE]
Fail(l, msg)     == [lk |-> l, grant |-> "none", panic |-> msg, sleep |-> FALSE]
Sleeps(l)        == [lk |-> l, grant |-> "none", panic |-> "", sleep |-> TRUE]

\* Mutant: the exclusive count is not looked at.
HaveExclUnchecked(l, p) == Done(Held(SetBit(l, "HAVE_EXCL"), p, 1), "excl")

\* The end of LK_UPGRADE and LK_EXCLUSIVE.
HaveExcl(l, p) ==
  IF l.count # 0 THEN Fail(Held(SetBit(l, "HAVE_EXCL"), p, l.count),
                           "non-zero exclusive count")
  ELSE Done(Held(SetBit(l, "HAVE_EXCL"), p, 1), "excl")

Downgrade(l, p) ==
  IF l.holder # p \/ l.count = 0 THEN Fail(l, "not holding exclusive lock")
  ELSE Done(Held(ClearBit(AddShare(l, l.count), "HAVE_EXCL"), NoProc, 0), "downgraded")

Share(l, p, nowait) ==
  LET more(m) == SetBit(AddShare(m, 1), "SHARE_NONZERO")
  IN IF l.holder = p THEN Downgrade(more(l), p)
     ELSE IF l.bits \cap Claimed = {} THEN Done(more(l), "shared")
     ELSE IF nowait THEN Done(l, "none") ELSE Sleeps(l)

Exclusive(l, p, nowait, canrecurse) ==
  IF l.holder = p /\ p # KernProc
  THEN IF canrecurse THEN Done(Held(l, p, l.count + 1), "excl")
       ELSE Fail(l, "locking against myself")
  ELSE IF nowait /\ l.bits # {} THEN Done(l, "none")
  ELSE IF l.bits \cap {"HAVE_EXCL", "WANT_EXCL"} # {} THEN Sleeps(l)
  ELSE IF l.bits \cap {"SHARE_NONZERO", "WANT_UPGRADE"} # {} THEN Sleeps(SetBit(l, "WANT_EXCL"))
  ELSE HaveExcl(l, p)

\* The share is given up first: an error after that leaves p with nothing.
Upgrade(l, p, nowait, canrecurse) ==
  IF l.holder = p \/ l.nshare <= 0 THEN Fail(l, "upgrade exclusive lock")
  ELSE LET m == DropShare(l)
       IN IF nowait /\ ("WANT_UPGRADE" \in m.bits \/ m.nshare > 1) THEN Done(m, "unshared")
          ELSE IF "WANT_UPGRADE" \notin m.bits
               THEN IF m.nshare # 0 THEN Sleeps(SetBit(m, "WANT_UPGRADE")) ELSE HaveExcl(m, p)
          ELSE Exclusive(m, p, nowait, canrecurse)

ExclUpgrade(l, p, nowait, canrecurse) ==
  IF "WANT_UPGRADE" \in l.bits THEN Done(DropShare(l), "unshared")
  ELSE Upgrade(l, p, nowait, canrecurse)

\* Mutant: every release is one of an exclusive lock.
ReleaseUnchecked(l, p) ==
  IF l.count = 1 THEN Done(Held(ClearBit(l, "HAVE_EXCL"), NoProc, 0), "released")
  ELSE Done(Held(l, p, l.count - 1), "released")

Release(l, p) ==
  IF l.count # 0
  THEN IF l.holder # p THEN Fail(l, "not exclusive lock holder unlocking")
       ELSE IF l.count > 1 THEN Done(Held(l, p, l.count - 1), "released")
       ELSE Done(Held(ClearBit(l, "HAVE_EXCL"), NoProc, 0), "released")
  ELSE IF "SHARE_NONZERO" \in l.bits THEN Done(DropShare(l), "released")
  ELSE Done(l, "released")

Drain(l, p, nowait) ==
  IF l.holder = p THEN Fail(l, "draining against myself")
  ELSE IF l.bits # {} \/ l.waitcount # 0
       THEN IF nowait THEN Done(l, "none") ELSE Sleeps(SetFlags(l, l.flags \cup {"WAITDRAIN"}))
  ELSE Done(Held(SetFlags(l, U16(l.flags \cup {"DRAINING", "HAVE_EXCL"})), p, 1), "excl")

\* The DIAGNOSTIC check of a draining or drained lock: a panic message or "".
DrainCheck(l, p, req) ==
  IF l.flags \cap {"DRAINING", "DRAINED"} = {} THEN ""
  ELSE IF "DRAINED" \in l.flags THEN "using decommissioned lock"
  ELSE IF req # "RELEASE" \/ l.holder # p THEN "non-release on draining lock" ELSE ""

\* ... and the flags after it.
DrainFlags(l, reenable) ==
  IF "DRAINING" \notin l.flags THEN l.flags
  ELSE U16((l.flags \ {"DRAINING"}) \cup (IF reenable THEN {} ELSE {"DRAINED"}))

\* The tail of every call: a drainer is told when nothing is left.
WakeDrain(l) == IF l.bits = {} /\ l.waitcount = 0
                THEN SetFlags(l, l.flags \ {"WAITDRAIN"}) ELSE l

\* flags & LK_TYPE_MASK: with LK_REENABLE none of the request types.
LockType(req, reenable) == IF reenable THEN "unknown" ELSE req

lockmgr(p, req, nowait, canrecurse, reenable) ==
  LET l0 == simple_lock(lk)
      l  == SetFlags(l0, DrainFlags(l0, reenable))
      type == LockType(req, reenable)
  IN IF DrainCheck(l0, p, type) # "" THEN Fail(l0, DrainCheck(l0, p, type))
     ELSE CASE type = "SHARED"      -> Share(l, p, nowait)
            [] type = "EXCLUSIVE"   -> Exclusive(l, p, nowait, canrecurse)
            [] type = "UPGRADE"     -> Upgrade(l, p, nowait, canrecurse)
            [] type = "EXCLUPGRADE" -> ExclUpgrade(l, p, nowait, canrecurse)
            [] type = "DOWNGRADE"   -> Downgrade(l, p)
            [] type = "RELEASE"     -> Release(l, p)
            [] type = "DRAIN"       -> Drain(l, p, nowait)
            [] OTHER                -> Fail(l, "unknown locktype request")

-----------------------------------------------------------------------------
\* A caller gives up or changes only what it holds, and asks for a lock it
\* holds already only by recursion; LK_REENABLE comes with LK_RELEASE only.
Allowed(p, req, canrecurse, reenable) ==
  /\ reenable => req = "RELEASE"
  /\ CASE req = "SHARED"    -> shared[p] + excl[p] < MaxHold
       [] req = "EXCLUSIVE" -> shared[p] = 0 /\ excl[p] < MaxHold /\ (excl[p] > 0 => canrecurse)
       [] req \in {"UPGRADE", "EXCLUPGRADE"} -> shared[p] = 1 /\ excl[p] = 0
       [] req = "DOWNGRADE" -> excl[p] > 0
       [] req = "RELEASE"   -> shared[p] + excl[p] > 0
       [] req = "DRAIN"     -> shared[p] + excl[p] = 0

\* What the caller holds after the call.
Grants(p, req, what) ==
  /\ shared' = [shared EXCEPT ![p] =
       CASE what = "shared"     -> @ + 1
         [] what = "downgraded" -> @ + excl[p] + (IF req = "SHARED" THEN 1 ELSE 0)
         [] what = "unshared"   -> @ - 1
         [] what = "excl" /\ req \in {"UPGRADE", "EXCLUPGRADE"} -> @ - 1
         [] what = "released" /\ excl[p] = 0 -> @ - 1
         [] OTHER -> @]
  /\ excl' = [excl EXCEPT ![p] =
       CASE what = "excl" -> @ + 1
         [] what = "downgraded" -> 0
         [] what = "released" /\ @ > 0 -> @ - 1
         [] OTHER -> @]

Call(p, req, nowait, canrecurse, reenable) ==
  /\ panicstr = "" /\ ~slept
  /\ Allowed(p, req, canrecurse, reenable)
  /\ LET r == lockmgr(p, req, nowait, canrecurse, reenable) IN
     /\ lk' = simple_unlock(WakeDrain(r.lk))
     /\ panicstr' = r.panic
     /\ slept' = r.sleep
     /\ Grants(p, req, r.grant)
     /\ drained' = (drained \/ (req = "DRAIN" /\ r.grant = "excl"))

Next == \E p \in Pids, req \in Requests, nowait, canrecurse, reenable \in BOOLEAN :
           Call(p, req, nowait, canrecurse, reenable)

Spec == Init /\ [][Next]_vars

-----------------------------------------------------------------------------
(* Properties *)

\* The fields of the lock keep their types.
TypeOK == /\ lk.bits \subseteq Claimed \cup {"SHARE_NONZERO"} /\ lk.nshare \in 0..255
          /\ lk.flags \subseteq {"HAVE_EXCL", "WAITDRAIN", "DRAINING", "DRAINED"}
          /\ lk.count \in Nat /\ lk.waitcount \in Nat
          /\ lk.holder \in Pids \cup {NoProc}
          /\ drained \in BOOLEAN
          /\ shared \in [Pids -> Nat] /\ excl \in [Pids -> Nat]

\* As long as nobody drains the lock, at most one process holds it exclusively,
\* as often as lk_exclusivecount says: the second requester of a held lock
\* panics instead of getting it.  (LK_DRAIN takes the lock from its holder,
\* because the bits it waits for are gone with the word it tests.)
ExclusiveIsExclusive ==
  panicstr = "" /\ ~drained =>
    \A p \in Pids : excl[p] = IF lk.holder = p THEN lk.count ELSE 0

\* "LK_NSHARE_MASK The number of shared locks currently held.  When this is
\* zero, an exclusive lock may be acquired."
SharedExcludesExclusive ==
  \A p, q \in Pids : p # q => ~(shared[p] > 0 /\ excl[q] > 0)
=============================================================================
