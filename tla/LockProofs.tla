----------------------------- MODULE LockProofs -----------------------------
(***************************************************************************)
(* Proofs about LockMgr.                                                   *)
(*                                                                         *)
(* Every call begins by storing 1 in the word that holds the state bits    *)
(* and the share count, and ends by storing 0.  So a request is decided on *)
(* a lock with no bit set and one share (Entered), whatever was granted    *)
(* before: it finds nothing to wait for.  Who has the lock exclusively is  *)
(* remembered in lk_lockholder and lk_exclusivecount alone, and the check  *)
(* of the count is what keeps a second exclusive holder out.               *)
(***************************************************************************)
EXTENDS LockMgr, TLAPS

States == Claimed \cup {"SHARE_NONZERO"}
Flags  == {"HAVE_EXCL", "WAITDRAIN"}

LockRecord == [bits : SUBSET States, nshare : Int, flags : SUBSET Flags, count : Nat,
               holder : Pids \cup {NoProc}, waitcount : {0}]

\* A struct lock: the holder is known exactly if it is held exclusively, and nobody waits.
IsLock(l) == l \in LockRecord /\ (l.count = 0 <=> l.holder = NoProc)

\* The lock as a request finds it, after simple_lock.
Entered(l) == IsLock(l) /\ l.bits = {} /\ l.nshare = 1

SameShare(m, l)  == m.bits = l.bits /\ m.nshare = l.nshare
SameHolder(m, l) == m.holder = l.holder /\ m.count = l.count

\* How the lock l, found by p's request, may become k when what is granted.
Granted(l, p, req, k, what) ==
  /\ what = "unshared" => req \in {"UPGRADE", "EXCLUPGRADE"}
  /\ what = "excl" => /\ k.holder = p /\ req # "RELEASE"
                      /\ \/ req = "EXCLUSIVE" /\ l.holder = p /\ k.count = l.count + 1
                         \/ l.count = 0 /\ k.count = 1
                         \/ req = "DRAIN"
  /\ what = "downgraded" => l.holder = p /\ k.holder = NoProc
  /\ what = "released" =>
       /\ req = "RELEASE"
       /\ \/ l.holder = p /\ k.holder = p /\ k.count = l.count - 1
          \/ l.holder = p /\ k.holder = NoProc /\ l.count = 1
          \/ l.count = 0 /\ k.holder = NoProc
  /\ what \in {"none", "shared", "unshared"} => SameHolder(k, l)

Grant == {"none", "shared", "unshared", "excl", "downgraded", "released"}

\* What a request returns: it never sleeps, and nothing is granted by a panic.
Outcome(l, p, req, r) ==
  /\ IsLock(r.lk) /\ r.sleep = FALSE
  /\ r.grant \in Grant /\ (r.panic # "" => r.grant = "none")
  /\ r.panic = "" => Granted(l, p, req, r.lk, r.grant)

-----------------------------------------------------------------------------
(* What the operators on the lock do to its fields. *)

\* What storing the share count changes.
LEMMA StoreFields ==
  ASSUME NEW l \in LockRecord, NEW v \in Int
  PROVE  /\ Store(l, v) \in LockRecord
         /\ Store(l, v).bits = {} /\ Store(l, v).nshare = v
         /\ SameHolder(Store(l, v), l) /\ Store(l, v).flags = l.flags
  <1> DEFINE m == [l EXCEPT !.bits = {}]
  <1>1. m \in LockRecord /\ m.bits = {} /\ SameHolder(m, l) /\ m.flags = l.flags
    BY DEF LockRecord, SameHolder
  <1>2. Store(l, v) = [m EXCEPT !.nshare = v]
    BY DEF Store
  <1> HIDE DEF m
  <1> QED  BY <1>1, <1>2 DEF LockRecord, SameHolder

\* What one more share changes.
LEMMA AddShareFields ==
  ASSUME NEW l \in LockRecord, NEW n \in Int
  PROVE  /\ AddShare(l, n) \in LockRecord
         /\ AddShare(l, n).bits = l.bits /\ AddShare(l, n).nshare = l.nshare + n
         /\ SameHolder(AddShare(l, n), l) /\ AddShare(l, n).flags = l.flags
  BY DEF LockRecord, SameHolder, AddShare

\* What setting a flag changes.
LEMMA SetBitFields ==
  ASSUME NEW l \in LockRecord, NEW b \in States
  PROVE  /\ SetBit(l, b) \in LockRecord
         /\ SetBit(l, b).bits = l.bits \cup {b} /\ SetBit(l, b).nshare = l.nshare
         /\ SameHolder(SetBit(l, b), l) /\ SetBit(l, b).flags = l.flags
  BY DEF LockRecord, SameHolder, SetBit

\* What clearing a flag changes.
LEMMA ClearBitFields ==
  ASSUME NEW l \in LockRecord, NEW b \in States
  PROVE  /\ ClearBit(l, b) \in LockRecord
         /\ ClearBit(l, b).bits = l.bits \ {b} /\ ClearBit(l, b).nshare = l.nshare
         /\ SameHolder(ClearBit(l, b), l) /\ ClearBit(l, b).flags = l.flags
  BY DEF LockRecord, SameHolder, ClearBit

\* What setting the holder and the recursion count changes.
LEMMA HeldFields ==
  ASSUME NEW l \in LockRecord, NEW p \in Pids \cup {NoProc}, NEW n \in Nat
  PROVE  /\ Held(l, p, n) \in LockRecord
         /\ SameShare(Held(l, p, n), l)
         /\ Held(l, p, n).holder = p /\ Held(l, p, n).count = n
  <1> DEFINE m == [l EXCEPT !.holder = p]
  <1>1. m \in LockRecord /\ SameShare(m, l) /\ m.holder = p
    BY DEF LockRecord, SameShare
  <1>2. Held(l, p, n) = [m EXCEPT !.count = n]
    BY DEF Held
  <1> HIDE DEF m
  <1> QED  BY <1>1, <1>2 DEF LockRecord, SameShare

\* What setting the flags changes.
LEMMA SetFlagsFields ==
  ASSUME NEW l \in LockRecord, NEW f \in SUBSET Flags
  PROVE  /\ SetFlags(l, f) \in LockRecord
         /\ SameShare(SetFlags(l, f), l) /\ SameHolder(SetFlags(l, f), l)
         /\ SetFlags(l, f).flags = f
  BY DEF LockRecord, SameShare, SameHolder, SetFlags

-----------------------------------------------------------------------------
(* The requests. *)

USE DEF SameShare, SameHolder, States, Claimed, Grant

\* A request that is granted.
LEMMA DoneOutcome ==
  ASSUME NEW l, NEW p, NEW req, NEW k, IsLock(k), NEW what \in Grant,
         Granted(l, p, req, k, what)
  PROVE  Outcome(l, p, req, Done(k, what))
  <1>1. /\ Done(k, what).lk = k /\ Done(k, what).grant = what
        /\ Done(k, what).panic = "" /\ Done(k, what).sleep = FALSE
    BY DEF Done
  <1> HIDE DEF Grant
  <1> QED  BY <1>1 DEF Outcome

\* A request that fails.
LEMMA FailOutcome ==
  ASSUME NEW k, IsLock(k), NEW l, NEW p, NEW req, NEW msg, msg # ""
  PROVE  Outcome(l, p, req, Fail(k, msg))
  <1>1. /\ Fail(k, msg).lk = k /\ Fail(k, msg).grant = "none"
        /\ Fail(k, msg).panic # "" /\ Fail(k, msg).sleep = FALSE
    BY DEF Fail
  <1> QED  BY <1>1 DEF Outcome, Grant

\* LK_DOWNGRADE.
LEMMA DowngradeOutcome ==
  ASSUME NEW l, IsLock(l), NEW p \in Pids, NEW req
  PROVE  Outcome(l, p, req, Downgrade(l, p))
  <1> DEFINE m == AddShare(l, l.count)
             n == ClearBit(m, "HAVE_EXCL")
             r == Held(n, NoProc, 0)
  <1>1. m \in LockRecord
    BY AddShareFields DEF IsLock, LockRecord
  <1>2. n \in LockRecord
    BY <1>1, ClearBitFields
  <1>3. r \in LockRecord /\ r.holder = NoProc /\ r.count = 0
    BY <1>2, HeldFields
  <1>4. CASE l.holder # p \/ l.count = 0
    BY <1>4, FailOutcome DEF Downgrade
  <1>5. CASE ~(l.holder # p \/ l.count = 0)
    <2>1. Downgrade(l, p) = Done(r, "downgraded")
      BY <1>5 DEF Downgrade
    <2> HIDE DEF r
    <2>2. IsLock(r) /\ Granted(l, p, req, r, "downgraded")
      BY <1>3, <1>5 DEF Granted, IsLock
    <2> QED  BY <2>1, <2>2, DoneOutcome
  <1> QED  BY <1>4, <1>5

\* LK_SHARED.
LEMMA ShareOutcome ==
  ASSUME NEW l, Entered(l), NEW p \in Pids, NEW nowait
  PROVE  Outcome(l, p, "SHARED", Share(l, p, nowait))
  <1> DEFINE m == AddShare(l, 1)
             n == SetBit(m, "SHARE_NONZERO")
  <1>1. m \in LockRecord /\ SameHolder(m, l)
    BY AddShareFields DEF Entered, IsLock
  <1>2. IsLock(n) /\ SameHolder(n, l)
    BY <1>1, SetBitFields DEF Entered, IsLock
  <1>3. Outcome(n, p, "SHARED", Downgrade(n, p))
    BY <1>2, DowngradeOutcome
  <1>4. CASE l.holder = p
    <2>1. Share(l, p, nowait) = Downgrade(n, p)
      BY <1>4 DEF Share
    <2> HIDE DEF n
    <2> QED  BY <1>2, <1>3, <2>1 DEF Outcome, Granted
  <1>5. CASE l.holder # p
    <2>1. Share(l, p, nowait) = Done(n, "shared")
      BY <1>5 DEF Share, Entered
    <2> HIDE DEF n
    <2>2. Granted(l, p, "SHARED", n, "shared")
      BY <1>2 DEF Granted
    <2> QED  BY <1>2, <2>1, <2>2, DoneOutcome
  <1> QED  BY <1>4, <1>5

\* The end of an exclusive request.
LEMMA HaveExclOutcome ==
  ASSUME NEW k, IsLock(k), NEW l, SameHolder(k, l), NEW p \in Pids,
         NEW req, req # "RELEASE"
  PROVE  Outcome(l, p, req, HaveExcl(k, p))
  <1> DEFINE m == SetBit(k, "HAVE_EXCL")
  <1>1. m \in LockRecord /\ SameHolder(m, k)
    BY SetBitFields DEF IsLock
  <1>2. k.count \in Nat /\ NoProc \notin Pids
    BY LockConstants DEF IsLock, LockRecord
  <1>3. k.count # 0 => IsLock(Held(m, p, k.count))
    <2>1. Held(m, p, k.count) \in LockRecord /\ Held(m, p, k.count).holder = p
          /\ Held(m, p, k.count).count = k.count
      BY <1>1, <1>2, HeldFields
    <2>2. p # NoProc
      BY <1>2
    <2> QED  BY <2>1, <2>2 DEF IsLock
  <1> HIDE DEF m
  <1>4. IsLock(Held(m, p, 1)) /\ Held(m, p, 1).holder = p /\ Held(m, p, 1).count = 1
    <2>1. /\ Held(m, p, 1) \in LockRecord
          /\ Held(m, p, 1).holder = p /\ Held(m, p, 1).count = 1
      BY <1>1, HeldFields
    <2> QED  BY <1>2, <2>1 DEF IsLock
  <1>5. CASE k.count # 0
    BY <1>3, <1>5, FailOutcome DEF HaveExcl, m
  <1>6. CASE k.count = 0
    <2>1. HaveExcl(k, p) = Done(Held(m, p, 1), "excl")
      BY <1>6 DEF HaveExcl, m
    <2>2. Granted(l, p, req, Held(m, p, 1), "excl")
      BY <1>4, <1>6 DEF Granted
    <2> QED  BY <1>4, <2>1, <2>2, DoneOutcome
  <1> QED  BY <1>5, <1>6

\* LK_EXCLUSIVE.
LEMMA ExclusiveOutcome ==
  ASSUME NEW l, Entered(l), NEW p \in Pids, NEW nowait, NEW canrecurse
  PROVE  Outcome(l, p, "EXCLUSIVE", Exclusive(l, p, nowait, canrecurse))
  <1>1. l \in LockRecord /\ l.count \in Nat /\ l.bits = {} /\ NoProc \notin Pids
    BY LockConstants DEF Entered, IsLock, LockRecord
  <1> DEFINE m == Held(l, p, l.count + 1)
  <1>2. m \in LockRecord /\ m.holder = p /\ m.count = l.count + 1
    <2> DEFINE n == l.count + 1
    <2>1. n \in Nat /\ p \in Pids \cup {NoProc}
      BY <1>1
    <2> HIDE DEF n
    <2>2. /\ Held(l, p, n) \in LockRecord
          /\ Held(l, p, n).holder = p /\ Held(l, p, n).count = n
      BY <1>1, <2>1, HeldFields
    <2> QED  BY <2>2 DEF n
  <1> HIDE DEF m
  <1>3. IsLock(m)
    BY <1>1, <1>2 DEF IsLock
  <1>4. CASE l.holder = p /\ p # KernProc /\ canrecurse
    <2>1. Exclusive(l, p, nowait, canrecurse) = Done(m, "excl")
      BY <1>4 DEF Exclusive, m
    <2>2. Granted(l, p, "EXCLUSIVE", m, "excl")
      BY <1>2, <1>4 DEF Granted
    <2> QED  BY <1>3, <2>1, <2>2, DoneOutcome
  <1>5. CASE l.holder = p /\ p # KernProc /\ ~canrecurse
    BY <1>5, FailOutcome DEF Exclusive, Entered
  <1>6. CASE ~(l.holder = p /\ p # KernProc)
    <2>1. Exclusive(l, p, nowait, canrecurse) = HaveExcl(l, p)
      BY <1>1, <1>6 DEF Exclusive
    <2> QED  BY <2>1, HaveExclOutcome DEF Entered
  <1> QED  BY <1>4, <1>5, <1>6

\* LK_UPGRADE and LK_EXCLUPGRADE.
LEMMA UpgradeOutcome ==
  ASSUME NEW l, Entered(l), NEW p \in Pids, NEW nowait, NEW canrecurse,
         NEW req \in {"UPGRADE", "EXCLUPGRADE"}
  PROVE  Outcome(l, p, req, Upgrade(l, p, nowait, canrecurse))
  <1> DEFINE k == AddShare(l, -1)
             m == DropShare(l)
  <1>1. k \in LockRecord /\ k.bits = {} /\ k.nshare = 0 /\ SameHolder(k, l)
    <2>1. -1 \in Int /\ l \in LockRecord /\ l.bits = {} /\ l.nshare = 1
      BY DEF Entered, IsLock
    <2>2. /\ k \in LockRecord /\ k.bits = l.bits /\ k.nshare = l.nshare + (-1)
          /\ SameHolder(k, l)
      BY <2>1, AddShareFields
    <2> HIDE DEF k
    <2> QED  BY <2>1, <2>2
  <1>2. m = ClearBit(k, "SHARE_NONZERO")
    BY <1>1 DEF DropShare
  <1>3. IsLock(m) /\ m.bits = {} /\ m.nshare = 0 /\ SameHolder(m, l)
    BY <1>1, <1>2, ClearBitFields DEF Entered, IsLock
  <1> HIDE DEF m
  <1>4. Outcome(l, p, req, HaveExcl(m, p))
    BY <1>3, HaveExclOutcome
  <1>5. CASE l.holder = p
    BY <1>5, FailOutcome DEF Upgrade, Entered
  <1>6. CASE l.holder # p
    <2>1. Upgrade(l, p, nowait, canrecurse) = HaveExcl(m, p)
      BY <1>3, <1>6 DEF Upgrade, Entered, m
    <2> QED  BY <1>4, <2>1
  <1> QED  BY <1>5, <1>6

\* LK_RELEASE.
LEMMA ReleaseOutcome ==
  ASSUME NEW l, Entered(l), NEW p \in Pids
  PROVE  Outcome(l, p, "RELEASE", Release(l, p))
  <1> DEFINE m == Held(l, p, l.count - 1)
             k == ClearBit(l, "HAVE_EXCL")
             n == Held(k, NoProc, 0)
  <1>1. l \in LockRecord /\ l.count \in Nat /\ l.bits = {} /\ NoProc \notin Pids
    BY LockConstants DEF Entered, IsLock, LockRecord
  <1>2. l.count > 1 => IsLock(m) /\ m.holder = p /\ m.count = l.count - 1
    <2> SUFFICES ASSUME l.count > 1
                 PROVE  IsLock(m) /\ m.holder = p /\ m.count = l.count - 1
      OBVIOUS
    <2>1. l.count - 1 \in Nat /\ l.count - 1 # 0
      BY <1>1
    <2>2. m \in LockRecord /\ m.holder = p /\ m.count = l.count - 1
      <3>1. PICK c \in Nat : c = l.count - 1
        BY <2>1
      <3>2. /\ Held(l, p, c) \in LockRecord /\ Held(l, p, c).holder = p
            /\ Held(l, p, c).count = c
        BY <1>1, HeldFields
      <3> QED  BY <3>1, <3>2
    <2>3. p # NoProc
      BY <1>1
    <2> HIDE DEF m
    <2> QED  BY <2>1, <2>2, <2>3 DEF IsLock
  <1>3. k \in LockRecord
    BY <1>1, ClearBitFields
  <1>4. IsLock(n) /\ n.holder = NoProc
    BY <1>3, HeldFields DEF IsLock
  <1> HIDE DEF m, n
  <1>5. CASE l.count # 0 /\ l.holder # p
    BY <1>5, FailOutcome DEF Release, Entered
  <1>6. CASE l.count > 1 /\ l.holder = p
    <2>1. Release(l, p) = Done(m, "released")
      BY <1>1, <1>6 DEF Release, m
    <2>2. Granted(l, p, "RELEASE", m, "released")
      BY <1>2, <1>6 DEF Granted
    <2> QED  BY <1>2, <1>6, <2>1, <2>2, DoneOutcome
  <1>7. CASE l.count = 1 /\ l.holder = p
    <2>1. Release(l, p) = Done(n, "released")
      BY <1>7 DEF Release, n
    <2>2. Granted(l, p, "RELEASE", n, "released")
      BY <1>4, <1>7 DEF Granted
    <2> QED  BY <1>4, <2>1, <2>2, DoneOutcome
  <1>8. CASE l.count = 0
    <2>1. Release(l, p) = Done(l, "released")
      BY <1>1, <1>8 DEF Release
    <2>2. Granted(l, p, "RELEASE", l, "released")
      BY <1>8 DEF Granted, Entered, IsLock
    <2> QED  BY <2>1, <2>2, DoneOutcome DEF Entered
  <1> QED  BY <1>1, <1>5, <1>6, <1>7, <1>8

\* LK_DRAIN.
LEMMA DrainOutcome ==
  ASSUME NEW l, Entered(l), NEW p \in Pids, NEW nowait
  PROVE  Outcome(l, p, "DRAIN", Drain(l, p, nowait))
  <1> DEFINE f == U16(l.flags \cup {"DRAINING", "HAVE_EXCL"})
             k == SetFlags(l, f)
             m == Held(k, p, 1)
  <1>1. l \in LockRecord /\ l.flags \in SUBSET Flags /\ l.waitcount = 0
    BY DEF Entered, IsLock, LockRecord
  <1>2. f \in SUBSET Flags
    BY <1>1 DEF U16, Flags
  <1>3. k \in LockRecord
    BY <1>1, <1>2, SetFlagsFields
  <1>4. IsLock(m) /\ m.holder = p
    BY <1>3, HeldFields, LockConstants DEF IsLock
  <1> HIDE DEF m
  <1>5. CASE l.holder = p
    BY <1>5, FailOutcome DEF Drain, Entered
  <1>6. CASE l.holder # p
    <2>1. Drain(l, p, nowait) = Done(m, "excl")
      BY <1>1, <1>6 DEF Drain, Entered, m
    <2>2. Granted(l, p, "DRAIN", m, "excl")
      BY <1>4 DEF Granted
    <2> QED  BY <1>4, <2>1, <2>2, DoneOutcome
  <1> QED  BY <1>5, <1>6

-----------------------------------------------------------------------------
(* The invariant. *)

Inv == /\ IsLock(lk) /\ lk.bits = {} /\ lk.nshare = 0
       /\ shared \in [Pids -> Nat] /\ excl \in [Pids -> Nat]
       /\ drained \in BOOLEAN /\ slept = FALSE
       /\ ExclusiveIsExclusive

\* The initial state.
LEMMA InitInv == Init => Inv
  <1> SUFFICES ASSUME Init PROVE Inv
    OBVIOUS
  <1>1. IsLock(lk) /\ lk.bits = {} /\ lk.nshare = 0
    <2> DEFINE l == [bits |-> {}, nshare |-> 0, flags |-> {}, count |-> 0,
                     holder |-> NoProc, waitcount |-> 0]
    <2>1. l \in LockRecord
      BY DEF LockRecord
    <2>2. l.bits = {} /\ l.nshare = 0 /\ l.count = 0 /\ l.holder = NoProc
      OBVIOUS
    <2>3. lk = l
      BY DEF Init
    <2> HIDE DEF l
    <2> QED  BY <2>1, <2>2, <2>3 DEF IsLock
  <1>2. shared \in [Pids -> Nat] /\ excl \in [Pids -> Nat]
    BY DEF Init
  <1>3. ExclusiveIsExclusive
    BY DEF Init, ExclusiveIsExclusive
  <1> QED  BY <1>1, <1>2, <1>3 DEF Init, Inv

\* A lock on which no process drains has neither draining flag: every request is decided
\* on the lock as simple_lock leaves it.
LEMMA LockmgrOutcome ==
  ASSUME Inv, NEW p \in Pids, NEW req \in Requests,
         NEW nowait, NEW canrecurse, NEW reenable \in BOOLEAN
  PROVE  \E l : /\ Entered(l) /\ SameHolder(l, lk)
                /\ Outcome(l, p, req, lockmgr(p, req, nowait, canrecurse, reenable))
  <1> DEFINE k == simple_lock(lk)
             l == SetFlags(k, DrainFlags(k, reenable))
  <1>1. k \in LockRecord /\ k.bits = {} /\ k.nshare = 1 /\ SameHolder(k, lk)
    <2>1. lk \in LockRecord /\ 1 \in Int /\ k = Store(lk, 1)
      BY DEF Inv, IsLock, simple_lock
    <2> HIDE DEF k
    <2> QED  BY <2>1, StoreFields
  <1>2. /\ k.flags \in SUBSET Flags /\ DrainFlags(k, reenable) = k.flags
        /\ DrainCheck(k, p, LockType(req, reenable)) = ""
    BY <1>1 DEF LockRecord, Flags, DrainFlags, DrainCheck
  <1>3. Entered(l) /\ SameHolder(l, lk)
    <2> HIDE DEF k
    <2>1. l \in LockRecord /\ SameShare(l, k) /\ SameHolder(l, k)
      BY <1>1, <1>2, SetFlagsFields
    <2> QED  BY <1>1, <2>1 DEF Entered, IsLock, Inv
  <1>a. CASE reenable
    <2>1. lockmgr(p, req, nowait, canrecurse, reenable) = Fail(l, "unknown locktype request")
      BY <1>2, <1>a DEF lockmgr, LockType
    <2> HIDE DEF l
    <2> QED  BY <1>3, <2>1, FailOutcome DEF Entered
  <1>b. CASE ~reenable
    <2>4. lockmgr(p, req, nowait, canrecurse, reenable) =
            CASE req = "SHARED"      -> Share(l, p, nowait)
              [] req = "EXCLUSIVE"   -> Exclusive(l, p, nowait, canrecurse)
              [] req = "UPGRADE"     -> Upgrade(l, p, nowait, canrecurse)
              [] req = "EXCLUPGRADE" -> ExclUpgrade(l, p, nowait, canrecurse)
              [] req = "DOWNGRADE"   -> Downgrade(l, p)
              [] req = "RELEASE"     -> Release(l, p)
              [] req = "DRAIN"       -> Drain(l, p, nowait)
              [] OTHER               -> Fail(l, "unknown locktype request")
      BY <1>2, <1>b DEF lockmgr, LockType
    <2> HIDE DEF l
    <2>5. ExclUpgrade(l, p, nowait, canrecurse) = Upgrade(l, p, nowait, canrecurse)
      BY <1>3 DEF ExclUpgrade, Entered
    <2>6. Outcome(l, p, req, lockmgr(p, req, nowait, canrecurse, reenable))
      <3>1. CASE req = "SHARED"
        BY <3>1, <1>3, <2>4, ShareOutcome
      <3>2. CASE req = "EXCLUSIVE"
        BY <3>2, <1>3, <2>4, ExclusiveOutcome
      <3>3. CASE req = "UPGRADE"
        BY <3>3, <1>3, <2>4, UpgradeOutcome
      <3>4. CASE req = "EXCLUPGRADE"
        BY <3>4, <1>3, <2>4, <2>5, UpgradeOutcome
      <3>5. CASE req = "DOWNGRADE"
        BY <3>5, <1>3, <2>4, DowngradeOutcome DEF Entered
      <3>6. CASE req = "RELEASE"
        BY <3>6, <1>3, <2>4, ReleaseOutcome
      <3>7. CASE req = "DRAIN"
        BY <3>7, <1>3, <2>4, DrainOutcome
      <3> QED  BY <3>1, <3>2, <3>3, <3>4, <3>5, <3>6, <3>7, LockConstants
    <2> QED  BY <1>3, <2>6
  <1> QED  BY <1>a, <1>b

\* simple_unlock after the tail of a call.
LEMMA LeaveLock ==
  ASSUME NEW l, IsLock(l)
  PROVE  LET m == simple_unlock(WakeDrain(l))
         IN IsLock(m) /\ m.bits = {} /\ m.nshare = 0 /\ SameHolder(m, l)
  <1> DEFINE k == WakeDrain(l)
             f == l.flags \ {"WAITDRAIN"}
  <1>1. l \in LockRecord /\ f \in SUBSET Flags
    BY DEF IsLock, LockRecord, Flags
  <1>2. k \in LockRecord /\ SameHolder(k, l)
    <2> HIDE DEF f
    <2>1. SetFlags(l, f) \in LockRecord /\ SameHolder(SetFlags(l, f), l)
      BY <1>1, SetFlagsFields
    <2>2. k = SetFlags(l, f) \/ k = l
      BY DEF WakeDrain, f
    <2> HIDE DEF k
    <2> QED  BY <1>1, <2>1, <2>2
  <1> HIDE DEF k
  <1>3. simple_unlock(k) = Store(k, 0) /\ 0 \in Int
    BY DEF simple_unlock
  <1>4. /\ Store(k, 0) \in LockRecord /\ Store(k, 0).bits = {} /\ Store(k, 0).nshare = 0
        /\ SameHolder(Store(k, 0), k)
    BY <1>2, <1>3, StoreFields
  <1> QED  BY <1>2, <1>3, <1>4 DEF IsLock, k

\* A call of lockmgr keeps the invariant.
LEMMA CallInv ==
  ASSUME Inv, NEW p \in Pids, NEW req \in Requests,
         NEW nowait, NEW canrecurse, NEW reenable \in BOOLEAN,
         Call(p, req, nowait, canrecurse, reenable)
  PROVE  Inv'
  <1> DEFINE r == lockmgr(p, req, nowait, canrecurse, reenable)
  <1>1. PICK l : Entered(l) /\ SameHolder(l, lk) /\ Outcome(l, p, req, r)
    BY LockmgrOutcome
  <1>2. /\ panicstr = "" /\ Allowed(p, req, canrecurse, reenable)
        /\ lk' = simple_unlock(WakeDrain(r.lk))
        /\ panicstr' = r.panic /\ slept' = r.sleep
        /\ Grants(p, req, r.grant)
        /\ drained' = (drained \/ (req = "DRAIN" /\ r.grant = "excl"))
    BY DEF Call
  <1> DEFINE what == r.grant
             k == r.lk
  <1>3. IsLock(k) /\ r.sleep = FALSE /\ what \in Grant
    BY <1>1 DEF Outcome
  <1>4. /\ r.panic # "" => what = "none"
        /\ r.panic = "" => Granted(l, p, req, k, what)
    BY <1>1 DEF Outcome
  <1> HIDE DEF r, what, k
  <1>5. IsLock(lk') /\ lk'.bits = {} /\ lk'.nshare = 0 /\ SameHolder(lk', k)
    BY <1>2, <1>3, LeaveLock DEF k
  <1>6. Grants(p, req, what)
    BY <1>2 DEF what
  <1>7. what = "unshared" => req \in {"UPGRADE", "EXCLUPGRADE"}
    BY <1>4 DEF Granted
  <1>8. what = "excl" => req # "RELEASE"
    BY <1>4 DEF Granted
  <1>81. what = "released" => req = "RELEASE"
    BY <1>4 DEF Granted
  <1> DEFINE s == shared[p]
             e == excl[p]
  <1>82. s \in Nat /\ e \in Nat
    BY DEF Inv
  <1>83. /\ req \in {"UPGRADE", "EXCLUPGRADE"} => s = 1
         /\ req = "RELEASE" => s + e > 0
    BY <1>2 DEF Allowed
  <1>9. /\ shared' \in [Pids -> Nat]
        /\ excl' \in [Pids -> Nat]
        /\ \A q \in Pids \ {p} : excl'[q] = excl[q]
        /\ excl'[p] = CASE what = "excl" -> e + 1
                        [] what = "downgraded" -> 0
                        [] what = "released" /\ e > 0 -> e - 1
                        [] OTHER -> e
    <2> DEFINE S == CASE what = "shared"     -> s + 1
                      [] what = "downgraded" -> s + e + (IF req = "SHARED" THEN 1 ELSE 0)
                      [] what = "unshared"   -> s - 1
                      [] what = "excl" /\ req \in {"UPGRADE", "EXCLUPGRADE"} -> s - 1
                      [] what = "released" /\ e = 0 -> s - 1
                      [] OTHER -> s
               E == CASE what = "excl" -> e + 1
                      [] what = "downgraded" -> 0
                      [] what = "released" /\ e > 0 -> e - 1
                      [] OTHER -> e
    <2>1. shared' = [shared EXCEPT ![p] = S] /\ excl' = [excl EXCEPT ![p] = E]
      BY <1>6 DEF Grants
    <2>2. S \in Nat
      BY <1>3, <1>7, <1>81, <1>82, <1>83
    <2>3. E \in Nat
      BY <1>3, <1>82
    <2>4. shared \in [Pids -> Nat] /\ excl \in [Pids -> Nat]
      BY DEF Inv
    <2> HIDE DEF S, s, e
    <2>5. excl' \in [Pids -> Nat] /\ excl'[p] = E /\ \A q \in Pids \ {p} : excl'[q] = excl[q]
      <3> HIDE DEF E
      <3> QED  BY <2>1, <2>3, <2>4
    <2>6. shared' \in [Pids -> Nat]
      BY <2>1, <2>2, <2>4
    <2> QED  BY <2>5, <2>6
  <1>10. ASSUME panicstr' = "" /\ ~drained', NEW q \in Pids
         PROVE  excl'[q] = IF lk'.holder = q THEN lk'.count ELSE 0
    <2>1. ~drained /\ ~(req = "DRAIN" /\ what = "excl")
      BY <1>2, <1>10 DEF what
    <2>2. \A x \in Pids : excl[x] = IF l.holder = x THEN l.count ELSE 0
      BY <1>1, <1>2, <2>1 DEF Inv, ExclusiveIsExclusive
    <2>3. Granted(l, p, req, k, what)
      BY <1>2, <1>4, <1>10 DEF r
    <2>4. /\ l.count \in Nat /\ k.count \in Nat /\ (l.count = 0 <=> l.holder = NoProc)
          /\ (k.count = 0 <=> k.holder = NoProc) /\ NoProc \notin Pids
      BY <1>1, <1>3, LockConstants DEF Entered, IsLock, LockRecord
    <2>5. lk'.holder = k.holder /\ lk'.count = k.count
      BY <1>5
    <2>6. CASE what \in {"none", "shared", "unshared"}
      BY <1>9, <2>2, <2>3, <2>5, <2>6 DEF Granted
    <2>7. CASE what = "excl"
      <3>1. /\ k.holder = p
            /\ (l.holder = p /\ k.count = l.count + 1) \/ (l.count = 0 /\ k.count = 1)
        BY <2>1, <2>3, <2>7 DEF Granted
      <3>2. excl'[p] = e + 1
        BY <1>9, <2>7
      <3>3. (l.holder = p => e = l.count) /\ (l.holder # p => e = 0)
        BY <2>2
      <3>4. CASE q # p
        <4>1. l.holder = p \/ l.holder = NoProc
          BY <2>4, <3>1
        <4>2. excl'[q] = 0 /\ k.holder # q
          BY <1>9, <2>2, <2>4, <3>1, <3>4, <4>1
        <4> QED  BY <2>5, <4>2
      <3>5. (k.holder = p => excl'[p] = k.count) /\ (k.holder # p => excl'[p] = 0)
        BY <1>82, <2>4, <3>1, <3>2, <3>3
      <3> QED  BY <2>5, <3>4, <3>5
    <2>8. CASE what = "downgraded"
      <3>1. l.holder = p /\ k.holder = NoProc
        BY <2>3, <2>8 DEF Granted
      <3>2. excl'[p] = 0
        BY <1>9, <2>8
      <3>3. (l.holder = p => e = l.count) /\ (l.holder # p => e = 0)
        BY <2>2
      <3>4. CASE q # p
        <4>1. l.holder = p \/ l.holder = NoProc
          BY <2>4, <3>1
        <4>2. excl'[q] = 0 /\ k.holder # q
          BY <1>9, <2>2, <2>4, <3>1, <3>4, <4>1
        <4> QED  BY <2>5, <4>2
      <3>5. (k.holder = p => excl'[p] = k.count) /\ (k.holder # p => excl'[p] = 0)
        BY <1>82, <2>4, <3>1, <3>2, <3>3
      <3> QED  BY <2>5, <3>4, <3>5
    <2>9. CASE what = "released"
      <3>1. \/ l.holder = p /\ k.holder = p /\ k.count = l.count - 1
            \/ l.holder = p /\ k.holder = NoProc /\ l.count = 1
            \/ l.count = 0 /\ k.holder = NoProc
        BY <2>3, <2>9 DEF Granted
      <3>2. excl'[p] = IF e > 0 THEN e - 1 ELSE e
        BY <1>9, <2>9
      <3>3. (l.holder = p => e = l.count) /\ (l.holder # p => e = 0)
        BY <2>2
      <3>4. CASE q # p
        <4>1. l.holder = p \/ l.holder = NoProc
          BY <2>4, <3>1
        <4>2. excl'[q] = 0 /\ k.holder # q
          BY <1>9, <2>2, <2>4, <3>1, <3>4, <4>1
        <4> QED  BY <2>5, <4>2
      <3>5. (k.holder = p => excl'[p] = k.count) /\ (k.holder # p => excl'[p] = 0)
        BY <1>82, <2>4, <3>1, <3>2, <3>3
      <3> QED  BY <2>5, <3>4, <3>5
    <2> QED  BY <1>3, <2>6, <2>7, <2>8, <2>9
  <1>11. ExclusiveIsExclusive'
    BY <1>10 DEF ExclusiveIsExclusive
  <1> QED  BY <1>2, <1>3, <1>5, <1>9, <1>11 DEF Inv

\* Every step keeps the invariant.
LEMMA NextInv == Inv /\ [Next]_vars => Inv'
  <1> SUFFICES ASSUME Inv, [Next]_vars PROVE Inv'
    OBVIOUS
  <1>1. CASE Next
    BY <1>1, CallInv DEF Next
  <1>2. CASE UNCHANGED vars
    BY <1>2 DEF vars, Inv, ExclusiveIsExclusive
  <1> QED  BY <1>1, <1>2

\* The invariant holds in every reachable state.
LEMMA SpecInv == Spec => []Inv
  BY InitInv, NextInv, PTL DEF Spec

\* No call of this build reaches a tsleep, not even an LK_DRAIN that should "wait for all
\* activity" (lock.h:110): it is because of this that a call is one step of LockMgr.
LEMMA CallsDoNotSleep == Spec => [](slept = FALSE)
  <1>1. Inv => slept = FALSE
    BY DEF Inv
  <1> QED  BY <1>1, SpecInv, PTL

-----------------------------------------------------------------------------
(* The theorems. *)

\* The fields of the lock keep their types for any processes and requests: in particular
\* no order of releases makes a count negative.
THEOREM LockTypes == Spec => []TypeOK
  <1>1. Inv => TypeOK
    BY DEF Inv, TypeOK, IsLock, LockRecord, Flags
  <1> QED  BY <1>1, SpecInv, PTL

\* Until somebody drains the lock, exactly its lk_lockholder has it exclusively, as often
\* as lk_exclusivecount says, although the bits that should keep the others out are lost.
THEOREM LockExclusive == Spec => []ExclusiveIsExclusive
  <1>1. Inv => ExclusiveIsExclusive
    BY DEF Inv
  <1> QED  BY <1>1, SpecInv, PTL
=============================================================================
