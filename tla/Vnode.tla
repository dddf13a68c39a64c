------------------------------- MODULE Vnode -------------------------------
(***************************************************************************)
(* Vnodes and the name cache: getnewvnode, vget, vref, vput, vrele, vclean *)
(* and vgonel (vfs_subr.c), vn_lock (vfs_vnops.c), cache_lookup,           *)
(* cache_enter and cache_purge (vfs_cache.c), used as ufs_lookup and iget  *)
(* do.  A vnode is recycled while others look for it, wait for its lock,   *)
(* release it, or flush it.                                                *)
(*                                                                         *)
(* One CPU and no preemption in the kernel: an action is what a process    *)
(* does between two places where it may sleep: VOP_LOCK, VOP_INACTIVE,     *)
(* VOP_RECLAIM (with the vinvalbuf before it) and the tsleeps on a vnode   *)
(* with VXLOCK.  The lock is ufs's ilock: exclusive, with no LK_DRAIN, and *)
(* whoever waits in it goes on waiting for the lock of a vnode that is     *)
(* recycled meanwhile.  VOP_INACTIVE is as vfs_subr.c wants it: called     *)
(* with the lock, it gives it up.                                          *)
(*                                                                         *)
(* Not here: devices and their aliases, the directory side of an entry     *)
(* (nc_dvp is a directory that stays) and negative entries.                *)
(***************************************************************************)
EXTENDS Integers, Sequences, FiniteSets, TailQ

CONSTANTS Vnodes,         \* memory for struct vnode
          Procs,
          Files,          \* what the file system has; a name stands for its file
          None,
          desiredvnodes,
          IdMod           \* v_id is an u_long: 2^32

ASSUME VnodeConstants ==
  /\ None \notin Vnodes \cup Procs \cup Files /\ IsFiniteSet(Procs)
  /\ desiredvnodes \in Nat /\ IdMod \in Nat /\ 2 < IdMod

VARIABLES v_usecount, VXLOCK, VXWANT, v_type, v_id,   \* struct vnode
          v_data,       \* the file, None once reclaimed
          v_lock,       \* the file system's lock: its holder
          freelist,
          deadb,        \* tqe_prev is 0xdeadb: getnewvnode has it
          nextvnodeid, cache,
          again,        \* history: a v_id has come again (Recurs)
          pc, vp, want, \* where a process is, the vnode, the file it is after
          vpid,         \* ufs_lookup's vpid, None in iget
          active,       \* vclean's
          panicked

counts == <<v_usecount, freelist, deadb>>
flags  == <<VXLOCK, VXWANT>>
ident  == <<v_type, v_data>>
names  == <<v_id, nextvnodeid, cache, again>>
local  == <<pc, vp, want, vpid, active>>
vars   == <<counts, flags, ident, v_lock, names, local, panicked>>

\* Asleep on the vnode because of VXLOCK, in vget, vgonel, getnewvnode's vgonel, vrele,
\* vn_lock with LK_RETRY, and vclean's own vrele.
SleepsOnVnode == {"vget", "vgone", "newgone", "vrele", "vn_lock", "selfrele"}

\* Waiting in VOP_LOCK.
LockWaits == {"vgetlock", "relelock", "iolock"}

Cleaning == {"drain", "clean", "reclaim"}

Pcs == {"idle", "locked", "ref", "io", "iput", "inactive", "newvnode"}
         \cup SleepsOnVnode \cup LockWaits \cup Cleaning

Init ==
  /\ v_usecount = [v \in Vnodes |-> 0]
  /\ VXLOCK = [v \in Vnodes |-> FALSE] /\ VXWANT = [v \in Vnodes |-> FALSE]
  /\ v_type = [v \in Vnodes |-> "none"]
  /\ v_id = [v \in Vnodes |-> 0]
  /\ v_data = [v \in Vnodes |-> None]
  /\ v_lock = [v \in Vnodes |-> None]
  /\ freelist = <<>>
  /\ deadb = [v \in Vnodes |-> FALSE]
  /\ nextvnodeid = 0 /\ cache = {} /\ again = FALSE
  /\ pc = [p \in Procs |-> "idle"]
  /\ vp = [p \in Procs |-> None]
  /\ want = [p \in Procs |-> None]
  /\ vpid = [p \in Procs |-> None]
  /\ active = [p \in Procs |-> FALSE]
  /\ panicked = FALSE

OnFreelist(v) == v \in ToSet(freelist)
numvnodes     == Cardinality({v \in Vnodes : v_type[v] # "none"})
Dead(v)       == v_type[v] = "VBAD"

Goto(p, c, v, f) == /\ pc' = [pc EXCEPT ![p] = c]
                    /\ vp' = [vp EXCEPT ![p] = v]
                    /\ want' = [want EXCEPT ![p] = f]

Done(p) == Goto(p, "idle", None, None) /\ vpid' = [vpid EXCEPT ![p] = None]
Stay(p, c) == pc' = [pc EXCEPT ![p] = c] /\ UNCHANGED <<vp, want>>

\* Mutant: the cleaner is not told.
SleepUnwanted(v) == UNCHANGED flags

\* tsleep on the vnode until its cleaner is done.
SleepOn(v) == VXWANT' = [VXWANT EXCEPT ![v] = TRUE] /\ UNCHANGED VXLOCK

\* The lock of the file system; dead_lock and dead_unlock do nothing.
VOP_LOCK(p, v)   == v_lock' = IF Dead(v) THEN v_lock ELSE [v_lock EXCEPT ![v] = p]
Free(v)          == Dead(v) \/ v_lock[v] = None
VOP_UNLOCK(v)    == v_lock' = IF Dead(v) THEN v_lock ELSE [v_lock EXCEPT ![v] = None]

-----------------------------------------------------------------------------
(* The name cache *)

LooksValid(e) == e.vpid = v_id[e.vp]

\* Mutant: one v_id too many.
NextIdLate == IF nextvnodeid = IdMod THEN 1 ELSE nextvnodeid + 1

\* ++nextvnodeid; 0 is skipped, and the cache is emptied then.
NextId == IF nextvnodeid + 1 = IdMod THEN 1 ELSE nextvnodeid + 1

\* Mutant: the wraparound does not matter.
KeptCacheAlways == cache

KeptCache == IF nextvnodeid + 1 = IdMod THEN {} ELSE cache

\* v gets a v_id by which somebody knew it once around: an entry that was made for a v_id
\* from before the wraparound, or a process that still waits in vget.  (2^32 purges ago.)
Recurs(v) == \/ \E e \in KeptCache : e.older /\ e.vp = v /\ e.vpid = NextId
             \/ \E q \in Procs : pc[q] = "vgetlock" /\ vp[q] = v /\ vpid[q] = NextId

cache_purge(v) == /\ v_id' = [v_id EXCEPT ![v] = NextId]
                  /\ nextvnodeid' = NextId
                  /\ cache' = KeptCache
                  /\ again' = Recurs(v)

\* For what iget found.  There are at most desiredvnodes entries; then the least recently
\* used one goes, which may be any.  older (history): the vnode got its v_id before v_ids
\* last wrapped around.
cache_enter(p) ==
  /\ pc[p] = "locked" /\ vpid[p] = None
  /\ \E kept \in SUBSET cache :
        /\ Cardinality(kept) < desiredvnodes
        /\ kept = cache \/ Cardinality(cache) = desiredvnodes
        /\ cache' = kept \cup {[name |-> want[p], vp |-> vp[p], vpid |-> v_id[vp[p]],
                                older |-> v_id[vp[p]] > nextvnodeid]}
  /\ UNCHANGED <<counts, flags, ident, v_lock, v_id, nextvnodeid, again, local, panicked>>

\* PURGE, of any entry: the cache is finite, and DELETE and unmounting do so too.
PurgeEntry(e) ==
  /\ e \in cache
  /\ cache' = cache \ {e}
  /\ UNCHANGED <<counts, flags, ident, v_lock, v_id, nextvnodeid, again, local, panicked>>

-----------------------------------------------------------------------------
(* References *)

\* A vnode with no references must be on the list it is removed from.
vget(p, v, f, id) ==
  /\ vpid' = [vpid EXCEPT ![p] = id]
  /\ UNCHANGED <<deadb, ident, names, active>>
  /\ \/ /\ VXLOCK[v]
        /\ SleepOn(v) /\ Goto(p, "vget", v, f)
        /\ UNCHANGED <<v_usecount, freelist, v_lock, panicked>>
     \/ /\ ~VXLOCK[v]
        /\ panicked' = (panicked \/ (v_usecount[v] = 0 /\ ~OnFreelist(v)))
        /\ freelist' = IF v_usecount[v] = 0 THEN TAILQ_REMOVE(freelist, v) ELSE freelist
        /\ v_usecount' = [v_usecount EXCEPT ![v] = @ + 1]
        /\ IF Free(v) THEN VOP_LOCK(p, v) /\ Goto(p, "locked", v, f)
           ELSE Goto(p, "vgetlock", v, f) /\ UNCHANGED v_lock
        /\ UNCHANGED flags

\* ufs_lookup: cache_lookup finds an entry that looks valid; then vget.
Lookup(p, e) ==
  /\ pc[p] = "idle" /\ e \in cache /\ LooksValid(e)
  /\ vget(p, e.vp, e.name, v_id[e.vp])

\* ilock returns to vget, whose caller looks whether the capability number has
\* changed, to vn_lock or to vrele.
LockGranted(p) ==
  /\ pc[p] \in LockWaits /\ v_lock[vp[p]] = None
  /\ v_lock' = [v_lock EXCEPT ![vp[p]] = p]
  /\ Stay(p, CASE pc[p] = "iolock" -> "io"
                [] pc[p] = "relelock" -> "inactive"
                [] pc[p] = "vgetlock" -> IF vpid[p] = v_id[vp[p]] THEN "locked" ELSE "iput")
  /\ UNCHANGED <<counts, flags, ident, names, vpid, active, panicked>>

\* The vnode leaves the state in which it was locked for its finder.
Unlock(p) ==
  /\ pc[p] \in {"locked", "io"}
  /\ VOP_UNLOCK(vp[p])
  /\ Stay(p, "ref") /\ vpid' = [vpid EXCEPT ![p] = None]
  /\ UNCHANGED <<counts, flags, ident, names, active, panicked>>

\* vref, for a process that gets the file from p.
vref(p, q) ==
  /\ pc[p] = "ref" /\ pc[q] = "idle"
  /\ panicked' = (panicked \/ v_usecount[vp[p]] <= 0)
  /\ v_usecount' = [v_usecount EXCEPT ![vp[p]] = @ + 1]
  /\ Goto(q, "ref", vp[p], want[p])
  /\ UNCHANGED <<freelist, deadb, flags, ident, v_lock, names, vpid, active>>

\* vn_lock with LK_RETRY: asleep while VXLOCK, then the same again.
vn_lock(p) ==
  /\ pc[p] = "ref"
  /\ IF VXLOCK[vp[p]] THEN SleepOn(vp[p]) /\ Stay(p, "vn_lock") /\ UNCHANGED v_lock
     ELSE /\ IF Free(vp[p]) THEN VOP_LOCK(p, vp[p]) /\ Stay(p, "io")
             ELSE Stay(p, "iolock") /\ UNCHANGED v_lock
          /\ UNCHANGED flags
  /\ UNCHANGED <<counts, ident, names, vpid, active, panicked>>

\* A reference is gone; with the last one the vnode is last on the free list.
Release(v) ==
  /\ v_usecount' = [v_usecount EXCEPT ![v] = @ - 1]
  /\ freelist' = IF v_usecount[v] = 1 THEN TAILQ_INSERT_TAIL(freelist, v) ELSE freelist
  /\ deadb' = IF v_usecount[v] = 1 THEN [deadb EXCEPT ![v] = FALSE] ELSE deadb

\* VOP_INACTIVE is called with the lock; a dead vnode has nothing to do.
vput(p) ==
  LET v == vp[p] IN
  /\ pc[p] \in {"locked", "io"}
  /\ Release(v)
  /\ IF v_usecount[v] > 1 \/ Dead(v) THEN VOP_UNLOCK(v) /\ Done(p)
     ELSE Stay(p, "inactive") /\ UNCHANGED <<v_lock, vpid>>
  /\ UNCHANGED <<flags, ident, names, active, panicked>>

\* lock: v_lock as vrele finds it.  The last reference found VXLOCK or the lock held: no
\* run gets there but through vclean's own vrele (SelfRele), since who gets a reference
\* while the vnode is locked waits for the lock.
vrele(p, lock) ==
  LET v == vp[p] IN
  /\ Release(v)
  /\ IF v_usecount[v] > 1 \/ (Dead(v) /\ ~VXLOCK[v])
     THEN Done(p) /\ v_lock' = lock /\ UNCHANGED flags
     ELSE IF VXLOCK[v] THEN SleepOn(v) /\ Stay(p, "vrele") /\ v_lock' = lock /\ UNCHANGED vpid
     ELSE /\ IF lock[v] = None THEN v_lock' = [lock EXCEPT ![v] = p] /\ Stay(p, "inactive")
             ELSE v_lock' = lock /\ Stay(p, "relelock")
          /\ UNCHANGED <<flags, vpid>>
  /\ UNCHANGED <<ident, names, active, panicked>>

Vrele(p) == pc[p] = "ref" /\ vrele(p, v_lock)

\* The capability number had changed: IUNLOCK and vrele.
iput(p) == pc[p] = "iput" /\ vrele(p, [v_lock EXCEPT ![vp[p]] = None])

-----------------------------------------------------------------------------
(* Cleaning *)

\* Mutant: vclean takes no reference of its own.
vgonelNoRef(p, v, f) ==
  IF VXLOCK[v]
  THEN /\ SleepOn(v) /\ Goto(p, IF f = None THEN "vgone" ELSE "newgone", v, f)
       /\ UNCHANGED <<v_usecount, active>>
  ELSE /\ active' = [active EXCEPT ![p] = v_usecount[v] > 0]
       /\ UNCHANGED v_usecount
       /\ VXLOCK' = [VXLOCK EXCEPT ![v] = TRUE] /\ UNCHANGED VXWANT
       /\ Goto(p, "drain", v, f)

\* vgonel as far as vclean's VOP_LOCK, for getnewvnode if f is a file.
vgonel(p, v, f) ==
  IF VXLOCK[v]
  THEN /\ SleepOn(v) /\ Goto(p, IF f = None THEN "vgone" ELSE "newgone", v, f)
       /\ UNCHANGED <<v_usecount, active>>
  ELSE /\ active' = [active EXCEPT ![p] = v_usecount[v] > 0]
       /\ v_usecount' = [v_usecount EXCEPT ![v] = IF @ > 0 THEN @ + 1 ELSE 0]
       /\ VXLOCK' = [VXLOCK EXCEPT ![v] = TRUE] /\ UNCHANGED VXWANT
       /\ Goto(p, "drain", v, f)

\* A removed file's vnode, if nobody has it again.
vrecycle(p, v) == v_usecount[v] = 0 /\ vgonel(p, v, None)

\* The end of VOP_INACTIVE, which gives up the lock.
Inactive(p) ==
  /\ pc[p] = "inactive"
  /\ VOP_UNLOCK(vp[p])
  /\ \/ Done(p) /\ UNCHANGED <<v_usecount, flags, active>>
     \/ vrecycle(p, vp[p]) /\ vpid' = [vpid EXCEPT ![p] = None]
  /\ UNCHANGED <<freelist, deadb, ident, names, panicked>>

\* vflush, and vgone of a vnode in use (FORCECLOSE, revoke): any vnode of a file system,
\* on whose list it stays until the end of vgonel.
vflush(p, v) ==
  /\ pc[p] = "idle" /\ v_type[v] = "VNON"
  /\ vgonel(p, v, None)
  /\ UNCHANGED <<freelist, deadb, ident, v_lock, names, vpid, panicked>>

\* vclean has the lock: ufs_lock takes no flags, so that LK_DRAIN is an exclusive lock
\* like others and does not wait for those who wait.
Drained(p) ==
  /\ pc[p] = "drain" /\ v_lock[vp[p]] = None
  /\ VOP_LOCK(p, vp[p])
  /\ Stay(p, "clean")
  /\ UNCHANGED <<counts, flags, ident, names, vpid, active, panicked>>

\* Mutant: the file system leaves the purge to the end of vclean.
ReclaimUnpurged(p) ==
  /\ pc[p] = "clean"
  /\ VOP_UNLOCK(vp[p])
  /\ v_data' = [v_data EXCEPT ![vp[p]] = None]
  /\ Stay(p, "reclaim")
  /\ UNCHANGED <<counts, flags, v_type, names, vpid, active, panicked>>

\* The lock is given up, by VOP_INACTIVE or VOP_UNLOCK, and ufs_reclaim forgets the file
\* and purges it from the cache before anybody else runs.
Reclaim(p) ==
  /\ pc[p] = "clean"
  /\ VOP_UNLOCK(vp[p])
  /\ v_data' = [v_data EXCEPT ![vp[p]] = None]
  /\ cache_purge(vp[p])
  /\ Stay(p, "reclaim")
  /\ UNCHANGED <<counts, flags, v_type, vpid, active, panicked>>

\* The others went away meanwhile: vclean's vrele is the last, and its vn_lock sleeps
\* until this very vclean is over.
SelfRele(p) ==
  LET v == vp[p] IN
  /\ pc[p] = "reclaim" /\ active[p] /\ v_usecount[v] = 1
  /\ Release(v)
  /\ SleepOn(v) /\ Stay(p, "selfrele")
  /\ UNCHANGED <<ident, v_lock, names, vpid, active, panicked>>

\* wakeup(vp): the sleepers return with an error, vn_lock looks again, and
\* getnewvnode goes on.
WokenPc(q) == CASE pc[q] = "vn_lock" -> "ref"
                [] pc[q] = "newgone" -> "newvnode"
                [] pc[q] = "selfrele" -> "selfrele"
                [] OTHER -> "idle"

Wakes(v) == {q \in Procs : VXWANT[v] /\ pc[q] \in SleepsOnVnode /\ vp[q] = v}

\* Mutant: the back pointer is not looked at.
ToHeadAlways(v) == IF v_usecount'[v] = 0 THEN TAILQ_INSERT_HEAD(TAILQ_REMOVE(freelist, v), v) ELSE freelist

\* The head of the free list, unless getnewvnode has the vnode.
ToHead(v) == IF v_usecount'[v] = 0 /\ ~deadb[v] THEN TAILQ_INSERT_HEAD(TAILQ_REMOVE(freelist, v), v)
             ELSE freelist

\* The rest of vclean and of vgonel.
Cleaned(p) ==
  LET v == vp[p] IN
  /\ pc[p] = "reclaim" /\ ~(active[p] /\ v_usecount[v] = 1)
  /\ v_usecount' = [v_usecount EXCEPT ![v] = IF active[p] THEN @ - 1 ELSE @]
  /\ cache_purge(v)
  /\ VXLOCK' = [VXLOCK EXCEPT ![v] = FALSE] /\ VXWANT' = [VXWANT EXCEPT ![v] = FALSE]
  /\ pc' = [q \in Procs |-> IF q = p THEN IF want[p] = None THEN "idle" ELSE "newvnode"
                            ELSE IF q \in Wakes(v) THEN WokenPc(q) ELSE pc[q]]
  /\ vp' = [q \in Procs |-> IF pc'[q] = "idle" THEN None ELSE vp[q]]
  /\ want' = [q \in Procs |-> IF pc'[q] = "idle" THEN None ELSE want[q]]
  /\ vpid' = [q \in Procs |-> IF pc'[q] = "idle" THEN None ELSE vpid[q]]
  /\ active' = [active EXCEPT ![p] = FALSE]
  /\ freelist' = ToHead(v)
  /\ v_type' = [v_type EXCEPT ![v] = "VBAD"]
  /\ UNCHANGED <<deadb, v_data, v_lock, panicked>>

-----------------------------------------------------------------------------
(* getnewvnode, for iget *)

\* The vnode is p's, with one reference; iget locks it and enters it in its table.
NewVnode(p, v, f) ==
  /\ VXLOCK' = [VXLOCK EXCEPT ![v] = FALSE] /\ VXWANT' = [VXWANT EXCEPT ![v] = FALSE]
  /\ v_type' = [v_type EXCEPT ![v] = "VNON"]
  /\ cache_purge(v)
  /\ v_usecount' = [v_usecount EXCEPT ![v] = 1]
  /\ v_data' = [v_data EXCEPT ![v] = f]
  /\ v_lock' = [v_lock EXCEPT ![v] = p]
  /\ Goto(p, "locked", v, f)

\* The first of the free list whose simple_lock_try succeeds: it may be any.
Take(p, v, f) ==
  /\ v \in ToSet(freelist)
  /\ panicked' = (panicked \/ v_usecount[v] # 0)
  /\ freelist' = TAILQ_REMOVE(freelist, v)
  /\ deadb' = [deadb EXCEPT ![v] = TRUE]
  /\ IF Dead(v) THEN NewVnode(p, v, f) /\ UNCHANGED active
     ELSE vgonel(p, v, f) /\ UNCHANGED <<ident, v_lock, names>>

getnewvnode(p, f) ==
  /\ UNCHANGED vpid
  /\ IF (freelist = <<>> /\ numvnodes < 2 * desiredvnodes) \/ numvnodes < desiredvnodes
     THEN /\ \E v \in Vnodes : v_type[v] = "none" /\ NewVnode(p, v, f)
          /\ UNCHANGED <<freelist, deadb, active, panicked>>
     ELSE \/ \E v \in Vnodes : Take(p, v, f)
          \/ UNCHANGED <<counts, flags, ident, v_lock, names, pc, vp, want, active, panicked>>    \* ENFILE

\* Cleaned, by p itself or by the process it found at it.
TakeCleaned(p) ==
  /\ pc[p] = "newvnode"
  /\ NewVnode(p, vp[p], want[p])
  /\ UNCHANGED <<freelist, deadb, vpid, active, panicked>>

\* iget: the vnode of the file once it is not locked, or a new one.
Iget(p, f) ==
  /\ pc[p] = "idle"
  /\ \/ \E v \in Vnodes : v_data[v] = f /\ Free(v) /\ vget(p, v, f, None)
     \/ (\A v \in Vnodes : v_data[v] # f) /\ getnewvnode(p, f)

-----------------------------------------------------------------------------
User(p) == \/ \E e \in cache : Lookup(p, e)
           \/ \E f \in Files : Iget(p, f)
           \/ LockGranted(p) \/ Unlock(p) \/ vn_lock(p)
           \/ vput(p) \/ Vrele(p) \/ iput(p) \/ Inactive(p)
           \/ cache_enter(p)
           \/ \E q \in Procs : vref(p, q)

Cleaner(p) == \/ \E v \in Vnodes : vflush(p, v)
              \/ Drained(p) \/ Reclaim(p) \/ SelfRele(p) \/ Cleaned(p) \/ TakeCleaned(p)

\* Bound: a behaviour is followed until a v_id comes again for somebody who knew it.  With
\* IdMod = 2^32 that is 2^32 purges within the life of one entry or one wait; from there
\* on the code may hand out anything.
Next == /\ ~again
        /\ \/ \E p \in Procs : User(p) \/ Cleaner(p)
           \/ \E e \in cache : PurgeEntry(e)

Spec == Init /\ [][Next]_vars

-----------------------------------------------------------------------------
(* Properties *)

\* The variables keep their types.
TypeOK ==
  /\ v_usecount \in [Vnodes -> Nat]
  /\ VXLOCK \in [Vnodes -> BOOLEAN] /\ VXWANT \in [Vnodes -> BOOLEAN]
  /\ v_type \in [Vnodes -> {"none", "VNON", "VBAD"}]
  /\ v_data \in [Vnodes -> Files \cup {None}]
  /\ v_lock \in [Vnodes -> Procs \cup {None}]
  /\ v_id \in [Vnodes -> 0 .. IdMod - 1]
  /\ nextvnodeid \in 0 .. IdMod - 1
  /\ pc \in [Procs -> Pcs]
  /\ vp \in [Procs -> Vnodes \cup {None}]
  /\ panicked \in BOOLEAN

\* getnewvnode has taken the vnode and not yet given it a reference.
Taken(v) == \E p \in Procs : /\ vp[p] = v /\ want[p] # None
                             /\ pc[p] \in Cleaning \cup {"newgone", "newvnode"}

\* No panic, and vget never removes a vnode from a free list it is not on: an unused
\* vnode is on the list once, or one getnewvnode has it, even while it is cleaned.
FreeListExact ==
  /\ ~panicked
  /\ \A i, j \in DOMAIN freelist : freelist[i] = freelist[j] => i = j
  /\ \A v \in Vnodes :
       OnFreelist(v) <=> v_type[v] # "none" /\ v_usecount[v] = 0 /\ ~Taken(v)

\* What vget hands out, locked, is the file that was looked up, although vget may have
\* waited for the lock while others cleaned the vnode: nobody drains the lock, and only
\* the capability number tells.
VgetIsRight == \A p \in Procs : pc[p] = "locked" =>
                 v_lock[vp[p]] = p /\ v_data[vp[p]] = want[p]

\* A vnode with a reference may be revoked but never stands for another file, and
\* VOP_INACTIVE works on the file it was called for.
RefKeepsFile == \A p \in Procs :
  /\ pc[p] \in {"ref", "io", "vn_lock"} \cup LockWaits => v_data[vp[p]] \in {want[p], None}
  /\ pc[p] = "inactive" => v_data[vp[p]] = want[p]

\* An entry that looks valid to cache_lookup names the file it was entered for, until a
\* v_id from before the wraparound comes again.
CacheIsRight == ~again => \A e \in cache : LooksValid(e) => v_data[e.vp] = e.name

\* Whoever sleeps for VXLOCK is woken by a cleaner at work, or the cleaner sleeps in
\* its own vrele for itself, all other references being gone.
CleanerWakes ==
  \A p \in Procs : pc[p] \in SleepsOnVnode =>
    /\ VXLOCK[vp[p]] /\ VXWANT[vp[p]]
    /\ \E c \in Procs : /\ vp[c] = vp[p]
                        /\ pc[c] \in Cleaning \/ (pc[c] = "selfrele" /\ v_usecount[vp[c]] = 0)
=============================================================================
