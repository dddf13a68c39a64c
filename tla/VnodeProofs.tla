---------------------------- MODULE VnodeProofs ----------------------------
(***************************************************************************)
(* Proofs about Vnode, for any number of vnodes, processes and files.      *)
(***************************************************************************)
EXTENDS Vnode, TailQProofs, FiniteSetTheorems, TLAPS

RefPcs == {"locked", "ref", "io", "iput", "vn_lock", "vgetlock", "iolock"}

\* p holds a reference to v; so does the cleaner of a vnode in use.
IsRef(p, v) == vp[p] = v /\ (pc[p] \in RefPcs \/ (pc[p] \in Cleaning /\ active[p]))
Refs(v) == {p \in Procs : IsRef(p, v)}

\* p cleans v.
Cleans(p, v) == vp[p] = v /\ pc[p] \in Cleaning \cup {"selfrele"}

\* getnewvnode of p has v.
Takes(p, v) == /\ vp[p] = v /\ want[p] # None
               /\ pc[p] \in Cleaning \cup {"newgone", "newvnode"}

CacheEntry == [name : Files, vp : Vnodes, vpid : 0 .. IdMod - 1, older : BOOLEAN]

\* ufs_lookup's vpid.
Ids == (0 .. IdMod - 1) \cup {None}

Types == /\ TypeOK
         /\ deadb \in [Vnodes -> BOOLEAN] /\ active \in [Procs -> BOOLEAN]
         /\ want \in [Procs -> Files \cup {None}] /\ vpid \in [Procs -> Ids]
         /\ IsTailQ(freelist, Vnodes)
         /\ cache \subseteq CacheEntry

\* A busy process works on a vnode, for a file unless it flushes; vrele never finds the
\* vnode of its last reference locked or being cleaned.
Works == \A p \in Procs :
  /\ pc[p] = "idle" <=> vp[p] = None
  /\ pc[p] \in RefPcs \cup {"inactive", "newgone", "newvnode"} => want[p] \in Files
  /\ pc[p] \notin {"relelock", "vrele"}

\* What is known by its v_id is still what it was: a cache entry that looks valid, and the
\* vnode whose lock a lookup waits for.
CacheOK ==
  /\ \A e \in cache : /\ ~e.older => e.vpid <= nextvnodeid
                      /\ ~again /\ LooksValid(e) => v_data[e.vp] = e.name
  /\ \A p \in Procs : ~again /\ pc[p] = "vgetlock" /\ vpid[p] = v_id[vp[p]]
                        => v_data[vp[p]] = want[p]

(* The rest of the invariant is about one vnode and the processes at it. *)

TypeAt(v) == /\ v_type[v] # "VNON" => v_data[v] = None /\ ~VXLOCK[v]
             /\ v_type[v] = "VNON" /\ ~VXLOCK[v] => v_data[v] \in Files
             /\ \A p \in Procs : vp[p] = v => v_type[v] # "none"

CountAt(v) == v_usecount[v] = Cardinality(Refs(v))

\* VXLOCK is set exactly by the one cleaner, and whoever sleeps for it is known to it.
CleanAt(v) == /\ VXLOCK[v] <=> \E p \in Procs : Cleans(p, v)
              /\ \A p, q \in Procs : Cleans(p, v) /\ Cleans(q, v) => p = q
              /\ \A p \in Procs : vp[p] = v /\ pc[p] \in SleepsOnVnode => VXLOCK[v] /\ VXWANT[v]

\* The lock of a dead vnode may be left behind by one who waited for it.
LockAt(v) ==
  /\ v_lock[v] # None /\ ~Dead(v) =>
       /\ vp[v_lock[v]] = v
       /\ pc[v_lock[v]] \in {"locked", "io", "iput", "inactive", "clean"}
  /\ \A p \in Procs : vp[p] = v =>
       /\ pc[p] \in {"locked", "iput", "inactive", "clean"} => v_lock[v] = p
       /\ pc[p] = "io" => v_lock[v] = p \/ Dead(v)

\* Past VOP_RECLAIM the file is gone, although others may still wait for the lock.
ReclaimedAt(v) == \A p \in Procs : vp[p] = v /\ pc[p] \in {"reclaim", "selfrele"} => v_data[v] = None

DataAt(v) == \A p \in Procs : vp[p] = v =>
  /\ pc[p] \in {"locked", "inactive"} => v_data[v] = want[p]
  /\ pc[p] \in RefPcs => v_data[v] \in {want[p], None}

\* Who gets a reference while VOP_INACTIVE runs waits for the lock; a cleaner that took
\* no reference, or lost it, is the only one there; and so is getnewvnode.
AloneAt(v) == \A p, q \in Procs : vp[p] = v /\ IsRef(q, v) =>
  /\ pc[p] = "inactive" => pc[q] = "vgetlock" \/ pc[q] \in Cleaning
  /\ pc[p] \in Cleaning => active[p]
  /\ pc[p] # "selfrele" /\ ~Takes(p, v)

TakerAt(v) == /\ \A p \in Procs : Takes(p, v) => deadb[v]
              /\ \A p, q \in Procs : Takes(p, v) /\ Takes(q, v) => p = q
              /\ \A p \in Procs : vp[p] = v /\ pc[p] = "newvnode" => Dead(v)

\* The free list has what is neither referenced nor taken.
ListedAt(v) ==
  /\ v \in ToSet(freelist) => /\ v_type[v] # "none" /\ ~deadb[v]
                              /\ \A q \in Procs : ~IsRef(q, v) /\ ~Takes(q, v)
  /\ v_type[v] # "none" => v \in ToSet(freelist) \/ \E q \in Procs : IsRef(q, v) \/ Takes(q, v)

Good(v) == /\ TypeAt(v) /\ CountAt(v) /\ CleanAt(v) /\ LockAt(v) /\ ReclaimedAt(v) /\ DataAt(v)
           /\ AloneAt(v) /\ TakerAt(v) /\ ListedAt(v)

Inv == Types /\ Works /\ CacheOK /\ ~panicked /\ \A v \in Vnodes : Good(v)

-----------------------------------------------------------------------------
(* A step is at one vnode *)

Same(q) == /\ pc'[q] = pc[q] /\ vp'[q] = vp[q] /\ want'[q] = want[q]
           /\ active'[q] = active[q] /\ vpid'[q] = vpid[q]

\* Whoever does something is at v then and there, and the other vnodes stay as they are.
At(v) == /\ \A q \in Procs : Same(q) \/ (vp[q] \in {v, None} /\ vp'[q] \in {v, None})
         /\ \A u \in Vnodes \ {v} :
              /\ v_usecount'[u] = v_usecount[u] /\ v_type'[u] = v_type[u]
              /\ VXLOCK'[u] = VXLOCK[u] /\ VXWANT'[u] = VXWANT[u]
              /\ v_data'[u] = v_data[u] /\ v_lock'[u] = v_lock[u] /\ deadb'[u] = deadb[u]
              /\ u \in ToSet(freelist') <=> u \in ToSet(freelist)

\* A step at one vnode leaves the others as they were.
LEMMA Elsewhere ==
  ASSUME Inv, NEW v, At(v), NEW u \in Vnodes, u # v
  PROVE  Good(u)'
  <1>0. /\ v_usecount'[u] = v_usecount[u] /\ v_type'[u] = v_type[u]
        /\ VXLOCK'[u] = VXLOCK[u] /\ VXWANT'[u] = VXWANT[u]
        /\ v_data'[u] = v_data[u] /\ v_lock'[u] = v_lock[u] /\ deadb'[u] = deadb[u]
        /\ u \in ToSet(freelist') <=> u \in ToSet(freelist)
    BY DEF At
  <1>1. \A q \in Procs : /\ vp'[q] = u <=> vp[q] = u
                         /\ vp[q] = u => Same(q)
    BY VnodeConstants DEF At, Same
  <1>2. \A q \in Procs : /\ IsRef(q, u)' <=> IsRef(q, u)
                         /\ IsRef(q, u) => vp[q] = u
                         /\ Cleans(q, u)' <=> Cleans(q, u)
                         /\ Takes(q, u)' <=> Takes(q, u)
    BY <1>1 DEF Same, IsRef, Cleans, Takes
  <1>3. v_lock[u] # None => v_lock[u] \in Procs
    BY DEF Inv, Types, TypeOK
  <1>4. Good(u)
    BY DEF Inv
  <1>5. TypeAt(u)'
    BY <1>0, <1>1, <1>4 DEF Good, TypeAt
  <1>6. CountAt(u)'
    <2>1. Refs(u)' = Refs(u)
      BY <1>2 DEF Refs
    <2> QED  BY <1>0, <1>4, <2>1 DEF Good, CountAt
  <1>7. CleanAt(u)'
    BY <1>0, <1>1, <1>2, <1>4 DEF Good, CleanAt, Same
  <1>8. LockAt(u)'
    BY <1>0, <1>1, <1>3, <1>4 DEF Good, LockAt, Same, Dead
  <1>9. ReclaimedAt(u)'
    BY <1>0, <1>1, <1>4 DEF Good, ReclaimedAt, Same
  <1>10. DataAt(u)'
    BY <1>0, <1>1, <1>4 DEF Good, DataAt, Same, Dead
  <1>11. AloneAt(u)'
    BY <1>0, <1>1, <1>2, <1>4 DEF Good, AloneAt, Same, Cleaning
  <1>12. TakerAt(u)'
    BY <1>0, <1>1, <1>2, <1>4 DEF Good, TakerAt, Same, Dead
  <1>13. ListedAt(u)'
    BY <1>0, <1>2, <1>4 DEF Good, ListedAt
  <1> QED  BY <1>5, <1>6, <1>7, <1>8, <1>9, <1>10, <1>11, <1>12, <1>13 DEF Good

-----------------------------------------------------------------------------
(* Reference counts *)

\* The processes that hold a reference are finitely many.
LEMMA RefsFinite ==
  ASSUME NEW v
  PROVE  IsFiniteSet(Refs(v)) /\ Cardinality(Refs(v)) \in Nat
  BY VnodeConstants, FS_Subset, FS_CardinalityType DEF Refs

\* v_usecount 0 means no holder.
LEMMA NoRefs ==
  ASSUME NEW v \in Vnodes, CountAt(v)
  PROVE  v_usecount[v] = 0 <=> \A q \in Procs : ~IsRef(q, v)
  BY RefsFinite, FS_EmptySet DEF CountAt, Refs

\* v_usecount 1 means one holder.
LEMMA LastRef ==
  ASSUME NEW v \in Vnodes, CountAt(v), NEW p \in Procs, IsRef(p, v)
  PROVE  /\ v_usecount[v] \in Nat /\ v_usecount[v] > 0
         /\ v_usecount[v] = 1 <=> \A q \in Procs : IsRef(q, v) => q = p
  <1>1. IsFiniteSet(Refs(v)) /\ p \in Refs(v) /\ v_usecount[v] = Cardinality(Refs(v))
    BY RefsFinite DEF CountAt, Refs
  <1>2. /\ IsFiniteSet(Refs(v) \ {p}) /\ Cardinality(Refs(v) \ {p}) = Cardinality(Refs(v)) - 1
        /\ Cardinality(Refs(v)) \in Nat
    BY <1>1, FS_RemoveElement, RefsFinite
  <1>3. Cardinality(Refs(v) \ {p}) \in Nat /\ (Cardinality(Refs(v) \ {p}) = 0 <=> Refs(v) \ {p} = {})
    BY <1>2, FS_EmptySet, FS_CardinalityType
  <1>4. Refs(v) \ {p} = {} <=> \A q \in Procs : IsRef(q, v) => q = p
    BY DEF Refs
  <1> QED  BY <1>1, <1>2, <1>3, <1>4

\* The count of a set that does not change.
LEMMA CountSame ==
  ASSUME NEW v \in Vnodes, CountAt(v), v_usecount'[v] = v_usecount[v],
         \A q \in Procs : IsRef(q, v)' <=> IsRef(q, v)
  PROVE  CountAt(v)'
  <1>1. Refs(v)' = Refs(v)
    BY DEF Refs
  <1> QED  BY <1>1 DEF CountAt

\* One holder more.
LEMMA CountMore ==
  ASSUME NEW v \in Vnodes, CountAt(v), NEW p \in Procs, ~IsRef(p, v), IsRef(p, v)',
         v_usecount'[v] = v_usecount[v] + 1,
         \A q \in Procs \ {p} : IsRef(q, v)' <=> IsRef(q, v)
  PROVE  CountAt(v)'
  <1>1. Refs(v)' = Refs(v) \cup {p} /\ p \notin Refs(v)
    BY DEF Refs
  <1>2. Cardinality(Refs(v) \cup {p}) = Cardinality(Refs(v)) + 1
    BY <1>1, RefsFinite, FS_AddElement
  <1> QED  BY <1>1, <1>2 DEF CountAt

\* One holder less.
LEMMA CountLess ==
  ASSUME NEW v \in Vnodes, CountAt(v), NEW p \in Procs, IsRef(p, v), ~IsRef(p, v)',
         v_usecount'[v] = v_usecount[v] - 1,
         \A q \in Procs \ {p} : IsRef(q, v)' <=> IsRef(q, v)
  PROVE  CountAt(v)'
  <1>1. Refs(v)' = Refs(v) \ {p} /\ p \in Refs(v)
    BY DEF Refs
  <1>2. Cardinality(Refs(v) \ {p}) = Cardinality(Refs(v)) - 1
    BY <1>1, RefsFinite, FS_RemoveElement
  <1> QED  BY <1>1, <1>2 DEF CountAt

-----------------------------------------------------------------------------
(* The name cache *)

\* q waits in vget as before.
StillWaits(q) == /\ pc[q] = "vgetlock" /\ vp'[q] = vp[q] /\ want'[q] = want[q]
                 /\ vpid'[q] = vpid[q]

\* Nobody starts to wait in vget for a vnode of another file.
RightWaits == \A q \in Procs : pc'[q] = "vgetlock" => StillWaits(q) \/ v_data'[vp'[q]] = want'[q]

\* What is known by its v_id stays right while v_ids and files stay.
LEMMA CacheSame ==
  ASSUME Inv, UNCHANGED names, \A u \in Vnodes : v_data'[u] = v_data[u], RightWaits
  PROVE  CacheOK'
  <1>1. \A e \in cache : e.vp \in Vnodes
    BY DEF Inv, Types, CacheEntry
  <1>2. \A q \in Procs : pc[q] = "vgetlock" => vp[q] \in Vnodes
    BY DEF Inv, Works, Types, TypeOK
  <1>3. CacheOK /\ v_id' = v_id /\ nextvnodeid' = nextvnodeid /\ cache' = cache /\ again' = again
    BY DEF Inv, names
  <1>4. \A e \in cache' : /\ ~e.older => e.vpid <= nextvnodeid'
                          /\ ~again' /\ e.vpid = v_id'[e.vp] => v_data'[e.vp] = e.name
    BY <1>1, <1>3 DEF CacheOK, LooksValid
  <1>5. \A q \in Procs : ~again' /\ pc'[q] = "vgetlock" /\ vpid'[q] = v_id'[vp'[q]]
                            => v_data'[vp'[q]] = want'[q]
    BY <1>2, <1>3 DEF CacheOK, RightWaits, StillWaits
  <1> QED  BY <1>4, <1>5 DEF CacheOK, LooksValid

\* After cache_purge nothing is known by the v_id of the vnode, or a v_id has come again.
LEMMA CachePurged ==
  ASSUME Inv, ~again, NEW v \in Vnodes, cache_purge(v),
         \A u \in Vnodes \ {v} : v_data'[u] = v_data[u],
         \A q \in Procs : pc'[q] = "vgetlock" => StillWaits(q)
  PROVE  /\ CacheOK' /\ cache' \subseteq CacheEntry
         /\ v_id' \in [Vnodes -> 0 .. IdMod - 1] /\ nextvnodeid' \in 0 .. IdMod - 1
  <1>1. /\ nextvnodeid \in 0 .. IdMod - 1 /\ v_id \in [Vnodes -> 0 .. IdMod - 1]
        /\ IdMod \in Nat /\ 2 < IdMod
        /\ cache \subseteq CacheEntry /\ CacheOK
    BY VnodeConstants DEF Inv, Types, TypeOK
  <1>2. \A e \in cache : e.vp \in Vnodes /\ e.vpid \in 0 .. IdMod - 1
    BY <1>1 DEF CacheEntry
  <1>3. NextId \in 1 .. IdMod - 1
    BY <1>1 DEF NextId
  <1>4. /\ v_id'[v] = NextId /\ nextvnodeid' = NextId /\ cache' = KeptCache
        /\ \A u \in Vnodes \ {v} : v_id'[u] = v_id[u]
        /\ v_id' \in [Vnodes -> 0 .. IdMod - 1] /\ nextvnodeid' \in 0 .. IdMod - 1
    BY <1>1, <1>3 DEF cache_purge
  <1>5. /\ ~again' => \A e \in KeptCache : ~(e.older /\ e.vp = v /\ e.vpid = NextId)
        /\ ~again' => \A q \in Procs : ~(pc[q] = "vgetlock" /\ vp[q] = v /\ vpid[q] = NextId)
    <2>1. ~again' => ~Recurs(v)
      BY Zenon DEF cache_purge
    <2> QED  BY <2>1 DEF Recurs
  <1>6. \A e \in cache' : /\ ~e.older => e.vpid <= nextvnodeid'
                          /\ ~again' /\ e.vpid = v_id'[e.vp] => v_data'[e.vp] = e.name
    <2>1. CASE nextvnodeid + 1 = IdMod
      BY <1>4, <2>1 DEF KeptCache
    <2>2. CASE nextvnodeid + 1 # IdMod
      <3>1. NextId = nextvnodeid + 1 /\ KeptCache = cache
        BY <2>2 DEF NextId, KeptCache
      <3> QED  BY <1>1, <1>2, <1>4, <1>5, <3>1 DEF CacheOK, LooksValid
    <2> QED  BY <2>1, <2>2
  <1>7. \A q \in Procs : ~again' /\ pc'[q] = "vgetlock" /\ vpid'[q] = v_id'[vp'[q]]
                            => v_data'[vp'[q]] = want'[q]
    <2>1. \A q \in Procs : pc[q] = "vgetlock" => vp[q] \in Vnodes
      BY DEF Inv, Works, Types, TypeOK
    <2> QED  BY <1>1, <1>4, <1>5, <2>1 DEF CacheOK, StillWaits
  <1>8. cache' \subseteq CacheEntry
    BY <1>1, <1>4 DEF KeptCache
  <1> QED  BY <1>4, <1>6, <1>7, <1>8 DEF CacheOK, LooksValid

-----------------------------------------------------------------------------
(* The steps *)

\* None is no v_id, but may stand for one.
LEMMA NoneId == None \in Ids
  BY DEF Ids

\* What p does leaves the others as they are.
Moves(p) == \A q \in Procs \ {p} : Same(q)

\* A step of p changes nobody else's reference, cleaning or taking of a vnode.
LEMMA Beside ==
  ASSUME NEW p, Moves(p), NEW v
  PROVE  \A q \in Procs \ {p} : /\ IsRef(q, v)' <=> IsRef(q, v)
                                /\ Cleans(q, v)' <=> Cleans(q, v)
                                /\ Takes(q, v)' <=> Takes(q, v)
  BY DEF Moves, Same, IsRef, Cleans, Takes

\* A lock granted.
LEMMA LockGrantedInv ==
  ASSUME Inv, ~again, NEW p \in Procs, LockGranted(p)
  PROVE  Inv'
  <1>0. PICK v \in Vnodes : v = vp[p]
    BY DEF Inv, Works, Types, TypeOK, LockGranted, LockWaits
  <1>1. /\ Good(v) /\ vp[p] = v /\ pc[p] \in {"vgetlock", "iolock"} /\ want[p] \in Files
        /\ IsRef(p, v)
    BY <1>0 DEF Inv, Works, LockGranted, LockWaits, RefPcs, IsRef
  <1>2. /\ v_lock[v] = None /\ v_data[v] \in {want[p], None} /\ v_type[v] # "none"
        /\ pc[p] = "vgetlock" /\ vpid[p] = v_id[v] => v_data[v] = want[p]
        /\ \A q \in Procs : vp[q] = v => pc[q] \notin {"locked", "iput", "inactive", "clean"}
    BY <1>1, VnodeConstants DEF Good, DataAt, TypeAt, LockAt, LockGranted, RefPcs, Inv, CacheOK
  <1>3. /\ pc'[p] \in {"io", "locked", "iput"} /\ (pc'[p] = "locked" => v_data[v] = want[p])
        /\ pc' \in [Procs -> Pcs]
        /\ vp' = vp /\ want' = want /\ vpid' \in [Procs -> Ids] /\ active' = active /\ Moves(p)
    BY <1>1, <1>2 DEF LockGranted, Stay, Moves, Same, Inv, Types, TypeOK, Pcs
  <1>4. /\ v_lock' \in [Vnodes -> Procs \cup {None}]
        /\ v_lock'[v] = p /\ \A u \in Vnodes \ {v} : v_lock'[u] = v_lock[u]
        /\ UNCHANGED <<v_usecount, freelist, deadb, VXLOCK, VXWANT, v_type, v_data>>
    BY <1>1 DEF LockGranted, Inv, Types, TypeOK, counts, flags, ident
  <1>5. At(v)
    BY <1>1, <1>3, <1>4 DEF At, Moves
  <1>6. /\ IsRef(p, v)' /\ ~Cleans(p, v) /\ ~Cleans(p, v)' /\ ~Takes(p, v) /\ ~Takes(p, v)'
        /\ \A q \in Procs \ {p} : /\ IsRef(q, v)' <=> IsRef(q, v)
                                  /\ Cleans(q, v)' <=> Cleans(q, v)
                                  /\ Takes(q, v)' <=> Takes(q, v)
    BY <1>1, <1>3, Beside DEF IsRef, Cleans, Takes, RefPcs, Cleaning
  <1>7. Types'
    BY <1>3, <1>4 DEF LockGranted, Inv, Types, TypeOK, names
  <1>8. Works'
    BY <1>1, <1>3 DEF Inv, Works, Moves, Same, RefPcs
  <1>9. CacheOK'
    <2>1. RightWaits
      BY <1>3, <1>4 DEF RightWaits, StillWaits, Moves, Same
    <2> QED  BY <1>4, <2>1, CacheSame DEF LockGranted
  <1>11. ~panicked'
    BY DEF LockGranted, Inv
  <1>10. Good(v)'
    <2>1. TypeAt(v)'
      BY <1>1, <1>2, <1>3, <1>4 DEF Good, TypeAt, Moves, Same
    <2>2. CountAt(v)'
      BY <1>1, <1>4, <1>6, CountSame DEF Good
    <2>3. CleanAt(v)'
      BY <1>1, <1>2, <1>3, <1>4, <1>6 DEF Good, CleanAt, Moves, Same, SleepsOnVnode
    <2>4. LockAt(v)'
      BY <1>1, <1>2, <1>3, <1>4, VnodeConstants DEF Good, LockAt, Moves, Same, Dead
    <2>5. ReclaimedAt(v)'
      BY <1>1, <1>2, <1>3, <1>4 DEF Good, ReclaimedAt, Moves, Same
    <2>6. DataAt(v)'
      BY <1>1, <1>2, <1>3, <1>4 DEF Good, DataAt, Moves, Same, RefPcs
    <2>7. AloneAt(v)'
      BY <1>1, <1>2, <1>3, <1>4, <1>6, VnodeConstants DEF Good, AloneAt, LockAt, Moves, Same,
         Cleaning
    <2>8. TakerAt(v)'
      BY <1>1, <1>2, <1>3, <1>4, <1>6 DEF Good, TakerAt, Moves, Same, Dead
    <2>9. ListedAt(v)'
      BY <1>1, <1>2, <1>3, <1>4, <1>6 DEF Good, ListedAt
    <2> QED  BY <2>1, <2>2, <2>3, <2>4, <2>5, <2>6, <2>7, <2>8, <2>9 DEF Good
  <1> QED  BY <1>5, <1>7, <1>8, <1>9, <1>10, <1>11, Elsewhere DEF Inv

\* A lock released.
LEMMA UnlockInv ==
  ASSUME Inv, ~again, NEW p \in Procs, Unlock(p)
  PROVE  Inv'
  <1>0. PICK v \in Vnodes : v = vp[p]
    BY DEF Inv, Works, Types, TypeOK, Unlock
  <1>1. /\ Good(v) /\ vp[p] = v /\ pc[p] \in {"locked", "io"} /\ want[p] \in Files
        /\ IsRef(p, v)
    BY <1>0 DEF Inv, Works, Unlock, RefPcs, IsRef
  <1>2. v_lock[v] = p \/ Dead(v)
    BY <1>1 DEF Good, LockAt
  <1>3. /\ pc'[p] = "ref" /\ pc' \in [Procs -> Pcs]
        /\ vp' = vp /\ want' = want /\ vpid' \in [Procs -> Ids] /\ active' = active /\ Moves(p)
    BY <1>1, NoneId DEF Unlock, Stay, Moves, Same, Inv, Types, TypeOK, Pcs
  <1>4. /\ v_lock' \in [Vnodes -> Procs \cup {None}]
        /\ v_lock'[v] = (IF Dead(v) THEN v_lock[v] ELSE None)
        /\ \A u \in Vnodes \ {v} : v_lock'[u] = v_lock[u]
        /\ UNCHANGED <<v_usecount, freelist, deadb, VXLOCK, VXWANT, v_type, v_data>>
    BY <1>1, <1>2, VnodeConstants DEF Unlock, VOP_UNLOCK, Inv, Types, TypeOK, counts, flags, ident
  <1>5. At(v)
    BY <1>1, <1>3, <1>4 DEF At, Moves
  <1>6. /\ IsRef(p, v)' /\ ~Cleans(p, v) /\ ~Cleans(p, v)' /\ ~Takes(p, v) /\ ~Takes(p, v)'
        /\ \A q \in Procs \ {p} : /\ IsRef(q, v)' <=> IsRef(q, v)
                                  /\ Cleans(q, v)' <=> Cleans(q, v)
                                  /\ Takes(q, v)' <=> Takes(q, v)
    BY <1>1, <1>3, Beside DEF IsRef, Cleans, Takes, RefPcs, Cleaning
  <1>7. Types'
    BY <1>3, <1>4 DEF Unlock, Inv, Types, TypeOK, names
  <1>8. Works'
    BY <1>1, <1>3 DEF Inv, Works, Moves, Same, RefPcs
  <1>9. CacheOK'
    <2>1. RightWaits
      BY <1>3, <1>4 DEF RightWaits, StillWaits, Moves, Same
    <2> QED  BY <1>4, <2>1, CacheSame DEF Unlock
  <1>11. ~panicked'
    BY DEF Unlock, Inv
  <1>10. Good(v)'
    <2>1. TypeAt(v)'
      BY <1>1, <1>2, <1>3, <1>4 DEF Good, TypeAt, Moves, Same
    <2>2. CountAt(v)'
      BY <1>1, <1>4, <1>6, CountSame DEF Good
    <2>3. CleanAt(v)'
      BY <1>1, <1>2, <1>3, <1>4, <1>6 DEF Good, CleanAt, Moves, Same, SleepsOnVnode
    <2>4. LockAt(v)'
      BY <1>1, <1>2, <1>3, <1>4, VnodeConstants DEF Good, LockAt, Moves, Same, Dead
    <2>5. ReclaimedAt(v)'
      BY <1>1, <1>2, <1>3, <1>4 DEF Good, ReclaimedAt, Moves, Same
    <2>6. DataAt(v)'
      BY <1>1, <1>2, <1>3, <1>4 DEF Good, DataAt, Moves, Same, RefPcs
    <2>7. AloneAt(v)'
      BY <1>1, <1>2, <1>3, <1>4, <1>6, VnodeConstants DEF Good, AloneAt, LockAt, Moves, Same,
         Cleaning
    <2>8. TakerAt(v)'
      BY <1>1, <1>2, <1>3, <1>4, <1>6 DEF Good, TakerAt, Moves, Same, Dead
    <2>9. ListedAt(v)'
      BY <1>1, <1>2, <1>3, <1>4, <1>6 DEF Good, ListedAt
    <2> QED  BY <2>1, <2>2, <2>3, <2>4, <2>5, <2>6, <2>7, <2>8, <2>9 DEF Good
  <1> QED  BY <1>5, <1>7, <1>8, <1>9, <1>10, <1>11, Elsewhere DEF Inv

\* A lock asked for.
LEMMA VnLockInv ==
  ASSUME Inv, ~again, NEW p \in Procs, vn_lock(p)
  PROVE  Inv'
  <1>0. PICK v \in Vnodes : v = vp[p]
    BY DEF Inv, Works, Types, TypeOK, vn_lock
  <1>1. /\ Good(v) /\ vp[p] = v /\ pc[p] = "ref" /\ want[p] \in Files
        /\ IsRef(p, v) /\ v_type[v] # "none"
    BY <1>0 DEF Inv, Works, vn_lock, RefPcs, IsRef, Good, TypeAt
  <1>2. /\ v_data[v] \in {want[p], None}
        /\ VXLOCK \in [Vnodes -> BOOLEAN] /\ v_type \in [Vnodes -> {"none", "VNON", "VBAD"}]
    BY <1>1 DEF Good, DataAt, RefPcs, Inv, Types, TypeOK
  <1>3. /\ pc' \in [Procs -> Pcs]
        /\ vp' = vp /\ want' = want /\ vpid' \in [Procs -> Ids] /\ active' = active /\ Moves(p)
        /\ \/ VXLOCK[v] /\ pc'[p] = "vn_lock"
           \/ ~VXLOCK[v] /\ Free(v) /\ pc'[p] = "io"
           \/ ~VXLOCK[v] /\ ~Free(v) /\ pc'[p] = "iolock"
    BY <1>1 DEF vn_lock, Stay, Moves, Same, Inv, Types, TypeOK, Pcs, LockWaits, SleepsOnVnode
  <1>4. /\ v_lock' \in [Vnodes -> Procs \cup {None}] /\ VXWANT' \in [Vnodes -> BOOLEAN]
        /\ v_lock'[v] = IF pc'[p] = "io" /\ ~Dead(v) THEN p ELSE v_lock[v]
        /\ VXWANT[v] \/ pc'[p] = "vn_lock" => VXWANT'[v]
        /\ \A u \in Vnodes \ {v} : v_lock'[u] = v_lock[u] /\ VXWANT'[u] = VXWANT[u]
        /\ UNCHANGED <<v_usecount, freelist, deadb, VXLOCK, v_type, v_data>>
    BY <1>1, <1>3 DEF vn_lock, VOP_LOCK, Inv, Types, TypeOK, counts, flags, ident, SleepOn
  <1>5. At(v)
    BY <1>1, <1>3, <1>4 DEF At, Moves
  <1>6. /\ IsRef(p, v)' /\ ~Cleans(p, v) /\ ~Cleans(p, v)' /\ ~Takes(p, v) /\ ~Takes(p, v)'
        /\ \A q \in Procs \ {p} : /\ IsRef(q, v)' <=> IsRef(q, v)
                                  /\ Cleans(q, v)' <=> Cleans(q, v)
                                  /\ Takes(q, v)' <=> Takes(q, v)
    BY <1>1, <1>3, Beside DEF IsRef, Cleans, Takes, RefPcs, Cleaning
  <1>7. Types'
    BY <1>3, <1>4 DEF vn_lock, Inv, Types, TypeOK, names
  <1>8. Works'
    BY <1>1, <1>3 DEF Inv, Works, Moves, Same, RefPcs
  <1>9. CacheOK'
    <2>1. RightWaits
      BY <1>3, <1>4 DEF RightWaits, StillWaits, Moves, Same
    <2> QED  BY <1>4, <2>1, CacheSame DEF vn_lock
  <1>11. ~panicked'
    BY DEF vn_lock, Inv
  <1>10. Good(v)'
    <2>1. TypeAt(v)'
      BY <1>1, <1>2, <1>3, <1>4 DEF Good, TypeAt, Dead
    <2>2. CountAt(v)'
      BY <1>1, <1>4, <1>6, CountSame DEF Good
    <2>3. CleanAt(v)'
      BY <1>1, <1>2, <1>3, <1>4, <1>6 DEF Good, CleanAt, Moves, Same, SleepsOnVnode
    <2>4. LockAt(v)'
      BY <1>1, <1>2, <1>3, <1>4, VnodeConstants DEF Good, LockAt, TypeAt, Moves, Same, Dead, Free
    <2>5. ReclaimedAt(v)'
      BY <1>1, <1>2, <1>3, <1>4 DEF Good, ReclaimedAt, Moves, Same
    <2>6. DataAt(v)'
      BY <1>1, <1>2, <1>3, <1>4 DEF Good, DataAt, Moves, Same, RefPcs
    <2>7. AloneAt(v)'
      BY <1>1, <1>2, <1>3, <1>4, <1>6 DEF Good, AloneAt, Moves, Same, Cleaning
    <2>8. TakerAt(v)'
      BY <1>1, <1>2, <1>3, <1>4, <1>6 DEF Good, TakerAt, Moves, Same, Dead
    <2>9. ListedAt(v)'
      BY <1>1, <1>2, <1>3, <1>4, <1>6 DEF Good, ListedAt
    <2> QED  BY <2>1, <2>2, <2>3, <2>4, <2>5, <2>6, <2>7, <2>8, <2>9 DEF Good
  <1> QED  BY <1>5, <1>7, <1>8, <1>9, <1>10, <1>11, Elsewhere DEF Inv

\* Where vrele and vput put the vnode.
LEMMA ReleaseLists ==
  ASSUME Inv, NEW p \in Procs, NEW v \in Vnodes, IsRef(p, v), Release(v)
  PROVE  /\ IsTailQ(freelist', Vnodes)
         /\ v_usecount[v] = 1 => ToSet(freelist') = ToSet(freelist) \cup {v}
         /\ v_usecount[v] # 1 => ToSet(freelist') = ToSet(freelist)
         /\ deadb' \in [Vnodes -> BOOLEAN]
         /\ \A u \in Vnodes \ {v} : deadb'[u] = deadb[u]
         /\ v_usecount[v] = 1 => ~deadb'[v]
         /\ v_usecount[v] # 1 => deadb'[v] = deadb[v]
         /\ v_usecount' \in [Vnodes -> Nat]
         /\ v_usecount'[v] = v_usecount[v] - 1
         /\ \A u \in Vnodes \ {v} : v_usecount'[u] = v_usecount[u]
  <1>1. /\ v \notin ToSet(freelist) /\ IsTailQ(freelist, Vnodes) /\ deadb \in [Vnodes -> BOOLEAN]
        /\ v_usecount \in [Vnodes -> Nat]
    BY DEF Inv, Good, ListedAt, Types, TypeOK
  <1>2. v_usecount[v] > 0
    BY LastRef DEF Inv, Good
  <1>3. /\ v_usecount' \in [Vnodes -> Nat]
        /\ v_usecount'[v] = v_usecount[v] - 1
        /\ \A u \in Vnodes \ {v} : v_usecount'[u] = v_usecount[u]
    BY <1>1, <1>2 DEF Release
  <1>4. CASE v_usecount[v] = 1
    <2>1. freelist' = TAILQ_INSERT_TAIL(freelist, v) /\ deadb' = [deadb EXCEPT ![v] = FALSE]
      BY <1>4 DEF Release
    <2> QED BY <1>1, <1>3, <1>4, <2>1, InsertTailProps
  <1>5. CASE v_usecount[v] # 1
    BY <1>1, <1>3, <1>5 DEF Release
  <1> QED  BY <1>4, <1>5

\* Nobody cleans a vnode whose only reference belongs to a user.
LEMMA LastUnlocked ==
  ASSUME Inv, NEW p \in Procs, NEW v \in Vnodes, IsRef(p, v), pc[p] \in RefPcs, v_usecount[v] = 1
  PROVE  ~VXLOCK[v]
  <1>1. Good(v) /\ \A q \in Procs : IsRef(q, v) => q = p
    BY LastRef DEF Inv, Good
  <1> QED  BY <1>1 DEF Good, CleanAt, Cleans, AloneAt, IsRef, Cleaning, RefPcs

\* vput keeps the invariant.
LEMMA VputInv ==
  ASSUME Inv, ~again, NEW p \in Procs, vput(p)
  PROVE  Inv'
  <1>0. PICK v \in Vnodes : v = vp[p]
    BY DEF Inv, Works, Types, TypeOK, vput
  <1>1. /\ Good(v) /\ vp[p] = v /\ pc[p] \in {"locked", "io"} /\ want[p] \in Files
        /\ IsRef(p, v) /\ v_type[v] \in {"VNON", "VBAD"}
    BY <1>0 DEF Inv, Types, TypeOK, Good, TypeAt, Works, vput, RefPcs, IsRef
  <1>2. /\ v_usecount[v] \in Nat /\ v_usecount[v] > 0
        /\ v_usecount[v] = 1 <=> \A q \in Procs : IsRef(q, v) => q = p
        /\ v_lock[v] = p \/ Dead(v)
    BY <1>1, LastRef DEF Good, LockAt
  <1>b. v_usecount[v] = 1 /\ ~Dead(v) => v_data[v] = want[p]
    BY <1>1, <1>2, LastUnlocked, VnodeConstants DEF Good, DataAt, TypeAt, Dead, RefPcs
  <1>3. /\ pc' \in [Procs -> Pcs] /\ vp' \in [Procs -> Vnodes \cup {None}]
        /\ want' \in [Procs -> Files \cup {None}] /\ vpid' \in [Procs -> Ids] /\ active' = active /\ Moves(p)
        /\ \/ pc'[p] = "idle" /\ vp'[p] = None
           \/ /\ pc'[p] = "inactive" /\ vp'[p] = v /\ want'[p] = want[p]
              /\ v_usecount[v] = 1 /\ ~Dead(v)
    BY <1>1, <1>2, NoneId DEF vput, Stay, Done, Goto, Moves, Same, Inv, Types, TypeOK, Pcs
  <1>a. /\ v_lock' \in [Vnodes -> Procs \cup {None}]
        /\ v_lock'[v] = IF Dead(v) THEN v_lock[v] ELSE IF pc'[p] = "idle" THEN None ELSE p
        /\ \A u \in Vnodes \ {v} : v_lock'[u] = v_lock[u]
    BY <1>1, <1>2, VnodeConstants DEF vput, VOP_UNLOCK, Done, Goto, Stay, Inv, Types, TypeOK
  <1>4. /\ v_lock' \in [Vnodes -> Procs \cup {None}]
        /\ v_lock'[v] = IF Dead(v) THEN v_lock[v] ELSE IF pc'[p] = "idle" THEN None ELSE p
        /\ \A u \in Vnodes \ {v} : v_lock'[u] = v_lock[u]
        /\ UNCHANGED <<VXLOCK, VXWANT, v_type, v_data>>
        /\ IsTailQ(freelist', Vnodes)
        /\ v_usecount[v] = 1 => ToSet(freelist') = ToSet(freelist) \cup {v}
        /\ v_usecount[v] # 1 => ToSet(freelist') = ToSet(freelist)
        /\ deadb' \in [Vnodes -> BOOLEAN]
        /\ \A u \in Vnodes \ {v} : deadb'[u] = deadb[u]
        /\ v_usecount[v] = 1 => ~deadb'[v]
        /\ v_usecount[v] # 1 => deadb'[v] = deadb[v]
        /\ v_usecount' \in [Vnodes -> Nat]
        /\ v_usecount'[v] = v_usecount[v] - 1
        /\ \A u \in Vnodes \ {v} : v_usecount'[u] = v_usecount[u]
    BY <1>1, <1>a, ReleaseLists DEF vput, flags, ident
  <1>5. At(v)
    BY <1>1, <1>3, <1>4 DEF At, Moves
  <1>h. \A q \in Procs : ~Takes(q, v)
    BY <1>1 DEF Good, AloneAt, Takes
  <1>6. /\ ~IsRef(p, v)' /\ ~Cleans(p, v) /\ ~Cleans(p, v)' /\ \A q \in Procs : ~Takes(q, v) /\ ~Takes(q, v)'
        /\ \A q \in Procs \ {p} : /\ IsRef(q, v)' <=> IsRef(q, v)
                                  /\ Cleans(q, v)' <=> Cleans(q, v)
    BY <1>1, <1>3, <1>h, Beside DEF IsRef, Cleans, Takes, RefPcs, Cleaning
  <1>7. Types'
    BY <1>3, <1>4 DEF vput, Inv, Types, TypeOK, names
  <1>8. Works'
    BY <1>1, <1>3, VnodeConstants DEF Inv, Works, Moves, Same, RefPcs
  <1>9. CacheOK'
    <2>1. RightWaits
      BY <1>3, <1>4 DEF RightWaits, StillWaits, Moves, Same
    <2> QED  BY <1>4, <2>1, CacheSame DEF vput
  <1>11. ~panicked'
    BY DEF vput, Inv
  <1>10. Good(v)'
    <2>1. TypeAt(v)'
      BY <1>1, <1>2, <1>3, <1>4 DEF Good, TypeAt, Moves, Same
    <2>2. CountAt(v)'
      BY <1>1, <1>4, <1>6, CountLess DEF Good
    <2>3. CleanAt(v)'
      BY <1>1, <1>2, <1>3, <1>4, <1>6 DEF Good, CleanAt, Moves, Same, SleepsOnVnode
    <2>4. LockAt(v)'
      BY <1>1, <1>2, <1>3, <1>4, VnodeConstants DEF Good, LockAt, Moves, Same, Dead
    <2>5. ReclaimedAt(v)'
      BY <1>1, <1>2, <1>3, <1>4 DEF Good, ReclaimedAt, Moves, Same
    <2>6. DataAt(v)'
      BY <1>1, <1>2, <1>b, <1>3, <1>4 DEF Good, DataAt, Moves, Same, RefPcs
    <2>7. AloneAt(v)'
      BY <1>1, <1>2, <1>3, <1>4, <1>6, VnodeConstants DEF Good, AloneAt, LockAt, Moves, Same,
         Cleaning
    <2>8. TakerAt(v)'
      BY <1>1, <1>2, <1>3, <1>4, <1>6 DEF Good, TakerAt, Moves, Same, Dead
    <2>9. ListedAt(v)'
      BY <1>1, <1>2, <1>3, <1>4, <1>6 DEF Good, ListedAt
    <2> QED  BY <2>1, <2>2, <2>3, <2>4, <2>5, <2>6, <2>7, <2>8, <2>9 DEF Good
  <1> QED  BY <1>5, <1>7, <1>8, <1>9, <1>10, <1>11, Elsewhere DEF Inv

\* vrele and iput keep the invariant.
LEMMA VreleInv ==
  ASSUME Inv, ~again, NEW p \in Procs, Vrele(p) \/ iput(p)
  PROVE  Inv'
  <1>0. PICK v \in Vnodes : v = vp[p]
    BY DEF Inv, Works, Types, TypeOK, Vrele, iput
  <1>1. /\ Good(v) /\ vp[p] = v /\ pc[p] \in {"ref", "iput"} /\ want[p] \in Files
        /\ IsRef(p, v) /\ v_type[v] \in {"VNON", "VBAD"}
    BY <1>0 DEF Inv, Types, TypeOK, Good, TypeAt, Works, Vrele, iput, RefPcs, IsRef
  <1>l. PICK lock \in [Vnodes -> Procs \cup {None}] :
          /\ vrele(p, lock)
          /\ lock[v] = IF pc[p] = "iput" THEN None ELSE v_lock[v]
          /\ \A u \in Vnodes \ {v} : lock[u] = v_lock[u]
    <2>1. v_lock \in [Vnodes -> Procs \cup {None}]
      BY DEF Inv, Types, TypeOK
    <2>2. CASE Vrele(p)
      BY <2>1, <2>2 DEF Vrele
    <2>3. CASE iput(p)
      <3>1. [v_lock EXCEPT ![vp[p]] = None] \in [Vnodes -> Procs \cup {None}]
        BY <2>1, <1>1
      <3> QED  BY <1>1, <2>1, <2>3, <3>1 DEF iput
    <2> QED  BY <2>2, <2>3
  <1>a. /\ v_usecount[v] \in Nat /\ v_usecount[v] > 0
        /\ v_usecount[v] = 1 <=> \A q \in Procs : IsRef(q, v) => q = p
        /\ pc[p] = "iput" => v_lock[v] = p
    BY <1>1, LastRef DEF Good, LockAt
  <1>b. v_usecount[v] = 1 => ~VXLOCK[v]
    BY <1>1, LastUnlocked DEF RefPcs
  <1>c. v_usecount[v] = 1 /\ ~Dead(v) => lock[v] = None
    <2>1. v_lock[v] # None => v_lock[v] \in Procs
      BY DEF Inv, Types, TypeOK
    <2>2. v_lock[v] # None /\ ~Dead(v) /\ pc[p] = "ref"
             => pc[v_lock[v]] \notin {"inactive", "clean"} \/ VXLOCK[v]
      BY <1>1, <2>1 DEF Good, LockAt, AloneAt, CleanAt, Cleans, Cleaning
    <2> QED  BY <1>1, <1>a, <1>b, <1>l, <2>1, <2>2 DEF Good, LockAt, IsRef, RefPcs
  <1>d. ~Dead(v) /\ ~VXLOCK[v] => v_data[v] = want[p]
    BY <1>1, VnodeConstants DEF Good, DataAt, TypeAt, Dead, RefPcs
  <1>2. /\ v_usecount[v] \in Nat /\ v_usecount[v] > 0
        /\ v_usecount[v] = 1 <=> \A q \in Procs : IsRef(q, v) => q = p
        /\ v_usecount[v] = 1 => ~VXLOCK[v] /\ (v_data[v] = want[p] \/ Dead(v))
        /\ pc[p] = "iput" => v_lock[v] = p
    BY <1>a, <1>b, <1>d
  <1>e. \/ Done(p) /\ v_lock' = lock
        \/ /\ v_usecount[v] = 1 /\ ~Dead(v) /\ Stay(p, "inactive") /\ UNCHANGED vpid
           /\ v_lock' = [lock EXCEPT ![v] = p]
    BY <1>1, <1>2, <1>c, <1>l DEF vrele
  <1>3. /\ pc' \in [Procs -> Pcs] /\ vp' \in [Procs -> Vnodes \cup {None}]
        /\ want' \in [Procs -> Files \cup {None}] /\ vpid' \in [Procs -> Ids] /\ active' = active /\ Moves(p)
        /\ \/ pc'[p] = "idle" /\ vp'[p] = None
           \/ /\ pc'[p] = "inactive" /\ vp'[p] = v /\ want'[p] = want[p]
              /\ v_usecount[v] = 1 /\ ~Dead(v)
    BY <1>1, <1>e, <1>l, NoneId DEF vrele, Stay, Done, Goto, Moves, Same, Inv, Types, TypeOK, Pcs
  <1>f. /\ v_lock' \in [Vnodes -> Procs \cup {None}]
        /\ v_lock'[v] = IF pc'[p] = "idle" THEN lock[v] ELSE p
        /\ \A u \in Vnodes \ {v} : v_lock'[u] = v_lock[u]
    BY <1>e, <1>l DEF Done, Goto, Stay, Inv, Types, TypeOK
  <1>g. UNCHANGED <<VXLOCK, VXWANT>>
    BY <1>1, <1>2, <1>c, <1>l DEF vrele, flags
  <1>4. /\ v_lock' \in [Vnodes -> Procs \cup {None}]
        /\ v_lock'[v] = IF pc'[p] # "idle" THEN p ELSE IF pc[p] = "iput" THEN None ELSE v_lock[v]
        /\ pc[p] = "ref" /\ pc'[p] # "idle" => v_lock[v] = None
        /\ \A u \in Vnodes \ {v} : v_lock'[u] = v_lock[u]
        /\ UNCHANGED <<VXLOCK, VXWANT, v_type, v_data>>
        /\ IsTailQ(freelist', Vnodes)
        /\ v_usecount[v] = 1 => ToSet(freelist') = ToSet(freelist) \cup {v}
        /\ v_usecount[v] # 1 => ToSet(freelist') = ToSet(freelist)
        /\ deadb' \in [Vnodes -> BOOLEAN]
        /\ \A u \in Vnodes \ {v} : deadb'[u] = deadb[u]
        /\ v_usecount[v] = 1 => ~deadb'[v]
        /\ v_usecount[v] # 1 => deadb'[v] = deadb[v]
        /\ v_usecount' \in [Vnodes -> Nat]
        /\ v_usecount'[v] = v_usecount[v] - 1
        /\ \A u \in Vnodes \ {v} : v_usecount'[u] = v_usecount[u]
    BY <1>1, <1>3, <1>c, <1>f, <1>g, <1>l, ReleaseLists DEF vrele, ident
  <1>5. At(v)
    BY <1>1, <1>3, <1>4 DEF At, Moves
  <1>h. \A q \in Procs : ~Takes(q, v)
    BY <1>1 DEF Good, AloneAt, Takes
  <1>6. /\ ~IsRef(p, v)' /\ ~Cleans(p, v) /\ ~Cleans(p, v)' /\ \A q \in Procs : ~Takes(q, v) /\ ~Takes(q, v)'
        /\ \A q \in Procs \ {p} : /\ IsRef(q, v)' <=> IsRef(q, v)
                                  /\ Cleans(q, v)' <=> Cleans(q, v)
    BY <1>1, <1>3, <1>h, Beside DEF IsRef, Cleans, Takes, RefPcs, Cleaning
  <1>7. Types'
    BY <1>3, <1>4, <1>l DEF vrele, Inv, Types, TypeOK, names
  <1>8. Works'
    BY <1>1, <1>3, VnodeConstants DEF Inv, Works, Moves, Same, RefPcs
  <1>9. CacheOK'
    <2>1. RightWaits
      BY <1>3, <1>4 DEF RightWaits, StillWaits, Moves, Same
    <2> QED  BY <1>4, <1>l, <2>1, CacheSame DEF vrele
  <1>11. ~panicked'
    BY <1>l DEF vrele, Inv
  <1>10. Good(v)'
    <2>1. TypeAt(v)'
      BY <1>1, <1>2, <1>3, <1>4 DEF Good, TypeAt, Moves, Same, Dead
    <2>2. CountAt(v)'
      BY <1>1, <1>4, <1>6, CountLess DEF Good
    <2>3. CleanAt(v)'
      BY <1>1, <1>2, <1>3, <1>4, <1>6 DEF Good, CleanAt, Moves, Same, SleepsOnVnode
    <2>4. LockAt(v)'
      BY <1>1, <1>2, <1>3, <1>4, VnodeConstants DEF Good, LockAt, Moves, Same, Dead
    <2>5. ReclaimedAt(v)'
      BY <1>1, <1>2, <1>3, <1>4 DEF Good, ReclaimedAt, Moves, Same
    <2>6. DataAt(v)'
      BY <1>1, <1>2, <1>3, <1>4 DEF Good, DataAt, Moves, Same, RefPcs
    <2>7. AloneAt(v)'
      BY <1>1, <1>2, <1>3, <1>4, <1>6, VnodeConstants DEF Good, AloneAt, LockAt, Moves, Same,
         Cleaning
    <2>8. TakerAt(v)'
      BY <1>1, <1>2, <1>3, <1>4, <1>6 DEF Good, TakerAt, Moves, Same, Dead
    <2>9. ListedAt(v)'
      BY <1>1, <1>2, <1>3, <1>4, <1>6 DEF Good, ListedAt
    <2> QED  BY <2>1, <2>2, <2>3, <2>4, <2>5, <2>6, <2>7, <2>8, <2>9 DEF Good
  <1> QED  BY <1>5, <1>7, <1>8, <1>9, <1>10, <1>11, Elsewhere DEF Inv

\* vclean's active, a Boolean that is computed.
LEMMA ActiveSet ==
  ASSUME NEW a \in [Procs -> BOOLEAN], NEW p \in Procs, NEW b \in BOOLEAN
  PROVE  /\ [a EXCEPT ![p] = b] \in [Procs -> BOOLEAN]
         /\ [a EXCEPT ![p] = b][p] <=> b
         /\ \A q \in Procs \ {p} : [a EXCEPT ![p] = b][q] = a[q]
  OBVIOUS

\* VOP_INACTIVE keeps the invariant.
LEMMA InactiveInv ==
  ASSUME Inv, ~again, NEW p \in Procs, Inactive(p)
  PROVE  Inv'
  <1>0. PICK v \in Vnodes : v = vp[p]
    BY DEF Inv, Works, Types, TypeOK, Inactive
  <1>1. /\ Good(v) /\ vp[p] = v /\ pc[p] = "inactive" /\ want[p] \in Files
        /\ v_type[v] \in {"VNON", "VBAD"} /\ None \notin Vnodes
    BY <1>0, VnodeConstants DEF Inv, Types, TypeOK, Good, TypeAt, Works, Inactive
  <1>2. /\ v_lock[v] = p /\ v_data[v] = want[p] /\ v_type[v] = "VNON"
        /\ v_usecount[v] = 0 <=> \A q \in Procs : ~IsRef(q, v)
    BY <1>1, NoRefs, VnodeConstants DEF Good, LockAt, DataAt, TypeAt
  <1>a. \/ Done(p) /\ UNCHANGED <<v_usecount, VXLOCK, VXWANT, active>>
        \/ /\ v_usecount[v] = 0 /\ VXLOCK[v] /\ Goto(p, "vgone", v, None)
           /\ SleepOn(v) /\ UNCHANGED <<v_usecount, active>>
        \/ /\ v_usecount[v] = 0 /\ ~VXLOCK[v] /\ Goto(p, "drain", v, None)
           /\ active' = [active EXCEPT ![p] = FALSE] /\ v_usecount' = v_usecount
           /\ VXLOCK' = [VXLOCK EXCEPT ![v] = TRUE] /\ VXWANT' = VXWANT
    <2>1. CASE Done(p) /\ UNCHANGED <<v_usecount, flags, active>>
      BY <2>1 DEF flags
    <2>2. CASE v_usecount[v] = 0 /\ vgonel(p, v, None)
      <3>1. [v_usecount EXCEPT ![v] = IF @ > 0 THEN @ + 1 ELSE 0] = v_usecount /\ ~(v_usecount[v] > 0)
        BY <2>2 DEF Inv, Types, TypeOK
      <3>2. (v_usecount[v] > 0) = FALSE
        BY <3>1
      <3>3. [active EXCEPT ![p] = v_usecount[v] > 0] = [active EXCEPT ![p] = FALSE]
        BY ONLY <3>2, Zenon
      <3> QED  BY <2>2, <3>1, <3>3 DEF vgonel
    <2> QED  BY <1>1, <2>1, <2>2 DEF Inactive, vrecycle
  <1>d. vpid' = [vpid EXCEPT ![p] = None]
    BY DEF Inactive, Done
  <1>3. /\ pc' \in [Procs -> Pcs] /\ vp' \in [Procs -> Vnodes \cup {None}]
        /\ want' \in [Procs -> Files \cup {None}] /\ vpid' \in [Procs -> Ids]
        /\ active' \in [Procs -> BOOLEAN] /\ Moves(p)
        /\ want'[p] = None
        /\ \/ pc'[p] = "idle" /\ vp'[p] = None
           \/ pc'[p] = "vgone" /\ vp'[p] = v /\ VXLOCK[v]
           \/ pc'[p] = "drain" /\ vp'[p] = v /\ ~VXLOCK[v] /\ v_usecount[v] = 0 /\ ~active'[p]
    BY <1>1, <1>a, <1>d, NoneId, ZenonT(80) 
       DEF Done, Goto, Moves, Same, Inv, Types, TypeOK, Pcs, SleepsOnVnode, Cleaning
  <1>b. /\ v_usecount' = v_usecount
        /\ VXLOCK' \in [Vnodes -> BOOLEAN] /\ VXWANT' \in [Vnodes -> BOOLEAN]
        /\ VXLOCK'[v] <=> VXLOCK[v] \/ pc'[p] = "drain"
        /\ VXWANT[v] \/ pc'[p] = "vgone" => VXWANT'[v]
        /\ \A u \in Vnodes \ {v} : VXLOCK'[u] = VXLOCK[u] /\ VXWANT'[u] = VXWANT[u]
    BY <1>1, <1>a, <1>3, ZenonT(80) DEF Done, Goto, SleepOn, Inv, Types, TypeOK
  <1>c. /\ v_lock' \in [Vnodes -> Procs \cup {None}]
        /\ v_lock'[v] = None
        /\ \A u \in Vnodes \ {v} : v_lock'[u] = v_lock[u]
    BY <1>1, <1>2 DEF Inactive, VOP_UNLOCK, Dead, Inv, Types, TypeOK
  <1>4. /\ v_usecount' = v_usecount
        /\ VXLOCK' \in [Vnodes -> BOOLEAN] /\ VXWANT' \in [Vnodes -> BOOLEAN]
        /\ VXLOCK'[v] <=> VXLOCK[v] \/ pc'[p] = "drain"
        /\ VXWANT[v] \/ pc'[p] = "vgone" => VXWANT'[v]
        /\ v_lock' \in [Vnodes -> Procs \cup {None}] /\ v_lock'[v] = None
        /\ \A u \in Vnodes \ {v} : /\ VXLOCK'[u] = VXLOCK[u] /\ VXWANT'[u] = VXWANT[u]
                                   /\ v_lock'[u] = v_lock[u]
        /\ UNCHANGED <<freelist, deadb, v_type, v_data>>
    BY <1>b, <1>c DEF Inactive, ident
  <1>5. At(v)
    BY <1>1, <1>3, <1>4 DEF At, Moves
  <1>6. /\ ~IsRef(p, v) /\ ~IsRef(p, v)' /\ ~Cleans(p, v) /\ ~Takes(p, v) /\ ~Takes(p, v)'
        /\ Cleans(p, v)' <=> pc'[p] = "drain"
        /\ \A q \in Procs \ {p} : /\ IsRef(q, v)' <=> IsRef(q, v)
                                  /\ Cleans(q, v)' <=> Cleans(q, v)
                                  /\ Takes(q, v)' <=> Takes(q, v)
    BY <1>1, <1>3, Beside DEF IsRef, Cleans, Takes, RefPcs, Cleaning
  <1>7. Types'
    BY <1>3, <1>4 DEF Inactive, Inv, Types, TypeOK, names
  <1>8. Works'
    BY <1>1, <1>3 DEF Inv, Works, Moves, Same, RefPcs
  <1>9. CacheOK'
    <2>1. RightWaits
      BY <1>3, <1>4 DEF RightWaits, StillWaits, Moves, Same
    <2> QED  BY <1>4, <2>1, CacheSame DEF Inactive
  <1>11. ~panicked'
    BY DEF Inactive, Inv
  <1>10. Good(v)'
    <2>1. TypeAt(v)'
      BY <1>1, <1>2, <1>3, <1>4 DEF Good, TypeAt, Moves, Same
    <2>2. CountAt(v)'
      BY <1>1, <1>4, <1>6, CountSame DEF Good
    <2>3. CleanAt(v)'
      BY <1>1, <1>2, <1>3, <1>4, <1>6 DEF Good, CleanAt, Moves, Same, SleepsOnVnode
    <2>4. LockAt(v)'
      BY <1>1, <1>2, <1>3, <1>4, VnodeConstants DEF Good, LockAt, Moves, Same, Dead
    <2>5. ReclaimedAt(v)'
      BY <1>1, <1>2, <1>3, <1>4 DEF Good, ReclaimedAt, Moves, Same
    <2>6. DataAt(v)'
      BY <1>1, <1>2, <1>3, <1>4 DEF Good, DataAt, Moves, Same, RefPcs
    <2>7. AloneAt(v)'
      BY <1>1, <1>2, <1>3, <1>4, <1>6, VnodeConstants DEF Good, AloneAt, LockAt, Moves, Same,
         Cleaning
    <2>8. TakerAt(v)'
      BY <1>1, <1>2, <1>3, <1>4, <1>6 DEF Good, TakerAt, Moves, Same, Dead
    <2>9. ListedAt(v)'
      BY <1>1, <1>2, <1>3, <1>4, <1>6 DEF Good, ListedAt
    <2> QED  BY <2>1, <2>2, <2>3, <2>4, <2>5, <2>6, <2>7, <2>8, <2>9 DEF Good
  <1> QED  BY <1>5, <1>7, <1>8, <1>9, <1>10, <1>11, Elsewhere DEF Inv

\* vflush keeps the invariant.
LEMMA VflushInv ==
  ASSUME Inv, ~again, NEW p \in Procs, NEW v \in Vnodes, vflush(p, v)
  PROVE  Inv'
  <1>1. /\ Good(v) /\ pc[p] = "idle" /\ vp[p] = None /\ None \notin Vnodes
        /\ v_type[v] = "VNON"
    BY VnodeConstants DEF Inv, Works, vflush
  <1>2. /\ v_type[v] = "VNON" /\ v_usecount[v] \in Nat
        /\ v_usecount[v] = 0 <=> \A q \in Procs : ~IsRef(q, v)
        /\ \A q \in Procs : Takes(q, v) => v_usecount[v] = 0
        /\ v_lock[v] \in Procs \cup {None}
    BY <1>1, NoRefs DEF Good, TypeAt, AloneAt, Takes, Inv, Types, TypeOK
  <1>a. /\ active' \in [Procs -> BOOLEAN] /\ \A q \in Procs \ {p} : active'[q] = active[q]
        /\ ~VXLOCK[v] => (active'[p] <=> v_usecount[v] > 0)
    <2>1. active \in [Procs -> BOOLEAN]
      BY DEF Inv, Types
    <2>2. CASE VXLOCK[v]
      BY <2>1, <2>2 DEF vflush, vgonel
    <2>3. CASE ~VXLOCK[v]
      <3>1. active' = [active EXCEPT ![p] = v_usecount[v] > 0]
        BY <2>3 DEF vflush, vgonel
      <3>2. (v_usecount[v] > 0) \in BOOLEAN
        BY <1>2
      <3>3. PICK b \in BOOLEAN : b = (v_usecount[v] > 0)
        BY ONLY <3>2, Zenon
      <3>4. active' = [active EXCEPT ![p] = b]
        BY ONLY <3>1, <3>3, Zenon
      <3>5. /\ active' \in [Procs -> BOOLEAN] /\ (active'[p] <=> b)
            /\ \A q \in Procs \ {p} : active'[q] = active[q]
        BY <2>1, <3>4, ActiveSet
      <3> QED  BY <3>3, <3>5, Zenon
    <2> QED  BY <2>2, <2>3
  <1>3. /\ pc' \in [Procs -> Pcs] /\ vp' \in [Procs -> Vnodes \cup {None}]
        /\ want' \in [Procs -> Files \cup {None}] /\ vpid' \in [Procs -> Ids]
        /\ active' \in [Procs -> BOOLEAN] /\ Moves(p)
        /\ want'[p] = None /\ vp'[p] = v
        /\ \/ pc'[p] = "vgone" /\ VXLOCK[v]
           \/ pc'[p] = "drain" /\ ~VXLOCK[v] /\ (active'[p] <=> v_usecount[v] > 0)
    BY <1>1, <1>a DEF vflush, vgonel, Goto, Moves, Same, Inv, Types, TypeOK, Pcs, SleepsOnVnode, Cleaning
  <1>b. /\ v_usecount' \in [Vnodes -> Nat]
        /\ v_usecount'[v] = IF pc'[p] = "drain" /\ v_usecount[v] > 0 THEN v_usecount[v] + 1
                            ELSE v_usecount[v]
        /\ \A u \in Vnodes \ {v} : v_usecount'[u] = v_usecount[u]
    BY <1>2, <1>3 DEF vflush, vgonel, Goto, Inv, Types, TypeOK
  <1>4. /\ v_usecount' \in [Vnodes -> Nat]
        /\ v_usecount'[v] = IF pc'[p] = "drain" /\ v_usecount[v] > 0 THEN v_usecount[v] + 1
                            ELSE v_usecount[v]
        /\ VXLOCK' \in [Vnodes -> BOOLEAN] /\ VXWANT' \in [Vnodes -> BOOLEAN]
        /\ VXLOCK'[v] <=> VXLOCK[v] \/ pc'[p] = "drain"
        /\ VXWANT[v] \/ pc'[p] = "vgone" => VXWANT'[v]
        /\ \A u \in Vnodes \ {v} : /\ VXLOCK'[u] = VXLOCK[u] /\ VXWANT'[u] = VXWANT[u]
                                   /\ v_usecount'[u] = v_usecount[u]
        /\ UNCHANGED <<freelist, deadb, v_type, v_data, v_lock>>
    BY <1>3, <1>b DEF vflush, vgonel, SleepOn, ident, Inv, Types, TypeOK
  <1>5. At(v)
    BY <1>1, <1>3, <1>4 DEF At, Moves
  <1>6. /\ ~IsRef(p, v) /\ ~Cleans(p, v) /\ ~Takes(p, v) /\ ~Takes(p, v)'
        /\ IsRef(p, v)' <=> pc'[p] = "drain" /\ v_usecount[v] > 0
        /\ Cleans(p, v)' <=> pc'[p] = "drain"
        /\ \A q \in Procs \ {p} : /\ IsRef(q, v)' <=> IsRef(q, v)
                                  /\ Cleans(q, v)' <=> Cleans(q, v)
                                  /\ Takes(q, v)' <=> Takes(q, v)
    BY <1>1, <1>3, Beside DEF IsRef, Cleans, Takes, RefPcs, Cleaning
  <1>7. Types'
    BY <1>3, <1>4 DEF vflush, Inv, Types, TypeOK, names
  <1>8. Works'
    BY <1>1, <1>3 DEF Inv, Works, Moves, Same, RefPcs
  <1>9. CacheOK'
    <2>1. RightWaits
      BY <1>3, <1>4 DEF RightWaits, StillWaits, Moves, Same
    <2> QED  BY <1>4, <2>1, CacheSame DEF vflush
  <1>11. ~panicked'
    BY DEF vflush, Inv
  <1>10. Good(v)'
    <2>1. TypeAt(v)'
      BY <1>1, <1>2, <1>3, <1>4 DEF Good, TypeAt, Moves, Same
    <2>2. CountAt(v)'
      <3>1. CASE IsRef(p, v)'
        BY <1>1, <1>4, <1>6, <3>1, CountMore DEF Good
      <3>2. CASE ~IsRef(p, v)'
        BY <1>1, <1>2, <1>4, <1>6, <3>2, CountSame DEF Good
      <3> QED  BY <3>1, <3>2
    <2>3. CleanAt(v)'
      BY <1>1, <1>2, <1>3, <1>4, <1>6 DEF Good, CleanAt, Moves, Same, SleepsOnVnode
    <2>4. LockAt(v)'
      BY <1>1, <1>2, <1>3, <1>4, VnodeConstants DEF Good, LockAt, Moves, Same, Dead
    <2>5. ReclaimedAt(v)'
      BY <1>1, <1>2, <1>3, <1>4 DEF Good, ReclaimedAt, Moves, Same
    <2>6. DataAt(v)'
      BY <1>1, <1>2, <1>3, <1>4 DEF Good, DataAt, Moves, Same, RefPcs
    <2>7. AloneAt(v)'
      BY <1>1, <1>2, <1>3, <1>4, <1>6, VnodeConstants DEF Good, AloneAt, LockAt, Moves, Same,
         Cleaning
    <2>8. TakerAt(v)'
      BY <1>1, <1>2, <1>3, <1>4, <1>6 DEF Good, TakerAt, Moves, Same, Dead
    <2>9. ListedAt(v)'
      BY <1>1, <1>2, <1>3, <1>4, <1>6 DEF Good, ListedAt
    <2> QED  BY <2>1, <2>2, <2>3, <2>4, <2>5, <2>6, <2>7, <2>8, <2>9 DEF Good
  <1> QED  BY <1>5, <1>7, <1>8, <1>9, <1>10, <1>11, Elsewhere DEF Inv

\* vclean's drain of the lock keeps the invariant.
LEMMA DrainedInv ==
  ASSUME Inv, ~again, NEW p \in Procs, Drained(p)
  PROVE  Inv'
  <1>0. PICK v \in Vnodes : v = vp[p]
    BY DEF Inv, Works, Types, TypeOK, Drained
  <1>1. /\ Good(v) /\ vp[p] = v /\ pc[p] = "drain" /\ v_lock[v] = None /\ None \notin Vnodes \cup Procs
        /\ Cleans(p, v)
    BY <1>0, VnodeConstants DEF Inv, Drained, Cleans, Cleaning
  <1>2. VXLOCK[v] /\ v_type[v] = "VNON" /\ ~Dead(v)
    BY <1>1 DEF Good, CleanAt, TypeAt, Dead
  <1>3. /\ pc'[p] = "clean" /\ pc' \in [Procs -> Pcs]
        /\ vp' = vp /\ want' = want /\ vpid' \in [Procs -> Ids] /\ active' = active /\ Moves(p)
    BY <1>1 DEF Drained, Stay, Moves, Same, Inv, Types, TypeOK, Pcs, Cleaning
  <1>4. /\ v_lock' \in [Vnodes -> Procs \cup {None}]
        /\ v_lock'[v] = p /\ \A u \in Vnodes \ {v} : v_lock'[u] = v_lock[u]
        /\ UNCHANGED <<v_usecount, freelist, deadb, VXLOCK, VXWANT, v_type, v_data>>
    BY <1>1, <1>2 DEF Drained, VOP_LOCK, Inv, Types, TypeOK, counts, flags, ident
  <1>5. At(v)
    BY <1>1, <1>3, <1>4 DEF At, Moves
  <1>6. /\ Cleans(p, v)' /\ (IsRef(p, v)' <=> IsRef(p, v)) /\ (Takes(p, v)' <=> Takes(p, v))
        /\ \A q \in Procs \ {p} : /\ IsRef(q, v)' <=> IsRef(q, v)
                                  /\ Cleans(q, v)' <=> Cleans(q, v)
                                  /\ Takes(q, v)' <=> Takes(q, v)
    BY <1>1, <1>3, Beside DEF IsRef, Cleans, Takes, RefPcs, Cleaning
  <1>7. Types'
    BY <1>3, <1>4 DEF Drained, Inv, Types, TypeOK, names
  <1>8. Works'
    BY <1>1, <1>3 DEF Inv, Works, Moves, Same, RefPcs
  <1>9. CacheOK'
    <2>1. RightWaits
      BY <1>3, <1>4 DEF RightWaits, StillWaits, Moves, Same
    <2> QED  BY <1>4, <2>1, CacheSame DEF Drained
  <1>11. ~panicked'
    BY DEF Drained, Inv
  <1>10. Good(v)'
    <2>1. TypeAt(v)'
      BY <1>1, <1>2, <1>3, <1>4 DEF Good, TypeAt, Moves, Same
    <2>2. CountAt(v)'
      BY <1>1, <1>4, <1>6, CountSame DEF Good
    <2>3. CleanAt(v)'
      BY <1>1, <1>2, <1>3, <1>4, <1>6 DEF Good, CleanAt, Moves, Same, SleepsOnVnode
    <2>4. LockAt(v)'
      BY <1>1, <1>2, <1>3, <1>4, VnodeConstants DEF Good, LockAt, Moves, Same, Dead
    <2>5. ReclaimedAt(v)'
      BY <1>1, <1>2, <1>3, <1>4 DEF Good, ReclaimedAt, Moves, Same
    <2>6. DataAt(v)'
      BY <1>1, <1>2, <1>3, <1>4 DEF Good, DataAt, Moves, Same, RefPcs
    <2>7. AloneAt(v)'
      BY <1>1, <1>2, <1>3, <1>4, <1>6, VnodeConstants DEF Good, AloneAt, LockAt, Moves, Same,
         Cleaning
    <2>8. TakerAt(v)'
      BY <1>1, <1>2, <1>3, <1>4, <1>6 DEF Good, TakerAt, Moves, Same, Dead
    <2>9. ListedAt(v)'
      BY <1>1, <1>2, <1>3, <1>4, <1>6 DEF Good, ListedAt
    <2> QED  BY <2>1, <2>2, <2>3, <2>4, <2>5, <2>6, <2>7, <2>8, <2>9 DEF Good
  <1> QED  BY <1>5, <1>7, <1>8, <1>9, <1>10, <1>11, Elsewhere DEF Inv

\* VOP_RECLAIM and the purge keep the invariant.
LEMMA ReclaimInv ==
  ASSUME Inv, ~again, NEW p \in Procs, Reclaim(p)
  PROVE  Inv'
  <1>0. PICK v \in Vnodes : v = vp[p]
    BY DEF Inv, Works, Types, TypeOK, Reclaim
  <1>1. /\ Good(v) /\ vp[p] = v /\ pc[p] = "clean" /\ None \notin Vnodes \cup Procs
        /\ Cleans(p, v)
    BY <1>0, VnodeConstants DEF Inv, Reclaim, Cleans, Cleaning
  <1>2. /\ VXLOCK[v] /\ v_type[v] = "VNON" /\ ~Dead(v) /\ v_lock[v] = p
        /\ \A q \in Procs : vp[q] = v => pc[q] \notin {"locked", "iput", "inactive", "io"}
    BY <1>1 DEF Good, CleanAt, TypeAt, LockAt, Dead
  <1>3. /\ pc'[p] = "reclaim" /\ pc' \in [Procs -> Pcs]
        /\ vp' = vp /\ want' = want /\ vpid' \in [Procs -> Ids] /\ active' = active /\ Moves(p)
    BY <1>1 DEF Reclaim, Stay, Moves, Same, Inv, Types, TypeOK, Pcs, Cleaning
  <1>4. /\ v_lock' \in [Vnodes -> Procs \cup {None}] /\ v_lock'[v] = None
        /\ v_data' \in [Vnodes -> Files \cup {None}] /\ v_data'[v] = None
        /\ \A u \in Vnodes \ {v} : v_lock'[u] = v_lock[u] /\ v_data'[u] = v_data[u]
        /\ UNCHANGED <<v_usecount, freelist, deadb, VXLOCK, VXWANT, v_type>>
    BY <1>1, <1>2 DEF Reclaim, VOP_UNLOCK, Inv, Types, TypeOK, counts, flags
  <1>5. At(v)
    BY <1>1, <1>3, <1>4 DEF At, Moves
  <1>6. /\ Cleans(p, v)' /\ (IsRef(p, v)' <=> IsRef(p, v)) /\ (Takes(p, v)' <=> Takes(p, v))
        /\ \A q \in Procs \ {p} : /\ IsRef(q, v)' <=> IsRef(q, v)
                                  /\ Cleans(q, v)' <=> Cleans(q, v)
                                  /\ Takes(q, v)' <=> Takes(q, v)
    BY <1>1, <1>3, Beside DEF IsRef, Cleans, Takes, RefPcs, Cleaning
  <1>a. /\ CacheOK' /\ cache' \subseteq CacheEntry
        /\ v_id' \in [Vnodes -> 0 .. IdMod - 1] /\ nextvnodeid' \in 0 .. IdMod - 1
    <2>1. \A q \in Procs : pc'[q] = "vgetlock" => StillWaits(q)
      BY <1>3 DEF StillWaits, Moves, Same
    <2> QED  BY <1>0, <1>4, <2>1, CachePurged DEF Reclaim
  <1>7. Types'
    BY <1>3, <1>4, <1>a DEF Reclaim, Inv, Types, TypeOK
  <1>8. Works'
    BY <1>1, <1>3 DEF Inv, Works, Moves, Same, RefPcs
  <1>9. CacheOK'
    BY <1>a
  <1>11. ~panicked'
    BY DEF Reclaim, Inv
  <1>10. Good(v)'
    <2>1. TypeAt(v)'
      BY <1>1, <1>2, <1>3, <1>4 DEF Good, TypeAt, Moves, Same
    <2>2. CountAt(v)'
      BY <1>1, <1>4, <1>6, CountSame DEF Good
    <2>3. CleanAt(v)'
      BY <1>1, <1>2, <1>3, <1>4, <1>6 DEF Good, CleanAt, Moves, Same, SleepsOnVnode
    <2>4. LockAt(v)'
      BY <1>1, <1>2, <1>3, <1>4 DEF Good, LockAt, Moves, Same, Dead
    <2>5. ReclaimedAt(v)'
      BY <1>1, <1>2, <1>3, <1>4 DEF Good, ReclaimedAt, Moves, Same
    <2>6. DataAt(v)'
      BY <1>1, <1>2, <1>3, <1>4 DEF Good, DataAt, Moves, Same, RefPcs
    <2>7. AloneAt(v)'
      BY <1>1, <1>2, <1>3, <1>4, <1>6, VnodeConstants DEF Good, AloneAt, LockAt, Moves, Same,
         Cleaning
    <2>8. TakerAt(v)'
      BY <1>1, <1>2, <1>3, <1>4, <1>6 DEF Good, TakerAt, Moves, Same, Dead
    <2>9. ListedAt(v)'
      BY <1>1, <1>2, <1>3, <1>4, <1>6 DEF Good, ListedAt
    <2> QED  BY <2>1, <2>2, <2>3, <2>4, <2>5, <2>6, <2>7, <2>8, <2>9 DEF Good
  <1> QED  BY <1>5, <1>7, <1>8, <1>9, <1>10, <1>11, Elsewhere DEF Inv

\* vclean's own vrele keeps the invariant.
LEMMA SelfReleInv ==
  ASSUME Inv, ~again, NEW p \in Procs, SelfRele(p)
  PROVE  Inv'
  <1>0. PICK v \in Vnodes : v = vp[p]
    BY DEF Inv, Works, Types, TypeOK, SelfRele
  <1>1. /\ Good(v) /\ vp[p] = v /\ pc[p] = "reclaim" /\ active[p] /\ v_usecount[v] = 1
        /\ IsRef(p, v) /\ Cleans(p, v) /\ None \notin Procs
    BY <1>0, VnodeConstants DEF Inv, SelfRele, IsRef, Cleans, Cleaning
  <1>2. /\ \A q \in Procs : IsRef(q, v) => q = p
        /\ \A q \in Procs : Cleans(q, v) => q = p
        /\ VXLOCK[v] /\ v_type[v] = "VNON" /\ v_data[v] = None /\ v_lock[v] \in Procs \cup {None}
    BY <1>1, LastRef DEF Good, CleanAt, TypeAt, ReclaimedAt, Inv, Types, TypeOK
  <1>3. /\ pc'[p] = "selfrele" /\ pc' \in [Procs -> Pcs]
        /\ vp' = vp /\ want' = want /\ vpid' \in [Procs -> Ids] /\ active' = active /\ Moves(p)
    BY <1>1 DEF SelfRele, Stay, Moves, Same, Inv, Types, TypeOK, Pcs, SleepsOnVnode
  <1>a. /\ VXWANT' \in [Vnodes -> BOOLEAN] /\ VXWANT'[v]
        /\ \A u \in Vnodes \ {v} : VXWANT'[u] = VXWANT[u]
        /\ UNCHANGED <<v_lock, VXLOCK, v_type, v_data>>
    BY <1>1 DEF SelfRele, SleepOn, ident, Inv, Types, TypeOK
  <1>4. /\ VXWANT' \in [Vnodes -> BOOLEAN] /\ VXWANT'[v]
        /\ \A u \in Vnodes \ {v} : VXWANT'[u] = VXWANT[u]
        /\ UNCHANGED <<v_lock, VXLOCK, v_type, v_data>>
        /\ IsTailQ(freelist', Vnodes)
        /\ ToSet(freelist') = ToSet(freelist) \cup {v}
        /\ deadb' \in [Vnodes -> BOOLEAN] /\ ~deadb'[v]
        /\ \A u \in Vnodes \ {v} : deadb'[u] = deadb[u]
        /\ v_usecount' \in [Vnodes -> Nat]
        /\ v_usecount'[v] = v_usecount[v] - 1
        /\ \A u \in Vnodes \ {v} : v_usecount'[u] = v_usecount[u]
    BY <1>1, <1>a, ReleaseLists DEF SelfRele
  <1>5. At(v)
    BY <1>1, <1>3, <1>4 DEF At, Moves
  <1>h. \A q \in Procs : ~Takes(q, v)
    BY <1>1 DEF Good, AloneAt, Takes
  <1>6. /\ ~IsRef(p, v)' /\ Cleans(p, v)' /\ \A q \in Procs : ~Takes(q, v) /\ ~Takes(q, v)'
        /\ \A q \in Procs \ {p} : /\ IsRef(q, v)' <=> IsRef(q, v)
                                  /\ Cleans(q, v)' <=> Cleans(q, v)
    BY <1>1, <1>3, <1>h, Beside DEF IsRef, Cleans, Takes, RefPcs, Cleaning
  <1>7. Types'
    BY <1>3, <1>4 DEF SelfRele, Inv, Types, TypeOK, names
  <1>8. Works'
    BY <1>1, <1>3 DEF Inv, Works, Moves, Same, RefPcs
  <1>9. CacheOK'
    <2>1. RightWaits
      BY <1>3, <1>4 DEF RightWaits, StillWaits, Moves, Same
    <2> QED  BY <1>4, <2>1, CacheSame DEF SelfRele
  <1>11. ~panicked'
    BY DEF SelfRele, Inv
  <1>10. Good(v)'
    <2>1. TypeAt(v)'
      BY <1>1, <1>2, <1>3, <1>4 DEF Good, TypeAt, Moves, Same
    <2>2. CountAt(v)'
      BY <1>1, <1>4, <1>6, CountLess DEF Good
    <2>3. CleanAt(v)'
      BY <1>1, <1>2, <1>3, <1>4, <1>6 DEF Good, CleanAt, Moves, Same, SleepsOnVnode
    <2>4. LockAt(v)'
      BY <1>1, <1>2, <1>3, <1>4, VnodeConstants DEF Good, LockAt, Moves, Same, Dead
    <2>5. ReclaimedAt(v)'
      BY <1>1, <1>2, <1>3, <1>4 DEF Good, ReclaimedAt, Moves, Same
    <2>6. DataAt(v)'
      BY <1>1, <1>2, <1>3, <1>4 DEF Good, DataAt, Moves, Same, RefPcs
    <2>7. AloneAt(v)'
      BY <1>1, <1>2, <1>3, <1>4, <1>6, VnodeConstants DEF Good, AloneAt, LockAt, Moves, Same,
         Cleaning
    <2>8. TakerAt(v)'
      BY <1>1, <1>2, <1>3, <1>4, <1>6 DEF Good, TakerAt, Moves, Same, Dead
    <2>9. ListedAt(v)'
      BY <1>1, <1>2, <1>3, <1>4, <1>6 DEF Good, ListedAt
    <2> QED  BY <2>1, <2>2, <2>3, <2>4, <2>5, <2>6, <2>7, <2>8, <2>9 DEF Good
  <1> QED  BY <1>5, <1>7, <1>8, <1>9, <1>10, <1>11, Elsewhere DEF Inv

\* vref keeps the invariant.
LEMMA VrefInv ==
  ASSUME Inv, ~again, NEW r \in Procs, NEW p \in Procs, vref(r, p)
  PROVE  Inv'
  <1>0. PICK v \in Vnodes : v = vp[r]
    BY DEF Inv, Works, Types, TypeOK, vref
  <1>1. /\ Good(v) /\ vp[r] = v /\ pc[r] = "ref" /\ want[r] \in Files /\ IsRef(r, v)
        /\ pc[p] = "idle" /\ vp[p] = None /\ None \notin Vnodes \cup Procs
    BY <1>0, VnodeConstants DEF Inv, Works, vref, RefPcs, IsRef
  <1>2. /\ v_usecount[v] \in Nat /\ v_usecount[v] > 0
        /\ v_type[v] # "none" /\ v_data[v] \in {want[r], None}
        /\ v_lock[v] \in Procs \cup {None}
    BY <1>1, LastRef DEF Good, DataAt, TypeAt, RefPcs, Inv, Types, TypeOK
  <1>3. /\ pc' \in [Procs -> Pcs] /\ vp' \in [Procs -> Vnodes \cup {None}]
        /\ want' \in [Procs -> Files \cup {None}] /\ vpid' \in [Procs -> Ids] /\ active' = active /\ Moves(p)
        /\ pc'[p] = "ref" /\ vp'[p] = v /\ want'[p] = want[r]
    BY <1>1 DEF vref, Goto, Moves, Same, Inv, Types, TypeOK, Pcs
  <1>4. /\ v_usecount' \in [Vnodes -> Nat]
        /\ v_usecount'[v] = v_usecount[v] + 1
        /\ \A u \in Vnodes \ {v} : v_usecount'[u] = v_usecount[u]
        /\ UNCHANGED <<v_lock, VXLOCK, VXWANT, v_type, v_data, freelist, deadb>>
    BY <1>1 DEF vref, flags, ident, Inv, Types, TypeOK
  <1>5. At(v)
    BY <1>1, <1>3, <1>4 DEF At, Moves
  <1>6. /\ ~IsRef(p, v) /\ IsRef(p, v)' /\ ~Cleans(p, v) /\ ~Cleans(p, v)'
        /\ ~Takes(p, v) /\ ~Takes(p, v)'
        /\ \A q \in Procs \ {p} : /\ IsRef(q, v)' <=> IsRef(q, v)
                                  /\ Cleans(q, v)' <=> Cleans(q, v)
                                  /\ Takes(q, v)' <=> Takes(q, v)
    BY <1>1, <1>3, Beside DEF IsRef, Cleans, Takes, RefPcs, Cleaning
  <1>7. Types'
    BY <1>3, <1>4 DEF vref, Inv, Types, TypeOK, names
  <1>8. Works'
    BY <1>1, <1>3 DEF Inv, Works, Moves, Same, RefPcs
  <1>9. CacheOK'
    <2>1. RightWaits
      BY <1>3, <1>4 DEF RightWaits, StillWaits, Moves, Same
    <2> QED  BY <1>4, <2>1, CacheSame DEF vref
  <1>11. ~panicked'
    <2>1. ~(v_usecount[vp[r]] <= 0)
      BY <1>1, <1>2
    <2> QED  BY <2>1, Zenon DEF vref, Inv
  <1>10. Good(v)'
    <2>1. TypeAt(v)'
      BY <1>1, <1>2, <1>3, <1>4 DEF Good, TypeAt, Moves, Same
    <2>2. CountAt(v)'
      BY <1>1, <1>4, <1>6, CountMore DEF Good
    <2>3. CleanAt(v)'
      BY <1>1, <1>2, <1>3, <1>4, <1>6 DEF Good, CleanAt, Moves, Same, SleepsOnVnode
    <2>4. LockAt(v)'
      BY <1>1, <1>2, <1>3, <1>4, VnodeConstants DEF Good, LockAt, Moves, Same, Dead
    <2>5. ReclaimedAt(v)'
      BY <1>1, <1>2, <1>3, <1>4 DEF Good, ReclaimedAt, Moves, Same
    <2>6. DataAt(v)'
      BY <1>1, <1>2, <1>3, <1>4 DEF Good, DataAt, Moves, Same, RefPcs
    <2>7. AloneAt(v)'
      BY <1>1, <1>2, <1>3, <1>4, <1>6, VnodeConstants DEF Good, AloneAt, LockAt, Moves, Same,
         Cleaning
    <2>8. TakerAt(v)'
      BY <1>1, <1>2, <1>3, <1>4, <1>6 DEF Good, TakerAt, Moves, Same, Dead
    <2>9. ListedAt(v)'
      BY <1>1, <1>2, <1>3, <1>4, <1>6 DEF Good, ListedAt
    <2> QED  BY <2>1, <2>2, <2>3, <2>4, <2>5, <2>6, <2>7, <2>8, <2>9 DEF Good
  <1> QED  BY <1>5, <1>7, <1>8, <1>9, <1>10, <1>11, Elsewhere DEF Inv

\* A step on the name cache alone keeps the invariant.
LEMMA CacheStep ==
  ASSUME Inv, UNCHANGED <<counts, flags, ident, v_lock, v_id, nextvnodeid, local, panicked>>,
         cache' \subseteq CacheEntry, CacheOK'
  PROVE  Inv'
  <1>1. At(None)
    BY DEF At, Same, counts, flags, ident, local
  <1>2. \A u \in Vnodes : u # None
    BY VnodeConstants
  <1>3. Types' /\ Works' /\ ~panicked'
    BY DEF Inv, Types, TypeOK, Works, counts, flags, ident, local
  <1> QED  BY <1>1, <1>2, <1>3, Elsewhere DEF Inv

\* Nothing happens.
LEMMA StutterInv ==
  ASSUME Inv, UNCHANGED vars
  PROVE  Inv'
  <1>1. CacheOK' /\ cache' \subseteq CacheEntry
    BY DEF vars, names, ident, local, Inv, Types, CacheOK, LooksValid
  <1> QED  BY <1>1, CacheStep DEF vars, names

\* cache_enter keeps the invariant.
LEMMA CacheEnterInv ==
  ASSUME Inv, ~again, NEW p \in Procs, cache_enter(p)
  PROVE  Inv'
  <1>0. PICK v \in Vnodes : v = vp[p]
    BY DEF Inv, Works, Types, TypeOK, cache_enter
  <1>1. /\ vp[p] = v /\ want[p] \in Files /\ v_data[v] = want[p]
        /\ v_id[v] \in 0 .. IdMod - 1 /\ nextvnodeid \in 0 .. IdMod - 1 /\ IdMod \in Nat
        /\ cache \subseteq CacheEntry
    BY <1>0, VnodeConstants DEF Inv, Works, Good, DataAt, cache_enter, Types, TypeOK, RefPcs
  <1>2. PICK b \in BOOLEAN : b <=> v_id[v] > nextvnodeid
    BY Zenon
  <1> DEFINE e == [name |-> want[p], vp |-> v, vpid |-> v_id[v], older |-> b]
  <1>3. e \in CacheEntry
    BY <1>1 DEF CacheEntry
  <1>4. cache' \subseteq cache \cup {e}
    BY <1>0, <1>2 DEF cache_enter
  <1>5. UNCHANGED <<v_data, v_id, nextvnodeid, again, pc, vp, want, vpid>>
    BY DEF cache_enter, local, ident
  <1>6. CacheOK'
    <2>1. ~e.older => e.vpid <= nextvnodeid
      BY <1>1, <1>2
    <2>2. v_data[e.vp] = e.name
      BY <1>1
    <2> HIDE DEF e
    <2> QED  BY <1>4, <1>5, <2>1, <2>2 DEF Inv, CacheOK, LooksValid
  <1> QED  BY <1>1, <1>3, <1>4, <1>6, CacheStep DEF cache_enter

\* A cache entry is reused.
LEMMA PurgeEntryInv ==
  ASSUME Inv, ~again, NEW e, PurgeEntry(e)
  PROVE  Inv'
  <1>1. cache' \subseteq CacheEntry
    BY DEF PurgeEntry, Inv, Types
  <1>2. CacheOK'
    BY DEF PurgeEntry, Inv, CacheOK, LooksValid, local, ident
  <1> QED  BY <1>1, <1>2, CacheStep DEF PurgeEntry

\* vget of a vnode being cleaned sleeps or fails.
LEMMA VgetSleeps ==
  ASSUME Inv, ~again, NEW p \in Procs, NEW v \in Vnodes, NEW f \in Files, NEW id \in Ids,
         pc[p] = "idle", VXLOCK[v], vget(p, v, f, id)
  PROVE  Inv'
  <1>1. Good(v) /\ pc[p] = "idle" /\ vp[p] = None /\ None \notin Vnodes \cup Procs /\ VXLOCK[v]
    BY VnodeConstants DEF Inv, Works
  <1>2. v_type[v] = "VNON" /\ v_lock[v] \in Procs \cup {None}
    BY <1>1 DEF Good, TypeAt, Inv, Types, TypeOK
  <1>3. /\ pc' \in [Procs -> Pcs] /\ vp' \in [Procs -> Vnodes \cup {None}]
        /\ want' \in [Procs -> Files \cup {None}] /\ vpid' \in [Procs -> Ids] /\ active' = active /\ Moves(p)
        /\ pc'[p] = "vget" /\ vp'[p] = v
    BY <1>1 DEF vget, Goto, Moves, Same, Inv, Types, TypeOK, Pcs, SleepsOnVnode
  <1>4. /\ VXWANT' \in [Vnodes -> BOOLEAN] /\ VXWANT'[v]
        /\ \A u \in Vnodes \ {v} : VXWANT'[u] = VXWANT[u]
        /\ UNCHANGED <<v_usecount, v_lock, VXLOCK, v_type, v_data, freelist, deadb>>
    BY <1>1 DEF vget, SleepOn, ident, Inv, Types, TypeOK
  <1>5. At(v)
    BY <1>1, <1>3, <1>4 DEF At, Moves
  <1>6. /\ ~IsRef(p, v) /\ ~IsRef(p, v)' /\ ~Cleans(p, v) /\ ~Cleans(p, v)'
        /\ ~Takes(p, v) /\ ~Takes(p, v)'
        /\ \A q \in Procs \ {p} : /\ IsRef(q, v)' <=> IsRef(q, v)
                                  /\ Cleans(q, v)' <=> Cleans(q, v)
                                  /\ Takes(q, v)' <=> Takes(q, v)
    BY <1>1, <1>3, Beside DEF IsRef, Cleans, Takes, RefPcs, Cleaning
  <1>7. Types'
    BY <1>3, <1>4 DEF vget, Inv, Types, TypeOK, names
  <1>8. Works'
    BY <1>1, <1>3 DEF Inv, Works, Moves, Same, RefPcs
  <1>9. CacheOK'
    <2>1. RightWaits
      BY <1>3, <1>4 DEF RightWaits, StillWaits, Moves, Same
    <2> QED  BY <1>4, <2>1, CacheSame DEF vget
  <1>11. ~panicked'
    BY <1>1 DEF vget, Inv
  <1>10. Good(v)'
    <2>1. TypeAt(v)'
      BY <1>1, <1>2, <1>3, <1>4 DEF Good, TypeAt, Moves, Same
    <2>2. CountAt(v)'
      BY <1>1, <1>4, <1>6, CountSame DEF Good
    <2>3. CleanAt(v)'
      BY <1>1, <1>2, <1>3, <1>4, <1>6 DEF Good, CleanAt, Moves, Same, SleepsOnVnode
    <2>4. LockAt(v)'
      BY <1>1, <1>2, <1>3, <1>4, VnodeConstants DEF Good, LockAt, Moves, Same, Dead
    <2>5. ReclaimedAt(v)'
      BY <1>1, <1>2, <1>3, <1>4 DEF Good, ReclaimedAt, Moves, Same
    <2>6. DataAt(v)'
      BY <1>1, <1>2, <1>3, <1>4 DEF Good, DataAt, Moves, Same, RefPcs
    <2>7. AloneAt(v)'
      BY <1>1, <1>2, <1>3, <1>4, <1>6, VnodeConstants DEF Good, AloneAt, LockAt, Moves, Same,
         Cleaning
    <2>8. TakerAt(v)'
      BY <1>1, <1>2, <1>3, <1>4, <1>6 DEF Good, TakerAt, Moves, Same, Dead
    <2>9. ListedAt(v)'
      BY <1>1, <1>2, <1>3, <1>4, <1>6 DEF Good, ListedAt
    <2> QED  BY <2>1, <2>2, <2>3, <2>4, <2>5, <2>6, <2>7, <2>8, <2>9 DEF Good
  <1> QED  BY <1>5, <1>7, <1>8, <1>9, <1>10, <1>11, Elsewhere DEF Inv

\* vget of any other vnode takes a reference.
LEMMA VgetGets ==
  ASSUME Inv, ~again, NEW p \in Procs, NEW v \in Vnodes, NEW f \in Files, NEW id \in Ids,
         pc[p] = "idle", ~VXLOCK[v], v_data[v] = f, vget(p, v, f, id)
  PROVE  Inv'
  <1>1. /\ Good(v) /\ pc[p] = "idle" /\ vp[p] = None /\ None \notin Vnodes \cup Procs \cup Files
        /\ ~VXLOCK[v] /\ v_data[v] = f
    BY VnodeConstants DEF Inv, Works
  <1>a. v_type[v] = "VNON" /\ ~Dead(v)
    BY <1>1 DEF Good, TypeAt, Dead
  <1>b. \A q \in Procs : ~Takes(q, v) /\ ~Cleans(q, v)
    BY <1>1, <1>a DEF Good, CleanAt, TakerAt, Takes, Cleans, SleepsOnVnode
  <1>2. /\ v_type[v] = "VNON" /\ ~Dead(v) /\ v_lock[v] \in Procs \cup {None}
        /\ \A q \in Procs : ~Takes(q, v) /\ ~Cleans(q, v)
        /\ v_usecount[v] = 0 <=> v \in ToSet(freelist)
    BY <1>1, <1>a, <1>b, NoRefs DEF Good, ListedAt, Inv, Types, TypeOK
  <1>3. /\ pc' \in [Procs -> Pcs] /\ vp' \in [Procs -> Vnodes \cup {None}]
        /\ want' \in [Procs -> Files \cup {None}] /\ vpid' \in [Procs -> Ids] /\ active' = active /\ Moves(p)
        /\ pc'[p] = IF v_lock[v] = None THEN "locked" ELSE "vgetlock"
        /\ vp'[p] = v /\ want'[p] = f
    BY <1>1, <1>2 DEF vget, Free, Goto, Moves, Same, Inv, Types, TypeOK, Pcs, LockWaits
  <1>c. IsTailQ(freelist', Vnodes) /\ ToSet(freelist') = ToSet(freelist) \ {v}
    BY <1>1, <1>2, RemoveProps DEF vget, Inv, Types
  <1>4. /\ v_usecount' \in [Vnodes -> Nat] /\ v_usecount'[v] = v_usecount[v] + 1
        /\ v_lock' \in [Vnodes -> Procs \cup {None}]
        /\ v_lock'[v] = IF v_lock[v] = None THEN p ELSE v_lock[v]
        /\ \A u \in Vnodes \ {v} : v_usecount'[u] = v_usecount[u] /\ v_lock'[u] = v_lock[u]
        /\ IsTailQ(freelist', Vnodes) /\ ToSet(freelist') = ToSet(freelist) \ {v}
        /\ UNCHANGED <<VXLOCK, VXWANT, v_type, v_data, deadb>>
    BY <1>1, <1>2, <1>c DEF vget, VOP_LOCK, Free, flags, ident, Inv, Types, TypeOK
  <1>5. At(v)
    BY <1>1, <1>3, <1>4 DEF At, Moves
  <1>6. /\ ~IsRef(p, v) /\ IsRef(p, v)' /\ ~Cleans(p, v)' /\ ~Takes(p, v)'
        /\ \A q \in Procs \ {p} : /\ IsRef(q, v)' <=> IsRef(q, v)
                                  /\ Cleans(q, v)' <=> Cleans(q, v)
                                  /\ Takes(q, v)' <=> Takes(q, v)
    BY <1>1, <1>3, Beside DEF IsRef, Cleans, Takes, RefPcs, Cleaning
  <1>7. Types'
    BY <1>3, <1>4 DEF vget, Inv, Types, TypeOK, names
  <1>8. Works'
    BY <1>1, <1>3 DEF Inv, Works, Moves, Same, RefPcs
  <1>9. CacheOK'
    <2>1. RightWaits
      BY <1>3, <1>4 DEF RightWaits, StillWaits, Moves, Same
    <2> QED  BY <1>4, <2>1, CacheSame DEF vget
  <1>11. ~panicked'
    <2>1. v_usecount[v] = 0 => OnFreelist(v)
      BY <1>2 DEF OnFreelist
    <2> QED  BY <1>1, <2>1, Zenon DEF vget, Inv
  <1>10. Good(v)'
    <2>1. TypeAt(v)'
      BY <1>1, <1>2, <1>3, <1>4 DEF Good, TypeAt, Moves, Same
    <2>2. CountAt(v)'
      BY <1>1, <1>4, <1>6, CountMore DEF Good
    <2>3. CleanAt(v)'
      BY <1>1, <1>2, <1>3, <1>4, <1>6 DEF Good, CleanAt, Moves, Same, SleepsOnVnode
    <2>4. LockAt(v)'
      BY <1>1, <1>2, <1>3, <1>4, VnodeConstants DEF Good, LockAt, Moves, Same, Dead
    <2>5. ReclaimedAt(v)'
      BY <1>1, <1>2, <1>3, <1>4 DEF Good, ReclaimedAt, Cleans, Cleaning, Moves, Same
    <2>6. DataAt(v)'
      BY <1>1, <1>2, <1>3, <1>4 DEF Good, DataAt, Moves, Same, RefPcs
    <2>7. AloneAt(v)'
      BY <1>1, <1>2, <1>3, <1>4, <1>6 DEF Good, AloneAt, LockAt, Moves, Same, Cleans, Cleaning
    <2>8. TakerAt(v)'
      BY <1>1, <1>2, <1>3, <1>4, <1>6 DEF Good, TakerAt, Moves, Same, Dead
    <2>9. ListedAt(v)'
      BY <1>1, <1>2, <1>3, <1>4, <1>6 DEF Good, ListedAt
    <2> QED  BY <2>1, <2>2, <2>3, <2>4, <2>5, <2>6, <2>7, <2>8, <2>9 DEF Good
  <1> QED  BY <1>5, <1>7, <1>8, <1>9, <1>10, <1>11, Elsewhere DEF Inv

\* A lookup through the cache keeps the invariant.
LEMMA LookupInv ==
  ASSUME Inv, ~again, NEW p \in Procs, NEW e \in cache, Lookup(p, e)
  PROVE  Inv'
  <1>1. e.vp \in Vnodes /\ e.name \in Files
    BY DEF Inv, Types, CacheEntry
  <1>2. pc[p] = "idle" /\ vget(p, e.vp, e.name, v_id[e.vp])
    BY DEF Lookup
  <1>3. v_data[e.vp] = e.name
    BY DEF Lookup, Inv, CacheOK
  <1>4. v_id[e.vp] \in Ids
    BY <1>1 DEF Inv, Types, TypeOK, Ids
  <1> QED  BY <1>1, <1>2, <1>3, <1>4, VgetSleeps, VgetGets

\* A new vnode is the finder's alone.
LEMMA NewVnodeInv ==
  ASSUME Inv, ~again, NEW p \in Procs, NEW v \in Vnodes, NEW f \in Files, NewVnode(p, v, f),
         vp[p] \in {v, None}, \A q \in Procs \ {p} : vp[q] # v,
         IsTailQ(freelist', Vnodes), v \notin ToSet(freelist'),
         \A u \in Vnodes \ {v} : u \in ToSet(freelist') <=> u \in ToSet(freelist),
         deadb' \in [Vnodes -> BOOLEAN], \A u \in Vnodes \ {v} : deadb'[u] = deadb[u],
         UNCHANGED <<active, vpid>>, panicked' = FALSE
  PROVE  Inv'
  <1>1. Good(v) /\ None \notin Vnodes \cup Procs \cup Files /\ \A q \in Procs \ {p} : vp[q] # v
    BY VnodeConstants DEF Inv
  <1>2. v \notin ToSet(freelist')
    OBVIOUS
  <1>3. /\ pc' \in [Procs -> Pcs] /\ vp' \in [Procs -> Vnodes \cup {None}]
        /\ want' \in [Procs -> Files \cup {None}] /\ vpid' \in [Procs -> Ids] /\ active' = active /\ Moves(p)
        /\ pc'[p] = "locked" /\ vp'[p] = v /\ want'[p] = f
    BY DEF NewVnode, Goto, Moves, Same, Inv, Types, TypeOK, Pcs
  <1>4. /\ v_usecount' \in [Vnodes -> Nat] /\ v_usecount'[v] = 1
        /\ v_lock' \in [Vnodes -> Procs \cup {None}] /\ v_lock'[v] = p
        /\ v_type' \in [Vnodes -> {"none", "VNON", "VBAD"}] /\ v_type'[v] = "VNON"
        /\ v_data' \in [Vnodes -> Files \cup {None}] /\ v_data'[v] = f
        /\ VXLOCK' \in [Vnodes -> BOOLEAN] /\ ~VXLOCK'[v]
        /\ VXWANT' \in [Vnodes -> BOOLEAN]
        /\ \A u \in Vnodes \ {v} :
             /\ v_usecount'[u] = v_usecount[u] /\ v_lock'[u] = v_lock[u] /\ v_type'[u] = v_type[u]
             /\ v_data'[u] = v_data[u] /\ VXLOCK'[u] = VXLOCK[u] /\ VXWANT'[u] = VXWANT[u]
    BY DEF NewVnode, Inv, Types, TypeOK
  <1>5. At(v)
    BY <1>1, <1>3, <1>4 DEF At, Moves
  <1>6. /\ IsRef(p, v)' /\ ~Cleans(p, v)' /\ ~Takes(p, v)'
        /\ \A q \in Procs \ {p} : vp'[q] # v /\ ~IsRef(q, v)' /\ ~Cleans(q, v)' /\ ~Takes(q, v)'
    BY <1>1, <1>3 DEF IsRef, Cleans, Takes, RefPcs, Cleaning, Moves, Same
  <1>a. /\ CacheOK' /\ cache' \subseteq CacheEntry
        /\ v_id' \in [Vnodes -> 0 .. IdMod - 1] /\ nextvnodeid' \in 0 .. IdMod - 1
    <2>1. \A q \in Procs : pc'[q] = "vgetlock" => StillWaits(q)
      BY <1>3 DEF StillWaits, Moves, Same
    <2> QED  BY <1>4, <2>1, CachePurged DEF NewVnode
  <1>7. Types'
    BY <1>3, <1>4, <1>a DEF Inv, Types, TypeOK
  <1>8. Works'
    BY <1>1, <1>3 DEF Inv, Works, Moves, Same, RefPcs
  <1>9. CacheOK'
    BY <1>a
  <1>11. ~panicked'
    OBVIOUS
  <1>10. Good(v)'
    <2>1. TypeAt(v)'
      BY <1>1, <1>4 DEF TypeAt
    <2>2. CountAt(v)'
      <3>1. Refs(v)' = {p}
        BY <1>6 DEF Refs
      <3> QED  BY <1>4, <3>1, FS_Singleton, ZenonT(80) DEF CountAt
    <2>3. CleanAt(v)'
      BY <1>3, <1>4, <1>6 DEF CleanAt, SleepsOnVnode
    <2>4. LockAt(v)'
      BY <1>1, <1>3, <1>4, <1>6 DEF LockAt
    <2>5. ReclaimedAt(v)'
      BY <1>3, <1>6 DEF ReclaimedAt
    <2>6. DataAt(v)'
      BY <1>3, <1>4, <1>6 DEF DataAt
    <2>7. AloneAt(v)'
      BY <1>3, <1>6 DEF AloneAt, Cleaning
    <2>8. TakerAt(v)'
      BY <1>3, <1>6 DEF TakerAt
    <2>9. ListedAt(v)'
      BY <1>2, <1>6 DEF ListedAt
    <2> QED  BY <2>1, <2>2, <2>3, <2>4, <2>5, <2>6, <2>7, <2>8, <2>9 DEF Good
  <1> QED  BY <1>5, <1>7, <1>8, <1>9, <1>10, <1>11, Elsewhere DEF Inv

\* At a dead vnode without references is only the getnewvnode that takes it.
LEMMA DeadAlone ==
  ASSUME Inv, NEW v \in Vnodes, v_type[v] # "VNON", \A q \in Procs : ~IsRef(q, v),
         NEW p \in Procs, vp[p] = v
  PROVE  Takes(p, v)
  <1>1. /\ Good(v) /\ pc[p] \in Pcs /\ pc[p] \notin {"idle", "relelock", "vrele"}
        /\ None \notin Vnodes \cup Procs \cup Files
    BY VnodeConstants DEF Inv, Works, Types, TypeOK
  <1>2. pc[p] \notin RefPcs
    BY DEF IsRef
  <1>3. v_data[v] = None /\ ~VXLOCK[v]
    BY <1>1 DEF Good, TypeAt
  <1>4. pc[p] # "inactive"
    BY <1>1, <1>3 DEF Good, DataAt, Inv, Works
  <1>5. pc[p] \notin SleepsOnVnode \cup Cleaning
    BY <1>1, <1>3 DEF Good, CleanAt, Cleans
  <1>6. pc[p] = "newvnode"
    BY <1>1, <1>2, <1>4, <1>5 DEF Pcs, RefPcs, LockWaits
  <1>7. want[p] \in Files
    BY <1>6 DEF Inv, Works
  <1> QED  BY <1>1, <1>6, <1>7 DEF Takes

\* getnewvnode takes a clean vnode.
LEMMA TakeCleanedInv ==
  ASSUME Inv, ~again, NEW p \in Procs, TakeCleaned(p)
  PROVE  Inv'
  <1>0. PICK v \in Vnodes : v = vp[p]
    BY DEF Inv, Works, Types, TypeOK, TakeCleaned
  <1>1. /\ Good(v) /\ vp[p] = v /\ pc[p] = "newvnode" /\ want[p] \in Files /\ Takes(p, v)
        /\ IsTailQ(freelist, Vnodes) /\ deadb \in [Vnodes -> BOOLEAN] /\ ~panicked
    BY <1>0, VnodeConstants DEF Inv, Works, TakeCleaned, Takes, Types
  <1>2. v_type[v] # "VNON" /\ v \notin ToSet(freelist) /\ \A q \in Procs : ~IsRef(q, v)
    BY <1>1 DEF Good, TakerAt, AloneAt, ListedAt, Dead
  <1>3. \A q \in Procs \ {p} : vp[q] # v
    BY <1>1, <1>2, DeadAlone DEF Good, TakerAt
  <1>4. NewVnode(p, v, want[p]) /\ UNCHANGED <<freelist, deadb, active, vpid>> /\ panicked' = FALSE
    BY <1>1, Zenon DEF TakeCleaned, Inv, Types, TypeOK
  <1> QED  BY <1>1, <1>2, <1>3, <1>4, NewVnodeInv

\* getnewvnode starts a vgonel.
LEMMA TakeVgonel ==
  ASSUME Inv, ~again, NEW p \in Procs, NEW v \in Vnodes, NEW f \in Files, pc[p] = "idle",
         v \in ToSet(freelist), ~Dead(v), vgonel(p, v, f),
         IsTailQ(freelist', Vnodes), ToSet(freelist') = ToSet(freelist) \ {v},
         deadb' = [deadb EXCEPT ![v] = TRUE], panicked' = FALSE,
         UNCHANGED <<v_type, v_data, v_lock, names, vpid>>
  PROVE  Inv'
  <1>1. /\ Good(v) /\ pc[p] = "idle" /\ vp[p] = None /\ None \notin Vnodes \cup Procs \cup Files
        /\ v \in ToSet(freelist)
    BY VnodeConstants DEF Inv, Works
  <1>2. /\ v_type[v] = "VNON" /\ v_usecount[v] = 0 /\ v_lock[v] \in Procs \cup {None}
        /\ \A q \in Procs : ~IsRef(q, v) /\ ~Takes(q, v)
    BY <1>1, NoRefs DEF Good, ListedAt, Dead, Inv, Types, TypeOK
  <1>a. \/ /\ VXLOCK[v] /\ Goto(p, "newgone", v, f)
           /\ SleepOn(v) /\ UNCHANGED <<v_usecount, active>>
        \/ /\ ~VXLOCK[v] /\ Goto(p, "drain", v, f)
           /\ active' = [active EXCEPT ![p] = FALSE] /\ v_usecount' = v_usecount
           /\ VXLOCK' = [VXLOCK EXCEPT ![v] = TRUE] /\ VXWANT' = VXWANT
    <2>1. [v_usecount EXCEPT ![v] = IF @ > 0 THEN @ + 1 ELSE 0] = v_usecount /\ ~(v_usecount[v] > 0)
      BY <1>2 DEF Inv, Types, TypeOK
    <2>2. (v_usecount[v] > 0) = FALSE
      BY <2>1
    <2>3. [active EXCEPT ![p] = v_usecount[v] > 0] = [active EXCEPT ![p] = FALSE]
      BY ONLY <2>2, Zenon
    <2> QED  BY <1>1, <2>1, <2>3 DEF vgonel
  <1>3. /\ pc' \in [Procs -> Pcs] /\ vp' \in [Procs -> Vnodes \cup {None}]
        /\ want' \in [Procs -> Files \cup {None}] /\ vpid' \in [Procs -> Ids]
        /\ active' \in [Procs -> BOOLEAN] /\ Moves(p)
        /\ want'[p] = f /\ vp'[p] = v
        /\ \/ pc'[p] = "newgone" /\ VXLOCK[v]
           \/ pc'[p] = "drain" /\ ~VXLOCK[v] /\ ~active'[p]
    <2>1. /\ pc \in [Procs -> Pcs] /\ vp \in [Procs -> Vnodes \cup {None}]
          /\ want \in [Procs -> Files \cup {None}] /\ active \in [Procs -> BOOLEAN]
          /\ vpid \in [Procs -> Ids] /\ "newgone" \in Pcs /\ "drain" \in Pcs
      BY DEF Inv, Types, TypeOK, Pcs, SleepsOnVnode, Cleaning
    <2>2. CASE VXLOCK[v]
      BY <1>a, <2>1, <2>2 DEF Goto, Moves, Same
    <2>3. CASE ~VXLOCK[v]
      <3>1. /\ active' \in [Procs -> BOOLEAN] /\ ~active'[p]
            /\ \A q \in Procs \ {p} : active'[q] = active[q]
        BY <1>a, <2>1, <2>3
      <3>2. Goto(p, "drain", v, f)
        BY <1>a, <2>3
      <3> QED  BY <2>1, <2>3, <3>1, <3>2 DEF Goto, Moves, Same
    <2> QED  BY <2>2, <2>3
  <1>4. /\ v_usecount' = v_usecount
        /\ VXLOCK' \in [Vnodes -> BOOLEAN] /\ VXWANT' \in [Vnodes -> BOOLEAN]
        /\ VXLOCK'[v] <=> VXLOCK[v] \/ pc'[p] = "drain"
        /\ VXWANT[v] \/ pc'[p] = "newgone" => VXWANT'[v]
        /\ \A u \in Vnodes \ {v} : /\ VXLOCK'[u] = VXLOCK[u] /\ VXWANT'[u] = VXWANT[u]
                                   /\ deadb'[u] = deadb[u]
        /\ deadb' \in [Vnodes -> BOOLEAN] /\ deadb'[v]
        /\ ToSet(freelist') = ToSet(freelist) \ {v}
        /\ UNCHANGED <<v_type, v_data, v_lock>>
    BY <1>a, <1>3, ZenonT(80) DEF SleepOn, Inv, Types, TypeOK
  <1>5. At(v)
    BY <1>1, <1>3, <1>4 DEF At, Moves
  <1>6. /\ ~IsRef(p, v)' /\ ~Cleans(p, v) /\ Takes(p, v)'
        /\ Cleans(p, v)' <=> pc'[p] = "drain"
        /\ \A q \in Procs \ {p} : /\ IsRef(q, v)' <=> IsRef(q, v)
                                  /\ Cleans(q, v)' <=> Cleans(q, v)
                                  /\ Takes(q, v)' <=> Takes(q, v)
    BY <1>1, <1>3, Beside DEF IsRef, Cleans, Takes, RefPcs, Cleaning
  <1>7. Types'
    BY <1>3, <1>4 DEF Inv, Types, TypeOK, names
  <1>8. Works'
    BY <1>1, <1>3 DEF Inv, Works, Moves, Same, RefPcs
  <1>9. CacheOK'
    <2>1. RightWaits
      BY <1>3, <1>4 DEF RightWaits, StillWaits, Moves, Same
    <2> QED  BY <1>4, <2>1, CacheSame
  <1>11. ~panicked'
    OBVIOUS
  <1>10. Good(v)'
    <2>1. TypeAt(v)'
      BY <1>1, <1>2, <1>3, <1>4 DEF Good, TypeAt, Moves, Same
    <2>2. CountAt(v)'
      BY <1>1, <1>2, <1>4, <1>6, CountSame DEF Good
    <2>3. CleanAt(v)'
      BY <1>1, <1>2, <1>3, <1>4, <1>6 DEF Good, CleanAt, Moves, Same, SleepsOnVnode
    <2>4. LockAt(v)'
      BY <1>1, <1>2, <1>3, <1>4, VnodeConstants DEF Good, LockAt, Moves, Same, Dead
    <2>5. ReclaimedAt(v)'
      BY <1>1, <1>2, <1>3, <1>4 DEF Good, ReclaimedAt, Moves, Same
    <2>6. DataAt(v)'
      BY <1>1, <1>2, <1>3, <1>4 DEF Good, DataAt, Moves, Same, RefPcs
    <2>7. AloneAt(v)'
      BY <1>1, <1>2, <1>3, <1>4, <1>6, VnodeConstants DEF Good, AloneAt, LockAt, Moves, Same,
         Cleaning
    <2>8. TakerAt(v)'
      BY <1>1, <1>2, <1>3, <1>4, <1>6 DEF Good, TakerAt, Moves, Same, Dead
    <2>9. ListedAt(v)'
      BY <1>1, <1>2, <1>3, <1>4, <1>6 DEF Good, ListedAt
    <2> QED  BY <2>1, <2>2, <2>3, <2>4, <2>5, <2>6, <2>7, <2>8, <2>9 DEF Good
  <1> QED  BY <1>5, <1>7, <1>8, <1>9, <1>10, <1>11, Elsewhere DEF Inv

\* getnewvnode keeps the invariant.
LEMMA TakeInv ==
  ASSUME Inv, ~again, NEW p \in Procs, NEW v \in Vnodes, NEW f \in Files, pc[p] = "idle", Take(p, v, f),
         UNCHANGED vpid
  PROVE  Inv'
  <1>0. v \in ToSet(freelist)
    BY DEF Take
  <1>1. /\ Good(v) /\ vp[p] = None /\ None \notin Vnodes
        /\ IsTailQ(freelist, Vnodes) /\ deadb \in [Vnodes -> BOOLEAN] /\ ~panicked
    BY VnodeConstants DEF Inv, Works, Types
  <1>2. v_usecount[v] = 0 /\ \A q \in Procs : ~IsRef(q, v) /\ ~Takes(q, v)
    BY <1>0, <1>1, NoRefs DEF Good, ListedAt
  <1>3. /\ freelist' = TAILQ_REMOVE(freelist, v) /\ deadb' = [deadb EXCEPT ![v] = TRUE]
        /\ panicked' = FALSE
    <2>1. panicked' = (panicked \/ v_usecount[v] # 0)
      BY <1>0 DEF Take
    <2>2. panicked' = FALSE
      BY <1>1, <1>2, <2>1, Zenon
    <2> QED  BY <1>0, <2>2 DEF Take
  <1>4. IsTailQ(freelist', Vnodes) /\ ToSet(freelist') = ToSet(freelist) \ {v}
    BY <1>1, <1>3, RemoveProps
  <1>5. CASE Dead(v)
    <2>1. NewVnode(p, v, f) /\ UNCHANGED active
      BY <1>0, <1>5 DEF Take
    <2>2. \A q \in Procs : vp[q] # v
      BY <1>2, <1>5, DeadAlone DEF Dead
    <2> QED  BY <1>1, <1>3, <1>4, <2>1, <2>2, NewVnodeInv
  <1>6. CASE ~Dead(v)
    <2>1. vgonel(p, v, f) /\ UNCHANGED <<v_type, v_data, v_lock, names, vpid>>
      BY <1>0, <1>6 DEF Take, ident
    <2> QED  BY <1>0, <1>3, <1>4, <1>6, <2>1, TakeVgonel
  <1> QED  BY <1>5, <1>6

\* iget gives the new vnode its file.
LEMMA IgetInv ==
  ASSUME Inv, ~again, NEW p \in Procs, NEW f \in Files, Iget(p, f)
  PROVE  Inv'
  <1>1. pc[p] = "idle" /\ vp[p] = None /\ None \notin Vnodes /\ ~panicked
    BY VnodeConstants DEF Iget, Inv, Works
  <1>2. CASE \E v \in Vnodes : v_data[v] = f /\ Free(v) /\ vget(p, v, f, None)
    BY <1>1, <1>2, NoneId, VgetSleeps, VgetGets
  <1>3. CASE getnewvnode(p, f)
    <2>1. ASSUME NEW v \in Vnodes, Take(p, v, f), UNCHANGED vpid PROVE Inv'
      BY <1>1, <2>1, TakeInv
    <2>3. CASE UNCHANGED vars
      BY <2>3, StutterInv
    <2>2. ASSUME NEW v \in Vnodes, v_type[v] = "none", NewVnode(p, v, f),
                 UNCHANGED <<freelist, deadb, active, vpid, panicked>>
          PROVE  Inv'
      <3>1. /\ \A q \in Procs : vp[q] # v
            /\ v \notin ToSet(freelist) /\ IsTailQ(freelist, Vnodes) /\ deadb \in [Vnodes -> BOOLEAN]
        BY <2>2 DEF Inv, Good, TypeAt, ListedAt, Types
      <3>2. panicked' = FALSE
        BY <1>1, <2>2, Zenon DEF Inv, Types, TypeOK
      <3> QED  BY <1>1, <2>2, <3>1, <3>2, NewVnodeInv
    <2> QED  BY <1>3, <2>1, <2>2, <2>3 DEF getnewvnode, vars, local
  <1> QED  BY <1>2, <1>3 DEF Iget

\* The end of vclean wakes its sleepers.
LEMMA CleanedInv ==
  ASSUME Inv, ~again, NEW p \in Procs, Cleaned(p)
  PROVE  Inv'
  <1> DEFINE Others == {"ref", "io", "iput", "vgetlock", "iolock"}
  <1>0. PICK v \in Vnodes : v = vp[p]
    BY DEF Inv, Works, Types, TypeOK, Cleaned
  <1>1. /\ Good(v) /\ vp[p] = v /\ pc[p] = "reclaim" /\ None \notin Vnodes \cup Procs \cup Files
        /\ Cleans(p, v) /\ (IsRef(p, v) <=> active[p])
        /\ p \in Procs /\ pc \in [Procs -> Pcs] /\ vp \in [Procs -> Vnodes \cup {None}]
        /\ want \in [Procs -> Files \cup {None}] /\ active \in [Procs -> BOOLEAN]
    BY <1>0, VnodeConstants DEF Inv, Types, TypeOK, Cleaned, Cleans, Cleaning, IsRef, RefPcs
  <1>2. /\ VXLOCK[v] /\ v_type[v] = "VNON" /\ v_data[v] = None
        /\ \A q \in Procs \ {p} : ~Cleans(q, v)
        /\ active[p] => \E q \in Procs \ {p} : IsRef(q, v)
        /\ active[p] => v_usecount[v] \in Nat /\ v_usecount[v] > 1
        /\ v_usecount[v] = 0 <=> \A q \in Procs : ~IsRef(q, v)
    <2>1. VXLOCK[v] /\ v_type[v] = "VNON" /\ v_data[v] = None
          /\ \A q \in Procs \ {p} : ~Cleans(q, v)
      BY <1>1 DEF Good, CleanAt, TypeAt, ReclaimedAt
    <2>2. ~(active[p] /\ v_usecount[v] = 1)
      BY <1>1 DEF Cleaned
    <2>3. active[p] => /\ v_usecount[v] \in Nat /\ v_usecount[v] > 0
                       /\ v_usecount[v] = 1 <=> \A q \in Procs : IsRef(q, v) => q = p
      BY <1>1, LastRef DEF Good
    <2>4. v_usecount[v] = 0 <=> \A q \in Procs : ~IsRef(q, v)
      BY <1>1, NoRefs DEF Good
    <2> QED  BY <2>1, <2>2, <2>3, <2>4
  <1>a. \A q \in Procs \ {p} : vp[q] = v =>
          /\ pc[q] \in {"vn_lock", "newgone", "vget", "vgone"} \cup Others
          /\ pc[q] \in SleepsOnVnode => VXWANT[v]
    <2> SUFFICES ASSUME NEW q \in Procs \ {p}, vp[q] = v
                 PROVE  /\ pc[q] \in {"vn_lock", "newgone", "vget", "vgone"} \cup Others
                        /\ pc[q] \in SleepsOnVnode => VXWANT[v]
      OBVIOUS
    <2>1. pc[q] \notin {"idle", "relelock", "vrele"} /\ pc[q] \in Pcs
      BY <1>1 DEF Inv, Works
    <2>2. pc[q] \notin Cleaning \cup {"selfrele"}
      BY <1>2 DEF Cleans
    <2>3. pc[q] \notin {"locked", "inactive"}
      BY <1>1, <1>2 DEF Good, DataAt, Inv, Works, RefPcs
    <2>4. pc[q] # "newvnode"
      BY <1>1, <1>2 DEF Good, TakerAt, Dead
    <2>5. pc[q] \in SleepsOnVnode => VXWANT[v]
      BY <1>1 DEF Good, CleanAt
    <2> QED  BY <2>1, <2>2, <2>3, <2>4, <2>5 DEF Pcs, SleepsOnVnode, LockWaits
  <1>b. \A q \in Procs :
          /\ pc'[q] = IF q = p THEN IF want[p] = None THEN "idle" ELSE "newvnode"
                      ELSE IF q \in Wakes(v) THEN WokenPc(q) ELSE pc[q]
          /\ vp'[q] = IF pc'[q] = "idle" THEN None ELSE vp[q]
          /\ want'[q] = IF pc'[q] = "idle" THEN None ELSE want[q]
          /\ vpid'[q] = IF pc'[q] = "idle" THEN None ELSE vpid[q]
    BY <1>0 DEF Cleaned
  <1>c. \A q \in Procs \ {p} : vp[q] = v =>
          \/ pc[q] = "vn_lock" /\ pc'[q] = "ref" /\ vp'[q] = v /\ want'[q] = want[q]
          \/ pc[q] \in Others /\ pc'[q] = pc[q] /\ vp'[q] = v /\ want'[q] = want[q]
          \/ pc[q] = "newgone" /\ pc'[q] = "newvnode" /\ vp'[q] = v /\ want'[q] = want[q]
          \/ pc[q] \in {"vget", "vgone"} /\ pc'[q] = "idle" /\ vp'[q] = None
    BY <1>a, <1>b DEF Wakes, WokenPc, SleepsOnVnode
  <1>d. \A q \in Procs \ {p} : vp[q] # v =>
          \/ pc'[q] = pc[q] /\ vp'[q] = vp[q] /\ want'[q] = want[q] /\ vpid'[q] = vpid[q]
          \/ pc[q] = "idle" /\ pc'[q] = "idle" /\ vp[q] = None /\ vp'[q] = None
    BY <1>b DEF Wakes, Inv, Works
  <1>e. active' = [active EXCEPT ![p] = FALSE]
    BY DEF Cleaned
  <1>3. /\ \/ want[p] = None /\ pc'[p] = "idle" /\ vp'[p] = None
           \/ want[p] # None /\ pc'[p] = "newvnode" /\ vp'[p] = v /\ want'[p] = want[p]
        /\ \A q \in Procs \ {p} : vp[q] = v =>
             \/ pc[q] = "vn_lock" /\ pc'[q] = "ref" /\ vp'[q] = v /\ want'[q] = want[q]
             \/ pc[q] \in Others /\ pc'[q] = pc[q] /\ vp'[q] = v /\ want'[q] = want[q]
             \/ pc[q] = "newgone" /\ pc'[q] = "newvnode" /\ vp'[q] = v /\ want'[q] = want[q]
             \/ pc[q] \in {"vget", "vgone"} /\ pc'[q] = "idle" /\ vp'[q] = None
        /\ \A q \in Procs \ {p} : vp[q] # v =>
             \/ pc'[q] = pc[q] /\ vp'[q] = vp[q] /\ want'[q] = want[q] /\ vpid'[q] = vpid[q]
             \/ pc[q] = "idle" /\ pc'[q] = "idle" /\ vp[q] = None /\ vp'[q] = None
        /\ ~active'[p] /\ \A q \in Procs \ {p} : active'[q] = active[q]
    BY <1>1, <1>b, <1>c, <1>d, <1>e
  <1>6. /\ ~IsRef(p, v)' /\ ~Cleans(p, v)' /\ (Takes(p, v)' <=> Takes(p, v))
        /\ \A q \in Procs \ {p} : /\ IsRef(q, v)' <=> IsRef(q, v)
                                  /\ ~Cleans(q, v)'
                                  /\ Takes(q, v)' <=> Takes(q, v)
    <2>1. ~IsRef(p, v)' /\ ~Cleans(p, v)' /\ (Takes(p, v)' <=> Takes(p, v))
      BY <1>1, <1>3 DEF IsRef, Cleans, Takes, RefPcs, Cleaning
    <2>2. ASSUME NEW q \in Procs \ {p}
          PROVE  (IsRef(q, v)' <=> IsRef(q, v)) /\ ~Cleans(q, v)' /\ (Takes(q, v)' <=> Takes(q, v))
      <3>1. CASE vp[q] = v
        BY <1>1, <1>3, <3>1 DEF IsRef, Cleans, Takes, RefPcs, Cleaning
      <3>2. CASE vp[q] # v
        BY <1>1, <1>3, <3>2 DEF IsRef, Cleans, Takes
      <3> QED  BY <3>1, <3>2
    <2> QED  BY <2>1, <2>2
  <1>f. /\ v_usecount' \in [Vnodes -> Nat]
        /\ v_usecount'[v] = IF active[p] THEN v_usecount[v] - 1 ELSE v_usecount[v]
        /\ \A u \in Vnodes \ {v} : v_usecount'[u] = v_usecount[u]
        /\ v_usecount'[v] = 0 <=> \A q \in Procs : ~IsRef(q, v)'
    <2>1. /\ v_usecount' \in [Vnodes -> Nat]
          /\ v_usecount'[v] = IF active[p] THEN v_usecount[v] - 1 ELSE v_usecount[v]
          /\ \A u \in Vnodes \ {v} : v_usecount'[u] = v_usecount[u]
      BY <1>0, <1>2 DEF Cleaned, Inv, Types, TypeOK
    <2>2. v_usecount'[v] = 0 <=> \A q \in Procs : ~IsRef(q, v)'
      BY <1>1, <1>2, <1>6, <2>1
    <2> QED  BY <2>1, <2>2
  <1>g. /\ IsTailQ(freelist', Vnodes)
        /\ ToSet(freelist') = IF ~deadb[v] /\ \A q \in Procs : ~IsRef(q, v)' THEN ToSet(freelist) \cup {v}
                              ELSE ToSet(freelist)
    <2>1. freelist' = ToHead(v) /\ IsTailQ(freelist, Vnodes)
      BY <1>0 DEF Cleaned, Inv, Types
    <2>2. CASE v_usecount'[v] = 0 /\ ~deadb[v]
      <3>1. freelist' = TAILQ_INSERT_HEAD(TAILQ_REMOVE(freelist, v), v)
        BY <2>1, <2>2 DEF ToHead
      <3>2. /\ IsTailQ(TAILQ_REMOVE(freelist, v), Vnodes)
            /\ ToSet(TAILQ_REMOVE(freelist, v)) = ToSet(freelist) \ {v}
        BY <2>1, RemoveProps
      <3>3. IsTailQ(freelist', Vnodes) /\ ToSet(freelist') = (ToSet(freelist) \ {v}) \cup {v}
        BY <3>1, <3>2, InsertHeadProps
      <3> QED  BY <1>f, <2>2, <3>3
    <2>3. CASE ~(v_usecount'[v] = 0 /\ ~deadb[v])
      BY <1>f, <2>1, <2>3 DEF ToHead
    <2> QED  BY <2>2, <2>3
  <1>4. /\ v_usecount' \in [Vnodes -> Nat]
        /\ v_usecount'[v] = IF active[p] THEN v_usecount[v] - 1 ELSE v_usecount[v]
        /\ VXLOCK' \in [Vnodes -> BOOLEAN] /\ ~VXLOCK'[v]
        /\ VXWANT' \in [Vnodes -> BOOLEAN]
        /\ v_type' \in [Vnodes -> {"none", "VNON", "VBAD"}] /\ v_type'[v] = "VBAD"
        /\ \A u \in Vnodes \ {v} : /\ v_usecount'[u] = v_usecount[u] /\ v_type'[u] = v_type[u]
                                   /\ VXLOCK'[u] = VXLOCK[u] /\ VXWANT'[u] = VXWANT[u]
        /\ \A u \in Vnodes \ {v} : u \in ToSet(freelist') <=> u \in ToSet(freelist)
        /\ v \in ToSet(freelist') <=> \/ v \in ToSet(freelist)
                                      \/ ~deadb[v] /\ \A q \in Procs : ~IsRef(q, v)'
        /\ UNCHANGED <<deadb, v_data, v_lock>>
    BY <1>0, <1>f, <1>g DEF Cleaned, Inv, Types, TypeOK
  <1>5. At(v)
    <2>1. \A q \in Procs : Same(q) \/ (vp[q] \in {v, None} /\ vp'[q] \in {v, None})
      BY <1>1, <1>3 DEF Same
    <2> QED  BY <1>4, <2>1 DEF At
  <1>h. /\ CacheOK' /\ cache' \subseteq CacheEntry
        /\ v_id' \in [Vnodes -> 0 .. IdMod - 1] /\ nextvnodeid' \in 0 .. IdMod - 1
    <2>1. \A q \in Procs : pc'[q] = "vgetlock" => pc[q] = "vgetlock" /\ vp'[q] = vp[q] /\ want'[q] = want[q]
      BY <1>1, <1>3
    <2>2. \A q \in Procs : pc'[q] = "vgetlock" => StillWaits(q)
      BY <1>b, <2>1 DEF StillWaits
    <2> QED  BY <1>0, <1>4, <2>2, CachePurged DEF Cleaned
  <1>i. /\ pc' \in [Procs -> Pcs] /\ vp' \in [Procs -> Vnodes \cup {None}]
        /\ want' \in [Procs -> Files \cup {None}] /\ vpid' \in [Procs -> Ids]
        /\ active' \in [Procs -> BOOLEAN]
    <2>1. \A q \in Procs : pc'[q] \in Pcs /\ vp'[q] \in Vnodes \cup {None} /\ want'[q] \in Files \cup {None}
      BY <1>1, <1>3, <1>b DEF Pcs, LockWaits
    <2>3. \A q \in Procs : vpid'[q] \in Ids
      BY <1>b, NoneId DEF Inv, Types
    <2>2. /\ pc' = [q \in Procs |-> pc'[q]] /\ vp' = [q \in Procs |-> vp'[q]]
          /\ want' = [q \in Procs |-> want'[q]] /\ vpid' = [q \in Procs |-> vpid'[q]]
      BY DEF Cleaned
    <2> QED  BY <1>1, <1>e, <2>1, <2>2, <2>3
  <1>7. Types'
    BY <1>4, <1>g, <1>h, <1>i DEF Cleaned, Inv, Types, TypeOK
  <1>8. Works'
    <2>1. \A q \in Procs \ {p} : pc[q] \in {"vn_lock", "newgone"} => want[q] \in Files
      BY DEF Inv, Works, RefPcs
    <2>2. Works
      BY DEF Inv
    <2>3. ASSUME NEW q \in Procs
          PROVE  /\ pc'[q] = "idle" <=> vp'[q] = None
                 /\ pc'[q] \in RefPcs \cup {"inactive", "newgone", "newvnode"} => want'[q] \in Files
                 /\ pc'[q] \notin {"relelock", "vrele"}
      <3>1. CASE q = p
        BY <1>1, <1>3, <3>1 DEF RefPcs
      <3>2. CASE q # p /\ vp[q] = v
        BY <1>1, <1>3, <2>1, <2>2, <3>2 DEF RefPcs, Works
      <3>3. CASE q # p /\ vp[q] # v
        BY <1>1, <1>3, <2>2, <3>3 DEF RefPcs, Works
      <3> QED  BY <3>1, <3>2, <3>3
    <2> QED  BY <2>3 DEF Works
  <1>9. CacheOK'
    BY <1>h
  <1>11. ~panicked'
    BY DEF Cleaned, Inv
  <1>j. \A q \in Procs : vp'[q] = v =>
          /\ pc'[q] \in {"newvnode"} \cup Others
          /\ pc'[q] \in Others => q # p /\ vp[q] = v /\ want'[q] = want[q]
          /\ pc'[q] = "iput" => pc[q] = "iput"
          /\ pc[q] \in RefPcs \/ pc'[q] = "newvnode"
    BY <1>1, <1>3 DEF RefPcs
  <1>10. Good(v)'
    <2>1. TypeAt(v)'
      BY <1>2, <1>4 DEF TypeAt
    <2>2. CountAt(v)'
      <3>1. CASE active[p]
        BY <1>1, <1>4, <1>6, <3>1, CountLess DEF Good
      <3>2. CASE ~active[p]
        BY <1>1, <1>4, <1>6, <3>2, CountSame DEF Good
      <3> QED  BY <3>1, <3>2
    <2>3. CleanAt(v)'
      BY <1>4, <1>6, <1>j DEF CleanAt, SleepsOnVnode
    <2>4. LockAt(v)'
      BY <1>1, <1>2, <1>4, <1>j DEF Good, LockAt, Dead
    <2>5. ReclaimedAt(v)'
      BY <1>j DEF ReclaimedAt
    <2>6. DataAt(v)'
      BY <1>2, <1>4, <1>j DEF DataAt, RefPcs
    <2>7. AloneAt(v)'
      BY <1>1, <1>6, <1>j DEF Good, AloneAt, Takes, IsRef, Cleaning
    <2>8. TakerAt(v)'
      BY <1>1, <1>4, <1>6 DEF Good, TakerAt, Dead
    <2>9. ListedAt(v)'
      BY <1>1, <1>2, <1>4, <1>6 DEF Good, ListedAt, TakerAt, AloneAt
    <2> QED  BY <2>1, <2>2, <2>3, <2>4, <2>5, <2>6, <2>7, <2>8, <2>9 DEF Good
  <1> QED  BY <1>5, <1>7, <1>8, <1>9, <1>10, <1>11, Elsewhere DEF Inv

-----------------------------------------------------------------------------
(* The theorems *)

\* The initial state.
LEMMA InitInv == Init => Inv
  <1> SUFFICES ASSUME Init PROVE Inv
    OBVIOUS
  <1>1. IsTailQ(freelist, Vnodes) /\ \A v \in Vnodes : v \notin ToSet(freelist)
    BY EmptyTailQ DEF Init, IsTailQ, ToSet
  <1>2. Types
    <2>1. 0 \in 0 .. IdMod - 1 /\ "idle" \in Pcs
      BY VnodeConstants DEF Pcs
    <2>2. TypeOK
      BY <2>1 DEF Init, TypeOK
    <2> QED  BY <1>1, <2>2, NoneId DEF Init, Types
  <1>3. Works /\ CacheOK /\ ~panicked
    BY DEF Init, Works, CacheOK, RefPcs
  <1>4. ASSUME NEW v \in Vnodes PROVE Good(v)
    <2>1. \A q \in Procs : vp[q] # v /\ ~IsRef(q, v) /\ ~Cleans(q, v) /\ ~Takes(q, v)
      BY VnodeConstants DEF Init, IsRef, Cleans, Takes
    <2>2. CountAt(v)
      <3>1. Refs(v) = {}
        BY <2>1 DEF Refs
      <3> QED  BY <3>1, FS_EmptySet DEF CountAt, Init
    <2>3. TypeAt(v) /\ CleanAt(v) /\ LockAt(v) /\ ReclaimedAt(v) /\ DataAt(v)
      BY <2>1 DEF Init, TypeAt, CleanAt, LockAt, ReclaimedAt, DataAt
    <2>4. AloneAt(v) /\ TakerAt(v) /\ ListedAt(v)
      BY <1>1, <2>1 DEF Init, AloneAt, TakerAt, ListedAt
    <2> QED  BY <2>2, <2>3, <2>4 DEF Good
  <1> QED  BY <1>2, <1>3, <1>4 DEF Inv

\* Every step keeps the invariant.
LEMMA NextInv == Inv /\ [Next]_vars => Inv'
  <1> SUFFICES ASSUME Inv, [Next]_vars PROVE Inv'
    OBVIOUS
  <1>1. ASSUME ~again, NEW p \in Procs, User(p) PROVE Inv'
    BY <1>1, LookupInv, IgetInv, LockGrantedInv, UnlockInv, VnLockInv, VputInv, VreleInv,
       InactiveInv, CacheEnterInv, VrefInv DEF User
  <1>2. ASSUME ~again, NEW p \in Procs, Cleaner(p) PROVE Inv'
    BY <1>2, VflushInv, DrainedInv, ReclaimInv, SelfReleInv, CleanedInv, TakeCleanedInv DEF Cleaner
  <1>3. ASSUME ~again, NEW e \in cache, PurgeEntry(e) PROVE Inv'
    BY <1>3, PurgeEntryInv
  <1>4. CASE UNCHANGED vars
    BY <1>4, StutterInv
  <1> QED  BY <1>1, <1>2, <1>3, <1>4 DEF Next

\* In every reachable state a vnode's reference count is the number of processes that have
\* a reference, VXLOCK has one cleaner, and free list, lock, file and cache agree with them.
THEOREM VnodeInv == Spec => []Inv
  BY InitInv, NextInv, PTL DEF Spec

\* The variables keep their types: no reference count goes below zero, no v_id reaches the
\* end of its range.
THEOREM VnodeTypes == Spec => []TypeOK
  <1>1. Inv => TypeOK
    BY DEF Inv, Types
  <1> QED  BY <1>1, VnodeInv, PTL

\* No panic, and an unused vnode is on the free list once or one getnewvnode has it, however
\* many processes release, clean and take vnodes.
THEOREM FreeListIsExact == Spec => []FreeListExact
  <1>1. Inv => FreeListExact
    <2> SUFFICES ASSUME Inv PROVE FreeListExact
      OBVIOUS
    <2>1. ASSUME NEW v \in Vnodes
          PROVE  OnFreelist(v) <=> v_type[v] # "none" /\ v_usecount[v] = 0 /\ ~Taken(v)
      <3>1. Taken(v) <=> \E p \in Procs : Takes(p, v)
        BY DEF Taken, Takes
      <3>2. v_usecount[v] = 0 <=> \A q \in Procs : ~IsRef(q, v)
        BY NoRefs DEF Inv, Good
      <3> QED  BY <3>1, <3>2 DEF Inv, Good, ListedAt, OnFreelist
    <2>2. ~panicked /\ \A i, j \in DOMAIN freelist : freelist[i] = freelist[j] => i = j
      BY DEF Inv, Types, IsTailQ
    <2> QED  BY <2>1, <2>2 DEF FreeListExact
  <1> QED  BY <1>1, VnodeInv, PTL

\* What vget hands out, locked, is the file that was looked up, with a lock that nobody
\* drains: only the capability number keeps a waiter from a vnode cleaned meanwhile.
THEOREM VgetRight == Spec => []VgetIsRight
  <1>1. Inv => VgetIsRight
    BY DEF Inv, Works, Types, TypeOK, Good, LockAt, DataAt, VgetIsRight
  <1> QED  BY <1>1, VnodeInv, PTL

\* A vnode with a reference may be revoked but never stands for another file, and
\* VOP_INACTIVE works on the file it was called for.
THEOREM RefKeepsTheFile == Spec => []RefKeepsFile
  <1>1. Inv => RefKeepsFile
    <2> SUFFICES ASSUME Inv, NEW p \in Procs
                 PROVE  /\ pc[p] \in {"ref", "io", "vn_lock"} \cup LockWaits
                              => v_data[vp[p]] \in {want[p], None}
                        /\ pc[p] = "inactive" => v_data[vp[p]] = want[p]
      BY DEF RefKeepsFile
    <2>1. pc[p] # "idle" => vp[p] \in Vnodes
      BY DEF Inv, Works, Types, TypeOK
    <2>2. CASE pc[p] # "idle"
      <3>1. TypeAt(vp[p]) /\ DataAt(vp[p]) /\ pc[p] # "relelock"
        BY <2>1, <2>2 DEF Inv, Good, Works
      <3> QED  BY <3>1 DEF DataAt, LockWaits, RefPcs
    <2>3. CASE pc[p] = "idle"
      BY <2>3 DEF LockWaits
    <2> QED  BY <2>2, <2>3
  <1> QED  BY <1>1, VnodeInv, PTL

\* A cache entry that looks valid names the file it was entered for, also while its vnode
\* is cleaned, until a v_id comes again.
THEOREM CacheRight == Spec => []CacheIsRight
  <1>1. Inv => CacheIsRight
    BY DEF Inv, CacheOK, CacheIsRight
  <1> QED  BY <1>1, VnodeInv, PTL

\* Whoever sleeps for VXLOCK has a cleaner that knows of it, or one that sleeps for itself
\* after all references are gone.
THEOREM SleepersHaveCleaner == Spec => []CleanerWakes
  <1>1. Inv => CleanerWakes
    <2> SUFFICES ASSUME Inv, NEW p \in Procs, pc[p] \in SleepsOnVnode
                 PROVE  /\ VXLOCK[vp[p]] /\ VXWANT[vp[p]]
                        /\ \E c \in Procs :
                             /\ vp[c] = vp[p]
                             /\ pc[c] \in Cleaning \/ (pc[c] = "selfrele" /\ v_usecount[vp[c]] = 0)
      BY DEF CleanerWakes
    <2>1. PICK v \in Vnodes : v = vp[p]
      BY DEF Inv, Works, Types, TypeOK, SleepsOnVnode
    <2>2. Good(v)
      BY DEF Inv
    <2>3. VXLOCK[v] /\ VXWANT[v]
      BY <2>1, <2>2 DEF Good, CleanAt
    <2>4. PICK c \in Procs : Cleans(c, v)
      BY <2>2, <2>3 DEF Good, CleanAt
    <2>5. pc[c] = "selfrele" => v_usecount[v] = 0
      BY <2>2, <2>4, NoRefs DEF Good, AloneAt, Cleans
    <2> QED  BY <2>1, <2>3, <2>4, <2>5 DEF Cleans
  <1> QED  BY <1>1, VnodeInv, PTL

=============================================================================
