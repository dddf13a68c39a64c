# TLA+ models of the 386BSD kernel

This directory specifies the concurrent core of the kernel under
`usr/src/kernel` in TLA+, checks it with TLC on small instances and proves parts
of it with TLAPS for all instances. The subject is the code that every other
part of the kernel stands on and that is hardest to test: timeouts, sleep and
wakeup with signals and swapping, the run queues, locks, `select`, the life of a
process with its ids, groups and sessions, and the recycling of vnodes under the
name cache.

All paths below are relative to `usr/src/kernel`.

## 1. Inventory

### The machine

One CPU. The kernel is not preemptive: a process in the kernel keeps the CPU
until it calls `mi_switch` (through `tsleep`, `sleep`, `issignal`, or on the way
back to user mode). Concurrency comes from two sources:

* interrupts, which run between any two instructions unless masked by
  `splhigh` and friends (code at `splhigh` is atomic in every module);
* sleeps, across which any other process may run and change anything.

There is no crash recovery in these components: what they keep is in memory and
a panic stops the system. A panic is therefore a state from which no step leads
on, and reaching one is what several properties exclude.

### Components, their state and operations

| component | state | operations | hard part |
|---|---|---|---|
| callouts (`kern/kern_clock.c`) | delta list `calltodo`, `callfree`, soft-interrupt bit | `timeout`, `untimeout`, `hardclock`, `softclock` | overdue entries, re-entry from the called function, a tick at any level |
| sleep queues (`kern/kern_synch.c`) | `p_stat`, `p_wchan`, hash chains, `P_SINTR`, `P_TIMEOUT` | `tsleep`, `wakeup`, `unsleep`, `setrunnable`, `endtsleep` | wakeup, timeout, stop and kill in any order |
| signals (`kern/kern_sig.c`) | `p_siglist`, stop state | `psignal`, `issignal`, `stop`, `postsig` | a process that stops while queued to sleep |
| swapper (`kern/vm/vm_glue.c`) | `P_INMEM` | `scheduler`, `swapout` | wakeup lost between scan and sleep |
| run queues (`kern/i386/locore.s`) | `qs`, `whichqs`, `p_priority` | `setrunqueue`, `remrq`, `Xswitch`, `schedcpu` | `whichqs` cached in a register |
| locks (`kern/kern_lock.c`) | one `struct lock` | `lockmgr`'s seven requests | state bits in the interlock word |
| select (`kern/sys_generic.c`) | `selinfo`, `P_SELECT`, `nselcoll` | `select`, `selscan`, `selrecord`, `selwakeup` | events during the scan, collisions |
| process table (`kern_fork.c`, `kern_exit.c`, `kern_proc.c`, `kern_prot.c`) | `allproc`, `zombproc`, `nextpid`, `pidchecked`, `pg_jobc`, `s_count` | `fork1`, `exit1`, `wait1`, `enterpgrp`, `leavepgrp`, `fixjobc`, `setsid`, `setpgid` | pid reuse, inherited zombies, counts that are only adjusted |
| buffer cache (`kern/fs/bio.c`, `kern/vfs_bio.c`) | hash, free lists, `B_*` flags | `getblk`, `brelse`, `biowait` | sleeping between lookup and insert |
| vnodes, name cache (`vfs_subr.c`, `vfs_vnops.c`, `vfs_cache.c`) | `v_usecount`, free list, `VXLOCK`, `v_id`, cache entries | `getnewvnode`, `vget`, `vref`, `vput`, `vrele`, `vgonel`, `vclean`, `vn_lock`, `cache_*` | recycling under a sleeper, `v_id` wraparound |
| descriptors (`kern_descrip.c`) | `fd_ofiles`, `f_count` | open, dup, close | counts |
| sockets (`uipc_*.c`) | sockbufs, `SB_LOCK`, rights in flight | send, receive, `unp_gc` | interrupted waits, cycles of rights |
| terminals (`tty*.c`), clists | clists | line discipline | character processing |
| VM (`kern/vm`) | pages, objects, maps | fault, pageout, collapse | busy pages, daemon wakeups |
| allocators (`kern_malloc.c`, `subr_rmap.c`) | buckets, maps | malloc, free | waiting at a limit |
| file systems, protocols, drivers, npx, ddb, boot, userland | | | not modelled, see section 8 |

They interact by calls and by shared process state. `tsleep` arms a callout
whose function is `endtsleep`; `wakeup`, `psignal` and `endtsleep` put a process
on the run queue or leave that to the swapper; `select` sleeps on one channel
and is woken either by `wakeup` or by name through `setrunnable`; `lockmgr`
sleeps through `tsleep`; `wait1`, `vfork` and everybody who meets a vnode being
cleaned sleep on channels that others wake. `SleepQueue` composes sleep queues,
signals, swapper and the membership of the run queue; `RunQueue` has the queue
structure itself. `Vnode` composes the vnode layer with the name cache and with the
way `ufs` uses both. `ProcTable` and `Vnode` take from `SleepQueue` what a sleeper
may rely on: it goes on some time after a wakeup of its channel.

`PROJECT.json` lists every component, and under `hazards` what can go wrong at
which line and which property would show it.

## 2. Modules

| module | what it is |
|---|---|
| `CalloutAbs` | what `timeout`/`untimeout` promise: a set of pending calls with the ticks left |
| `Callout` | the callout queue as coded |
| `CalloutProofs` | theorems about `Callout`, refinement of `CalloutAbs` included |
| `SleepQueue` | sleep, wakeup, signals, stop/continue, swapper |
| `SleepProofs` | theorems about `SleepQueue` |
| `TailQ` | the `TAILQ_*` macros of `include/sys/queue.h`, for the run queues and the free list |
| `TailQProofs` | lemmas about them and about least indices, for all queues |
| `RunQueue` | run queues, `whichqs`, `Xswitch`, idle loop, `schedcpu` |
| `RunProofs` | theorems about `RunQueue` |
| `LockMgr` | `lockmgr` with the uniprocessor simple locks |
| `LockProofs` | theorems about `LockMgr` |
| `Select` | `select(2)` with sockets as the objects |
| `SelectProofs` | theorems about `Select` |
| `ProcTable` | fork, exit, wait, process ids, groups and sessions |
| `ProcProofs` | theorems about `ProcTable` |
| `Vnode` | vnode references, cleaning and recycling, name cache |
| `VnodeProofs` | theorems about `Vnode` |
| `MCSleepQueue`, `MCProcTable`, `MCVnode` | constants and symmetry for TLC; the other modules are run as they are |

Names follow the source (`calltodo`, `setrunnable`, `si_pid`...). Actions begin
with a capital letter; an operator in lower case is the C function of that name
as a state transformer, used inside actions. An operator whose comment begins
with "Mutant" is not part of a specification: it is the neighbouring definition
with a plausible bug, and serves to show that a property would notice it.

### Callout

`calltodo` is the sequence of slots linked from the list head; `c_time` holds the
deltas as the code stores them, negative when overdue. `left` is a history
variable, the ticks each entry really has left, so that properties can compare
the code's deltas with the truth. `timeout` is three actions (`TimeoutEnter`,
`TimeoutWalk` per entry passed, `TimeoutInsert`) with nothing in between, since
it runs at `splhigh`; the split gives the loop an invariant. `Hardclock(base)` is
the queue part of `hardclock`; `base` says whether the clock interrupted level 0,
in which case it calls `softclock` directly, else it sets the bit that `doreti`
tests (`SoftIntr`). `softclock` is one action per loop turn and one for the return
of the called function; while the function runs (`sc = "call"`) timers can be
armed and cancelled and the clock ticks, unless `softclock` was called from
`hardclock` itself with the clock masked (`clkmask`).

### SleepQueue

The process table is one function from processes to records. `pc` places a
process at the points where others can come in between: before and after each
`mi_switch`, in `issignal`'s loop, after `tsleep`'s `splx`. Each interrupt
handler (`Wakeup`, `Signal`, `Endtsleep`, `Selwakeup`, `Vmmeter`) is one step with
every call it makes. `pcatch`, `woken` and `expired` record what the present
sleep asked for and what happened to it. `sleep()` is `tsleep` without `PCATCH`
and timeout. `mi_switch`'s own `psignal` for the CPU limit has the effect of
a signal that arrives directly after the switch, which the model has. Which signals
stop, are ignored or continue is `sigprop`'s (`StopSigs`, `TtyStops`, `IgnoreSigs`);
the runs use one or two of each kind, since the code tells them apart by kind only. Signals
are sent to processes that are not zombies. Left out: tracing, since `ptrace` is
a stub that returns `ENOSYS`; `swapin`'s page-in sleeps and the low-memory
branch of `scheduler`; priorities.

### RunQueue

`whichqs` is the set of non-zero bits and `edi` Xswitch's register copy. `spl0`
says whether Xswitch was entered with interrupts enabled, which is the case from
the idle loop and from `issignal`, and `Window` whether an interrupt is delivered
in the instructions between the load and `cli`. `SSLEEP` stands for both
`SSLEEP` and `SSTOP`. A sleeper gets its sleep priority; `schedcpu` moves only
processes at `PUSER` or worse, as in the code.

The window is really open: the idle loop lowers to `spl0` and jumps to the load at
1263, so every exit from it can be interrupted before the `cli` at 1265. With
`Window = TRUE` three of the four things one wants are lost:

* `WhichqsTells`: the store at 1293 wipes out a bit that the interrupt set, and sets
  again one whose queue an interrupt (`schedcpu`'s `remrq`) has emptied;
* `NoPanic`: if `schedcpu` moves a process whose bit was lost, `remrq` tests that bit
  first and panics (`locore.s:1166-1169`); a bit set for an empty queue makes the next
  Xswitch panic;
* `NotIdleForEver`: with the bit of the only runnable process lost, the idle loop halts
  until something else is put on the same queue.

Those three therefore hold only under the hypothesis of the run `runqueue`,
`Window = FALSE`, and are not proved. What survives the window is proved without the
hypothesis: types, that each runnable process stays linked once on the queue of its
priority, and that nothing but the stale store breaks the bits.

### LockMgr

A call of `lockmgr` is one action, since it gives up the CPU only in a `tsleep`, and no
call gets to one (lemma `CallsDoNotSleep`; `slept` would record it). That is not a merit:
`simple_lock` and `simple_unlock` are what the `NCPUS <= 1` branch of
`include/i386/param.h` compiles, and store 1 and 0 in `lock_data`, the word that also
holds the lock's state. So a request that should wait is granted, fails or panics, and
in particular `LK_DRAIN`, "wait for all activity" (`include/sys/lock.h:110`), waits for
nobody. Two more slips of the flags are in the model as they are in the code.
`LK_DRAINING` and `LK_DRAINED` are wider than the `u_short` `lk_flags` (`U16`), so they
are never stored, contrary to what `include/sys/lock.h:76-77` defines them for, and the
check for a drained lock (`kern_lock.c:166-175`) cannot fire. `LK_REENABLE` lies inside
`LK_TYPE_MASK` (`LockType`), so a release with it is an unknown request, and the unmount
that fails after its drain panics (`vfs_syscalls.c:392`).
`shared` and `excl` record what callers were granted. The callers modelled give
up only what they hold.

### Select

`ready` is the set of objects with data; an event is `Arrive`, at any point.
`selscan` takes descriptors in any order, each at `splnet`. `moved` stands for the
comparison `nselcoll != ncoll`. `left` abstracts the remaining time to none,
at least one tick, less than one, past; `hzto` rounds down and `Timo` is the
code's correction. A process that exits leaves its pid in the selinfos, and a
new process may get it (`Exit`, `Fork`).

### ProcTable

An action is what a process does between two places where it may sleep; `pc` names
those places and `arg` what is kept there (the child of a fork, the argument of
`wait1`, the zombie about to be freed). The search for a pid does not sleep, but it
is a loop over two lists with a `goto` back to its start, so it is one action per
turn (`ScanHit`, `ScanPast`, `ScanZombies`) and nothing else moves while
`scan # NoScan`; the lists are taken in any order. A process group is its number:
`pg_session` and `pg_jobc` are indexed by `pg_id`, and a group exists while it has
members. `enterpgrp` computes both calls of `fixjobc` at once through `Affected`, the
processes whose qualification the change touches. `Room` is the one bound: there is
memory and there is a number for every fork in progress.

What programs do is also in the model, as far as the kernel relies on it: `init`
never exits and stays the leader of its own session, it forks children that begin
with `login_tty` (`setsid`), and otherwise waits (`sbin/init/init.c`). All other
processes make any call at any time.

### Vnode

The places where a process may sleep are `VOP_LOCK`, `VOP_INACTIVE`, `VOP_RECLAIM` and
the `tsleep`s on a vnode with `VXLOCK`; again an action is what happens between two of
them. `v_data` is the file the vnode stands for and `want` the one its user is after,
so "the right vnode" is `v_data = want`. `deadb` is the back pointer that
`getnewvnode` sets to `0xdeadb`. The free list is a sequence, because `vgonel` moves
vnodes to its head. A cache entry has the `v_id` it was made with; `older` is history.
`vget` is called as `ufs_lookup` (with the capability check) and `iget` do.

The file system is `ufs`, which in this tree has older interfaces than `vfs_subr.c`
calls. Where that matters, the model does what `ufs` does:

* `ufs_lock(vp)` has no flags: `vclean`'s `LK_DRAIN` is an exclusive lock like any other
  and waits for nobody who waits (`Drained`). Whoever waited gets the lock of a vnode that
  may have been cleaned, or recycled for another file, meanwhile; the inode is part of the
  vnode, so the memory is still an inode's. `VgetIsRight` says that `ufs_lookup`'s
  comparison of the capability number is enough, and the mutant `ReclaimUnpurged` that
  it depends on `ufs_reclaim`'s own `cache_purge`. Who gets the lock of a dead vnode
  in this way leaves it set, since `dead_unlock` does nothing; the next user
  of the vnode initialises its inode.
* `ufs_lock` does not know `LK_INTERLOCK` either, so that an interlock taken for it
  stays taken. `getnewvnode`'s `simple_lock_try` may therefore skip any vnodes, or all
  of them (`Take` of any, `ENFILE`).
* A capability number that changed leads to `iput`, which is `IUNLOCK` and `vrele`.

In two places `ufs` cannot work under this `vfs_subr.c` at all, and there the model
follows `vfs_subr.c`. `ufs` calls `vget` with one argument, which is taken as
`vget(vp, LK_EXCLUSIVE, p)`. And `vput` and `vrele` call `VOP_INACTIVE` with the vnode
locked and expect it unlocked ("Note that the VOP_INACTIVE will unlock the vnode",
`kern/vfs_subr.c:1075`), while `ufs_inactive` begins with `ILOCK` of the same inode
(`ufs/ufs_inode.c:290`), at which `ilock` panics (`locking against myself`,
706-707), or, for an inode with `i_mode` 0, calls `vgone` with the lock held (285-288) and
then waits for itself. `Inactive` is the rest of `ufs_inactive`, from its `IUNLOCK` on;
what is said of released vnodes is said of a file system that keeps to `vfs_subr.c`'s
protocol.

A behaviour is followed until a `v_id` comes again to a vnode for which somebody still
remembers it (`Recurs`, `again`): an entry made for a `v_id` from before the wraparound,
or a process that waits in `vget`. Emptying the cache at the wraparound does not help there,
since it renews no `v_id` of an old vnode, and from that point on the code
may hand out a wrong vnode. With 32-bit numbers that takes 2^32 purges in the life of
one entry.

## 3. Runs

Every passing run explores its whole state space.

| run | instance | shows |
|---|---|---|
| `callout` | 2 slots, 2 functions, up to 3 ticks, clock at most 2 ticks ahead | slots, delta encoding, request of softclock, refinement of `CalloutAbs`; each timeout is called or cancelled |
| `sleep_signals` | parent and child; KILL, STOP, CONT (caught by one), CHLD | no panic, queue discipline, timeouts belong to their sleep, return values |
| `sleep_jobs` | 2 swappable processes; orphaned vfork parent with a held CONT, TSTP, caught USR1 | the corners of `psignal` and `issignal` that the first run's constants exclude, and queues that stay right when `P_INMEM` changes |
| `sleep_live` | 2 processes, one swappable | a runnable process runs |
| `runqueue` | 3 processes, 3 queues of 2 priorities | without interrupts in Xswitch's window, `whichqs` and queues agree; no panic; not idle for ever |
| `lockmgr` | 3 processes (one the kernel's), up to 3 locks each | the lock stays well formed; exclusive ownership |
| `select` | 2 processes, 1 object | no lost wakeup, also during the scan; select returns on data and on timeout |
| `proctable` | init and 3 processes, 3 sessions, 3 reusable pids | fresh pids, free range, living parents, no lost zombie, exact `pg_jobc` and `s_count` |
| `vnode` | 2 vnodes, 3 processes, 2 files, 4 `v_id`s, `desiredvnodes` 1 | free list, right vnode from `vget`, references keep their file, valid cache entries, sleepers have a waker |

Why the bounds are enough to be interesting: `MaxLate` 2 lets several entries be
overdue by different amounts; two processes on one hash chain make `wakeup` pass
strangers; two selectors on one object collide. `callout` and `select` are as small as
they are because they check liveness too; their safety properties are proved for
all sizes. In `proctable` four processes make a grandchild that is inherited as a
zombie, a group that outlives its leader and a fork meanwhile, and three numbers
above `PidLow` wrap around at once. In `vnode`, `desiredvnodes` 1 with two vnodes
makes every new file recycle one; three processes are a user, a cleaner and
somebody who takes the vnode between them; five is the smallest `IdMod` at which
a vnode can be recycled under a waiter (three purges) before its number comes again. `MaxTicks`, `MaxLate`, `MaxHold` and `Room` are
the only bounds on what is unbounded in the code.

Deadlock is checked except where a panic may stop the system (`callout`,
`lockmgr`) and in `vnode`, where `vclean` may sleep for itself (see below). Where it
is checked, a panic is a deadlock, so `sleep_jobs` excludes panics as well.

### Disagreements

Three runs expect a violation, each of a sentence in the source:

* `sleep_zero`: "Returns 0 if awakened" (`tsleep`). A caught `SIGTSTP` wakes the
  sleeper, a `SIGCONT` cancels it before it is looked at, and `tsleep` returns 0
  although nothing happened on the channel.
* `runqueue_window`: "_whichqs tells which of the 32 queues _qs have processes in
  them". Xswitch stores back a copy loaded before `cli`. The process stays linked,
  but its bit is gone until something else sets it; what follows from that is in
  section 2.
* `lockmgr_shared`: an exclusive lock is granted beside shared ones. The interlock
  shares its word with the lock state, and the "no-ops" of `param.h` are stores.
  For the same reason `LK_DRAIN` does not wait for holders (section 2), so
  `ExclusiveIsExclusive` speaks of a lock nobody has drained.

Without a run of its own: `vclean` takes a reference on an active vnode "so that
its count cannot fall to zero and generate a race against ourselves"
(`kern/vfs_subr.c:1047`). If the other users let go during the cleaning, its own
`vrele` is the last, `vn_lock` finds `VXLOCK`, and the process sleeps for itself,
with everybody who wants the vnode. The action is `SelfRele`, and `CleanerWakes` states
that this is the only way in which a sleeper is left without a waker.

## 4. Fairness

`callout`: the clock interrupts again and again. An interrupt that arrives
while masked is latched, hence strong fairness of `Hardclock` and of the soft
interrupt; code in the kernel goes on (weak); called functions return (strong,
because interrupt handlers come in between).

`sleep_live`: the running process goes on and is preempted in the end (`roundrobin`
sets `want_resched`), a queued process is picked in the end (`schedcpu` lets its
priority recover), `vmmeter` runs every second. No wakeup, signal or swapout is
assumed to happen.

`runqueue`: only that the CPU executes Xswitch; the `hlt` of the idle loop ends
with the next clock interrupt.

`select`: a process in the kernel goes on, a runnable one gets the CPU, time
passes and an armed timeout fires. No event or signal is assumed.

## 5. Proofs

All theorems hold for every value of the constants under the named assumptions of the
modules (`CalloutConstants`, `SleepConstants`, `RunQueueConstants`, `LockConstants`,
`SelectConstants`, `ProcConstants`, `VnodeConstants`), which say how the constants are
related and, apart from `MaxHold` (at most 100 locks a process) and the 31 signals, bound
no size. Every proof is complete. What is left to TLC is named at the end of this
section.

`CalloutProofs`. The invariant `IInv` conjoins types, slot partition, order, delta
encoding, the request of `softclock`, the state of the walk and `CallsAreTimers`.
Order alone is not inductive: whether a tick, an insertion or a removal keeps it
depends on the deltas being exact, and an insertion is exact only because of what
`WalkSoFar` says of the corrected `ticks`. Lemmas about `InsertAt`, `RemoveAt` and
`Tail` carry the list reasoning; one lemma per action follows. The refinement
theorem maps the pending set to `{[id, what, left]}` of the queue: `TimeoutInsert`
maps to `Arm`, `Untimeout` to `Cancel`, `Hardclock` to `Tick`, `SoftclockCall` to
`Fire`, `SoftclockReturn` to `Done`, everything else to a stuttering step. `Fire`
needs that the head of the queue is a minimum, which is `SortedByDue`.

`SelectProofs`. `NoLostWakeup` is about sleepers, but what a sleeper has registered
was registered during its scan, so `ScanIsCurrent` carries the argument through
the scan, and `Inductive` adds that one process at a time scans (`selrecord` only
respects a process that is asleep, so a second scanner could displace the first)
and that after the scan nothing is left over. An event on an object wakes a
registered sleeper, and clears `P_SELECT` or counts a collision for a scanner.

`ProcProofs`. Two invariants are proved together (`ProcInv`), a third on top of them. `PidInv` is about
numbers: `RangeIsFree` says something only between searches, so `ScanOK` carries it
through the loop: what has been passed is neither `nextpid` nor inside the range,
what has not is still on the list to do, and the second list is the zombies'. Groups matter
because a group's number is in use as long as a member is there, and every group
was named after a process: whoever makes a group uses its own number, which is why
neither `setsid` nor `setpgid` can put a new number into the range. From this follow
`FreshPid`, a step property of `ForkChild`, and `PidsUnique`. `LifeInv` is about
parents and sleepers: `LifeOK` ties `pc` and `arg` to the entries they name (the child
of a fork is its parent's and not yet freed, so is a zombie about to be freed), and with it `ParentLives` and `NoLostZombie` are inductive; a zombie
can appear beside a sleeper only by `Zombie`, which wakes the parent and, if a child is
inherited, `init`. `CountInv` is about the counts that are only adjusted. `JobcExact` needs
three facts the code relies on without saying so. Differences are taken with the
sessions as they are before the step, which is right because a group somebody else is
in never changes its session. `setpgid` into the group named after the process itself is
not checked against the session; `OwnGroup` shows that the group, if it is still there, is in the
process's own session, because `setsid` refuses while that group has members. And
`exit1` adds nothing for children that `init` inherits; `InitsGroup` says that in the
session of `init` there is no second group, so they count for none. With these, each
action exchanges explicit sets of counted processes (`Exchange`), and for `enterpgrp` these are what
`fixjobc` finds. `ProcConstants` asks for finitely many processes.

`SleepProofs`. The properties speak of queues, of timeouts and of return values
separately, but none is inductive alone: that `endtsleep` belongs to the present sleep
depends on where the process is, and whether `wakeup` may touch it depends on its
`p_stat`, its queue and its being in `issignal`. The invariant is therefore one predicate
of one process, `OK(p, q, cur)`, in four parts: `PlaceOK` (where `p` can be with and
without the CPU, and when it is on the run queue), `StatOK` (`p_stat` at each place),
`ChanOK` (`p_wchan`, the hash chain, and that nothing has happened yet to a process
that still has its channel) and `SleepOK` (`endtsleep`, `P_TIMEOUT`, `P_SINTR`, the
signal and the result). A handler calls others: `psignal` calls `setrunnable`, `stop`
calls `psignal` for the parent and `wakeup`, which may wake the swapper. So the lemmas
are about the kernel record as it passes from one call to the next: `AllOK(k, cur, X)`
says that all is well with everybody but `X`, whose step is under way, and `Awake(k)` that
whoever is on a hash chain is fit for `wakeup`. There is one lemma per C function for
these, and one per action puts the process back. `SleepNeverPanics` is then a
consequence: every `panic` of the handlers is a test the invariant excludes.

`RunProofs`. `QueuesHold(q, b, pr, R)` says that the queues hold exactly the processes `R`
by their priorities, each once, and that `p_back` is non-null for exactly those.
`setrunqueue`, `remrq` and Xswitch keep it for any `R`, whatever the bits say: where a bit is
wrong they panic before they touch a queue. An action has only to show who joins or leaves.
Nothing is assumed of `Window`. The bits are the subject of `BitsTell`, a step property: if
`whichqs` is right before a step, it is right after it and the step does not panic,
unless the step is Xswitch's with a register that is no longer `whichqs`. So the window of
`runqueue_window` is the only way to lose a bit.

`LockProofs`. Every call stores 1 into the word that holds the state, so every request is
decided on a lock with no bit set and one share (`Entered`), and ends with the word 0.
That no call sleeps (`CallsDoNotSleep`) follows from that. Who has the lock exclusively is then remembered in
`lk_lockholder` and `lk_exclusivecount` alone; `Granted` says, request by request, how they
move with what is granted, and `LockExclusive` is the sum.

`VnodeProofs`. The invariant is `Good(v)` for each vnode and the processes at it: the
use count is the number of processes that hold a reference (for which `VnodeConstants`
asks for finitely many processes), `VXLOCK` is set by exactly one cleaner, past
`VOP_RECLAIM` the file is gone, the file is the one its users are after or has been
taken from them, a cleaner without a reference and `getnewvnode` are alone, and
the free list has what is neither referenced nor taken. Nothing keeps a process from
waiting for the lock of a vnode that is recycled, so `VgetIsRight` needs an invariant of
numbers (`CacheOK`): an entry, or a waiter in `vget`, whose `v_id` still is the vnode's means
the file it meant. Every purge renews the `v_id` in the same step in which the file
changes, and a new number is none that anybody remembers, or the behaviour ends there.
A step is at one vnode, and leaves
the other vnodes' parts alone (one lemma); the lemmas per action follow the conjuncts. `Works` also
proves that `vrele` never has to wait for the lock of a vnode whose last reference it gives
up, except in `SelfRele`.

`TailQProofs` has what these and `CalloutProofs` need of lists: what inserting and removing
do to the elements of a queue on which everything is linked once.

Only model-checked: all liveness (fairness is outside the prover's fragment), and
`WhichqsTells` and `NoPanic` of `RunQueue`, which hold of the run's instance because it
has no window. Every other invariant and safety step property of a passing run is proved.

## 6. How to run

`tlc -config MCSelect.cfg Select` checks a run (`PROJECT.json` names module and
configuration of each), `tlapm M.tla` the proofs of `M`: `TailQProofs`, `CalloutProofs`,
`SleepProofs`, `RunProofs`, `LockProofs`, `SelectProofs`, `ProcProofs`, `VnodeProofs`. The largest run, `vnode`, has 1.9 million states and
takes about a minute and a half.

## 7. Plan

Done, in order of importance: callouts, sleep/signals/swapper, run queues, lock
manager, select, process table, vnodes with the name cache. Next:

1. Proofs: step properties behind the invariants (what a wakeup or a cleaning may never
   do), and the safety half of the liveness arguments, where the runs now stand alone.
2. `SockBuf` and `unp_gc`: `sblock`/`sbwait` with interrupted sleeps; marking frees
   exactly the unreachable sockets.
3. `PageOut`/`PageQueues`, `Malloc`, `BufCache` once it is settled which code runs.
4. `Descriptors`: reference counts against the tables.
5. Composition: `tsleep`'s timeout on `CalloutAbs` in place of the `callout` flag.

## 8. Not modelled, and why

File systems on disk, network protocols, device drivers, physical maps, floating
point, debugger and bootstrap: hardware, numerics or protocols of their own.
Userland, X386 and the build scripts are vendored or single-threaded tools.
`kern.386bsd.original` is not built. `kern/i386/isa/isa_clock.c` still calls
`hardclock` with an older interface; the models follow `kern_clock.c`.
Of the process table, `MALLOC` is taken to sleep only for the new process;
the sleeps in `enterpgrp` would allow two groups with one number (a hazard listed
without a property). Of the vnode layer, devices and their aliases are left out, and
with them `vflush`'s and `checkalias`'s direct calls of `vclean`.
Socket buffers, the allocators, the page daemon, the buffer cache and descriptors
are planned and not begun; their hazards are listed. `splstatclock` has no definition in the i386 sources and is taken to mask
the clock as `splclock` does. Details left out of modelled components are named
in the module headers and in `PROJECT.json`.
