# Synchronisation and journalling core of the CP600/1100 kernel: a TLA+ verification project

The repository is a Linux 2.6.22.18 kernel with Marvell's LSP for ARM
(Kirkwood/Feroceon) under `src/linux/`, and its build configurations under
`configs/`. Almost everything in it, drivers included, stands on a small core:
the sleeping locks, the deferred destruction of RCU and the deferred work of
softirqs and work queues. That core is short, lock-free in the interesting
places, and nearly impossible to test by running it. It is the subject of this
project, together with the one part of the kernel that has to survive a crash:
the journalling layer under ext3.

Paths below are relative to `src/linux/`.

## 1. Inventory

| Component | Source | State | Operations | Interacts with | What is hard |
|---|---|---|---|---|---|
| rwsem | `lib/rwsem-spinlock.c`, `kernel/rwsem.c` | `activity`, `wait_list`, `wait_lock`; a `waiter` on each sleeper's stack | down/up read/write, trylocks, downgrade | `schedule()`, `wake_up_process()` | the woken task reads `waiter.task` without the lock, while its waker goes on |
| mutex | `kernel/mutex.c`, `include/asm-generic/mutex-*.h`, `include/asm-arm/mutex.h` | `count`, `wait_list`, `wait_lock` | lock, lock_interruptible, trylock, unlock | signals, scheduler | fast paths change `count` with no lock held; stores of 0 and -1 overwrite each other |
| RCU | `kernel/rcupdate.c`, `include/linux/rcupdate.h` | `rcu_ctrlblk` (batch numbers, `cpumask`), per-CPU `rcu_data` (three callback lists, quiescent-state flags), `rcu_tasklet` | call_rcu, tick, tasklet, context switch, rcu_barrier, CPU up/down | timer tick, softirq, IPIs, hotplug, mutex | batch numbers and `next_pending` read without the lock, quiescent states in the wrong grace period, CPUs that die in the middle |
| work queues | `kernel/workqueue.c` | per-CPU `worklist`, `current_work`, pending bit of each work | queue, run, flush, cancel, destroy, hotplug | kthread, timers, completions | flush and cancel racing the worker and self-requeueing works |
| kthread | `kernel/kthread.c` | create list, `kthread_stop_info` | create, bind, stop, should_stop | completions, scheduler | handshake with a thread that may exit by itself |
| SRCU | `kernel/srcu.c` | per-CPU counter pairs, `completed` | read lock/unlock, synchronize | mutex, RCU-sched | index read before the counter is raised |
| kfifo | `kernel/kfifo.c` | `in`, `out`, `size`, buffer | put, get, reset | - | lock-free, indices wrap at 2^32 |
| softirq, tasklets | `kernel/softirq.c`, `include/linux/interrupt.h` | pending mask, tasklet lists, SCHED/RUN bits and `count` | raise, schedule, action, disable, kill, hotplug takeover | interrupts, ksoftirqd, scheduler | a tasklet re-scheduled while it runs on another CPU; who runs a pending softirq |
| jbd | `fs/jbd/*.c`, `include/linux/jbd.h` | `journal_t`, the running and the committing transaction, `journal_head` of each buffer, revoke tables, the log and the superblock on disk | get access, dirty, release, forget and revoke, commit, checkpoint, tail update, flush, recover | ext3, buffer cache, flusher threads, block device | crash at any write; a buffer in two transactions; freed blocks that are reused |
| stop_machine, hotplug | `kernel/stop_machine.c`, `kernel/cpu.c` | `stopmachine_state`, thread acks | stop, run, restart | scheduler, RCU, work queues | every CPU waits for every other |
| futex, rt-mutex | `kernel/futex.c`, `kernel/rtmutex.c` | hash buckets, PI chains | wait, wake, requeue, lock/unlock PI | user memory, scheduler | value check against wake-up; chain walks dropping locks |
| wait queues, completions | `kernel/wait.c` | queue, `done` | prepare/finish wait, complete | scheduler | as users of the above |
| scheduler, timers, signals, fork/exit | `kernel/*.c` | - | - | everything | used here through `schedule()`, `wake_up_process()`, the tick and `signal_pending()` only |
| pipes, message queues | `fs/pipe.c`, `ipc/msg.c` | rings, queues | read/write; send/receive | locks | sleeping readers and writers |
| mm, net, other file systems, drivers, arch, sound, security | the rest | - | - | - | out of scope: device I/O, page-level data structures, generated or vendor code |

What makes each part correct:

* **rwsem**: a writer is alone; `activity` is what its comment says; the queue
  is FIFO; a release that can hand over does; nobody sleeps for ever.
* **mutex**: one owner; `mutex_is_locked()` is truthful; waiters are never
  forgotten, whichever mixture of fast and slow paths ran; a signal ends an
  interruptible wait and leaves nothing behind.
* **RCU**: a callback runs only after every reader that was active when it was
  queued; each callback runs exactly once and eventually; a grace period waits
  for exactly the CPUs that still owe a report; `rcu_barrier()` waits for
  everything queued before it.
* **work queues**: the pending bit of a work has one owner at any time; flush
  waits for everything queued or running on entry and for nothing else;
  cancelling leaves the work neither queued nor armed nor running.
* **tasklets**: a scheduled tasklet is in one place, runs on one CPU at a time
  and is executed in the end; disabled or killed it does not run.
* **jbd**: after a crash the file system is what some transaction left, and no
  finished transaction is missing; no block goes home before it is committed;
  the commit never runs out of log.

The hazards at their source lines are listed in `PROJECT.json`.

## 2. Conventions

*Concurrency.* The code is written for SMP with preemption between kernel
tasks; the product configuration (`configs/cut3_nokdb.config`) is uniprocessor
and builds a subset of these behaviours. The models take the SMP source,
under sequential consistency: the barriers the code has (`smp_wmb()`,
`smp_rmb()`, `smp_mb()`) are taken to do their job, and weak-memory effects
are not modelled. A critical section of a spinlock is one step when everything
it touches is only touched under that lock; every access to data that somebody
else reads or writes without the lock is a step of its own. Where the critical
section is cut in several steps, a variable says who holds the spinlock.

*Names.* Actions carry the function's name (`down_read`, `mutex_trylock`,
`rcu_check_callbacks`) or, for a part of a function, the name of what the part
does. `pc` says where a task or CPU is.

*Scheduler.* `schedule()` is a step that is enabled when the task is runnable;
`wake_up_process()` sets the state to RUNNING.

*Mutations.* Definitions introduced by a comment "Mutation:" are not part of
any specification. Each is a plausible mistake in the definition that follows;
substituting it makes TLC report the property named in `PROJECT.json`
violated, which shows that the property is not vacuous in that run.

## 3. Modules

| Module | Models | Notes |
|---|---|---|
| `RWLock` | abstract FIFO reader/writer lock | `Take`, `Join`, `Serve`, `Release`, `Downgrade` |
| `Rwsem` | `lib/rwsem-spinlock.c` | refines `RWLock` |
| `RwsemProofs` | - | TLAPS proofs about `Rwsem` |
| `Mutex` | `kernel/mutex.c` and its fast paths | |
| `MutexProofs` | - | TLAPS proofs about `Mutex` |
| `Rcu` | `kernel/rcupdate.c` | |
| `RcuProofs` | - | TLAPS proofs about `Rcu` |
| `Workqueue` | `kernel/workqueue.c` | |
| `WorkqueueProofs` | - | TLAPS proofs about `Workqueue` |
| `Tasklet` | `kernel/softirq.c`, tasklets of `include/linux/interrupt.h` | |
| `TaskletProofs` | - | TLAPS proofs about `Tasklet` |
| `Jbd` | `fs/jbd/` | crash and recovery included |
| `JbdProofs` | - | TLAPS proofs about `Jbd`: log space and the write-ahead rule |
| `JbdCheckpointProofs` | - | TLAPS proofs about `Jbd`: checkpoints and the log's tail |
| `MCRwsem`, `MCMutex`, `MCRcu`, `MCWorkqueue`, `MCTasklet`, `MCJbd` | - | workloads and symmetry sets for TLC |

`Rcu`, `Workqueue` and `Tasklet` take a set `Workload` of what the rest of the
kernel does: which calls, from where, how many. `Init` picks one and keeps it
(`work`, `load`), so that one run covers several small mixtures where their
union would be too large.

### Rwsem

`activity`, `wait_list`, `wait_lock` are the fields of `struct rw_semaphore`.
`flags` and `waiting` are the fields of each task's `struct rwsem_waiter`
(`waiting[t]` is `waiter.task != NULL`); the waiter is on the sleeper's stack,
one per task. `tsk`, `woken`, `ret` are the locals of the waker: there is one
at a time because it holds `wait_lock`.

`down_read` and `down_write` either take the semaphore (`TakeNow`) or queue
(`Enqueue`) and go into the wait loop `WaitCheck`, `Schedule`, `SetState`. A
release under `wait_lock` that finds waiters goes through `WakeOneWriter`
(`__rwsem_wake_one_writer()`) or the loop `WakeWriter`, `WakeReader`,
`WakeDone` (`__rwsem_do_wake()`); between `waiter->task = NULL` and
`wake_up_process(tsk)` (`WakeUpProcess`) the woken task may run, because it
looks at `waiter.task` without the lock. `ret = "idle"` stands for
`wakewrite`: only `__up_write()` passes 1.

### Mutex

`count`, `wait_list`, `wait_lock` are the fields of `struct mutex`; `fastpath`
is the architecture's choice, fixed in `Init`. "xchg" is
`asm-generic/mutex-xchg.h`, which an ARMv5 build such as this board's includes;
"dec" and "dec_cmpxchg" are `mutex-dec.h` without and with `__HAVE_ARCH_CMPXCHG`;
"null" is `mutex-null.h`, used by lock debugging; "v6" is the ldrex/strex
version of `asm-arm/mutex.h`, whose store may fail spuriously. The slow paths
are split at every access to `count`, since fast paths do not take
`wait_lock`: `LockSlowpath`/`Schedule` end with the xchg of `TryAgain`,
`CheckSignal`, `Park`, `GotLock` follow; `UnlockSlowpath`, `WakeFirst`;
`TrySlowpath`, `TrySet`. `mutex_lock_interruptible()` is `mutex_lock` with
`mode` INTERRUPTIBLE. `Signal`, `TakeSignals` and `StrayWakeup` are the rest of
the kernel: a signal may arrive at any time, and a sleeper may be woken by a
late `wake_up_process()` of something it waited for earlier.

### Rcu

`cur`, `completed`, `next_pending`, `cpumask`, `lock` are `struct rcu_ctrlblk`;
`quiescbatch` to `blimit` are `struct rcu_data`, with the linked lists as
sequences. `sched[c]` is the scheduled bit of `rcu_tasklet`, `pc[c]` the place
of the tasklet. `active[c]` holds the contexts ("task", "irq") in which a
read-side critical section is running on c: the classic RCU reader is
`preempt_disable()`, so it stays on its CPU and forbids a context switch.
`called`, `invoked`, `waits`, `barwait` are history variables: what was handed
to `call_rcu()`, what was invoked, the readers each callback has to wait for
and the callbacks `rcu_barrier()` has to wait for.

An interrupt nests on the tasklet, the tasklet on a task (`Running`). The
tasklet (`__rcu_process_callbacks()`) is `TaskletStart`, `Advance`, `TakeNext`,
`NumberBatch`, `ReadPending`, `SetPending`, `StartBatch`, `IncrCur`,
`CheckQuiescent`, `NoteBatch`, `ReportQuiet`, `rcu_do_batch`. Reading
`rcp->cur`, reading `next_pending`, and the two stores of `rcu_start_batch()`
are separate steps. `rcu_barrier`, `rcu_barrier_func`, `BarrierWait`,
`BarrierReturn` are `rcu_barrier()` and its IPI handler; `on_each_cpu()` keeps
preemption off on the calling CPU, which the model represents as a reader
there. `CpuDie` (external, `stop_machine_run()`), `OfflineQuiet`,
`OfflineMove`, `CpuUp` are CPU hotplug; the lists of the dead CPU are moved in
three steps with interrupts allowed in between.

Abstractions: batch numbers start at 0 instead of -300 and are integers
(`BatchWindow` is what makes the wrap harmless); rcu and rcu_bh share the code
and only one is modelled; `rcp->signaled` and the reschedule IPIs of
`force_quiescent_state()` are left out, since a context switch may happen at
any time anyway; `rcu_do_batch()` is one step, its callbacks do nothing but be
recorded; `synchronize_rcu()` is `call_rcu()` plus a completion. `CpuUp` is
`CPU_UP_PREPARE` and the CPU coming online, between which it does nothing; it clears
the CPU's `rcu_data`, its barrier callback included, wherever that is queued:
`Cut` is what the cleared `next` pointer does to the list (see the hazard at
`rcupdate.c:535`).

### Workqueue

`pending[w]`, `data[w]` are the bit and the pointer in `work->data`,
`timer` the works with an armed timer; `worklist`, `current_work`, `lock` are
`struct cpu_workqueue_struct`. An item on a list is a work or, for the
`wq_barrier` on a task's stack, the task. `stack[c]` holds the items whose
functions the worker of c is executing, more than one when `run_workqueue()`
nests. `kind`, `wrk`, `cpu` are a caller's function and locals. `owed[t]` is a
history variable: what was queued or running when t entered
`flush_workqueue()`.

Tasks, timer handlers (`delayed_work_timer_fn`) and work functions (`Rearms`)
all queue. `insert_work()` is `SetWqData` and `ListAdd`, since
`try_to_grab_pending()` may look at both fields under another queue's lock;
`queue_delayed_work` is the bit, `SetWqDataUnlocked` and `AddTimer`. The worker
is `prepare_to_wait`, `TestList`, `StopCheck`, `run_workqueue`,
`CallFunc`, `FuncReturns`. Cancelling is `Cancel`, `DelTimer`, `Grab`,
`GetCwq`, `LockCwq`, `Steal`, then `wait_on_work` and `wait_on_cpu_work`, and
`ClearBit`. `CpuDead`, `flush_cpu_workqueue`, `kthread_stop`, `Stopped` are
`CPU_DEAD`. While an agent holds a `cwq->lock` from one step to the next it has
its CPU's interrupts off and nobody else runs there (`Occupied`, `RunsOn`);
`at[t]` is that CPU in `try_to_grab_pending()`. This matters: the race of
`workqueue_grab` needs a third CPU.

Abstractions: one workqueue; a timer may fire on any online CPU
(`queue_delayed_work_on()` chooses one, hotplug migrates timers); `run_depth`
only warns and is left out; freezing is left out; inserting a work and waking
the worker are one step, since both happen under `cwq->lock`. A work function flushes its
own queue (`FlushOwnQueue`) only on a single-threaded workqueue, where the
flush consists of that one queue. `MaxDepth` bounds the nesting.

### Tasklet

`cpu[c]` is what `softirq.c` keeps per CPU: the pending bit, `tasklet_vec`
(`vec`), where `__do_softirq()` is (`softirq`, with the list it works off and
the restarts left), which task has bottom halves disabled, and ksoftirqd's
place and state. `tl[t]` is the `tasklet_struct`. `InInterrupt`,
`raise_softirq_irqoff`, `__do_softirq`, `do_softirq` are functions of a CPU's
state, so that `Irq`, `local_bh_enable`, `KsoftirqdStep` and
`takeover_tasklets` all use the same ones, as the code does. `tasklet_action()`
is `TakeList`, `NextTasklet`, `CheckCount`, `Func`, `PutBack`: between any two
of them an interrupt may come in and another CPU may look at the bits.
`tasklet_schedule()` in a task is the bit and then the list, since the task may
be preempted, and move to another CPU, in between. `cpu[c].rt` is the real-time
task that is current, if there is one: nothing of lower priority runs there
until it sleeps.

Abstractions: `TASKLET_SOFTIRQ` is the only softirq; `HI_SOFTIRQ` runs the same
code over a vector of its own. `tasklet_kill_immediate()` is left out; its only
caller is `rcu_offline_cpu()`. The test of `count` and the clearing of SCHED are
one step: `count` only matters to who disables, and waits for RUN. A CPU does not die under a real-time task that
is inside one of the calls (it would be migrated).

### Jbd

`home`, `log` and `sb` are the disk; `logio`, `sbio` and the flag `lk` of a
buffer are writes that have been submitted. A crash keeps any subset of them;
a write that the code has waited for is on the disk. `buf[b]` is the
`journal_head` and the bits of the `buffer_head`: `tr`, `nxt`, `cp` are
`b_transaction`, `b_next_transaction`, `b_cp_transaction`, `jl` the list, `d`
and `jd` BH_Dirty and BH_JBDDirty, `fz` `b_frozen_data`. What a block holds is
the number of the transaction that wrote it, or `DATA`. `use` and `freedBy` are
what ext3 knows: it reuses a freed block only when `b_committed_data` of the
bitmap allows (`MayReuse`). `snap` and `stable` are history variables: what
each transaction left, and the last one that `log_wait_commit()` would report.

A handle updates one block: `journal_get_write_access` and, for a buffer that
no transaction has, `FileReserved`, or `journal_get_create_access`; then
`journal_dirty_metadata` or `journal_release_buffer`; `journal_revoke` frees a
block and `ReuseAsData` gives it to a file. `do_get_write_access()` is two steps
because it gives the buffer lock back (`transaction.c:586`) before filing the
buffer takes BH_Dirty away (703); `Opening` are the buffers in between.
`journal_commit_transaction()` is `CommitLock`, `CommitFlush`, `CommitData`,
`WriteBuffer` and `ShadowBuffer` per buffer, `CommitWait`, `CommitRecordDone`,
`ForgetBuffer` per buffer, `CommitFinish`. `WriteBuffer` ends where
`journal_write_metadata_buffer()` unlocks the buffer's state (`journal.c:418`):
the buffer is in `copying`, and its tag in `desc` says whether a copy or the
buffer's own page will be written. `ShadowBuffer` files it and, when the
descriptor is full, submits it and its blocks; `pages` are the log blocks under
way from a buffer's own page, and a change of that page in the meantime may or
may not get into them. `CommitData` writes one revoke block for each
`RevokesPerBlock` revocations; `RevokeOrders` are the orders in which the hash
table may hand them out. `Writeback` and `WriteDone` are the flusher threads.
`__process_buffer`, `__flush_batch`, `__wait_cp_io` are `log_do_checkpoint()`,
`cleanup_journal_tail` and `SuperblockDone` the tail. `Recovery` is
`journal_recover()`: `ScanLog` is `do_one_pass()`, the three passes being one walk
whose result is cut at the last commit record found; a crash in the middle
leaves any of the copies of a block that were replayed before it
(`RecoveryCrash`).

The code has races in this protocol that violate the properties (section 6).
`Races` says which of five a run lets happen; a guard that the code does not
have keeps each of the others out, so that what it would do to the rest of the
protocol does not hide other errors:

| `Races` | guard that keeps it out | run or configuration that lets it happen |
|---|---|---|
| `"batch"` | `b \notin batch` in the access functions | `MCJbdCheckpoint.cfg` |
| `"writeout"` | `b \notin Opening` in `Writeback` and `__flush_batch` | `jbd_writeout` |
| `"copyout"` | `b \notin copying` where `journal_get_write_access` freezes | `jbd_copyout` |
| `"forget"` | `x.nxt = 0` in `journal_revoke` | `MCJbdForget.cfg` |
| `"tail"` | `MayAllocate`: no log block while a superblock write is under way | `MCJbdTail.cfg` |

`Magic` are the transactions whose blocks begin with the magic number; with
`Magic = {}` there are none (`MCJbdMagic.cfg` has one). The number of revocations
of a transaction is not bounded by the code; `MaxRevoke` bounds it, and
`MCJbdRevoke.cfg` has more of them than the reserve can pay for.

Abstractions: a handle asks for one credit; the transaction is created in the
step that finds the space for it; a batch is submitted in one step;
`Reserved` is `MIN_LOG_RESERVED_BLOCKS` of `__log_space_left()`, scaled down
with the log; the drive's cache is taken to be flushed when a write completes; I/O
errors and `journal_abort()` are left out; `journal_unmap_buffer()`, undo
access and data=journal are left out.

## 4. Runs

| Run | Instance | Shows |
|---|---|---|
| `rwsem` | 3 tasks, fair | exclusion, exact `activity`, writer at the head behind readers, no lost wake-up, no idle queue; `Rwsem` implements `RWLock`; no starvation; no deadlock |
| `mutex` | 3 tasks, fast paths xchg, v6 and null, fair | exclusion, truthful count, no lost wake-up, exact queue; progress, signals end waits; no deadlock |
| `rcu` | 2 CPUs, 1 or 2 callbacks, readers in task and irq; or a CPU that goes down and up; or one `rcu_barrier()`; symmetry | grace period, lists, batch numbers, `qlen`; nothing lost and nobody waited for in vain when a CPU dies; the barrier waits for everything queued before it |
| `rcu_live` | 2 CPUs, 1 callback, task readers, fair | callbacks are invoked |
| `workqueue` | 2 CPUs, 2 tasks, 1 re-arming work with all cancel calls, or 2 works with flush and a dying CPU; symmetry | one owner of the pending bit, no BUG_ON, cancelling and flushing are complete, no work left in front of a sleeping or stopped worker |
| `workqueue_live` | 1 CPU, 1 task, 2 works that queue each other and nest, fair | flush and cancel return |
| `workqueue_grab` | 3 CPUs, 2 tasks, 1 delayed work | **violation**, see findings |
| `jbd` | 2 blocks, 3 transactions, a log of 12 blocks entered at 10, 2 crashes, symmetry | recovery restores a prefix that contains all finished transactions; write-ahead; log space; checkpoints |
| `jbd_writeout`, `jbd_copyout` | as `jbd`, each with one of `Races` | **violation**, see findings |
| `tasklet` | 2 CPUs, 1 or 2 tasklets, a real-time and a normal task, one CPU down and up, fair | one place and one CPU per tasklet, disable and kill wait, scheduled tasklets run |
| `tasklet_rt_kill` | 2 CPUs, 1 tasklet, a real-time task that kills it | **violation**, see findings |

Six more configurations are kept beside the runs, each for one property that the
code violates there (section 6); `tlc -config X.cfg` on the module shows the
counterexample:

| Configuration | Module | Instance | Violated |
|---|---|---|---|
| `MCJbdCheckpoint.cfg` | `MCJbd` | as `jbd`, `Races = {"batch"}` | `Durable` |
| `MCJbdForget.cfg` | `MCJbd` | as `jbd`, `Races = {"forget"}` | `WriteAhead` |
| `MCJbdTail.cfg` | `MCJbd` | a log of 11 blocks entered at 1, `Races = {"tail"}` | `Durable` |
| `MCJbdMagic.cfg` | `MCJbd` | as `jbd`, blocks of one transaction start with the magic number | `Durable` |
| `MCJbdRevoke.cfg` | `MCJbd` | 4 blocks, 1 per transaction, one revocation per block of the log, a reserve of 7 in a log of 9, no crash | `LogSpace` |
| `MCRcuBarrierHotplug.cfg` | `MCRcu` | 2 CPUs, 1 callback, `rcu_barrier()` and one CPU down | `BarrierComplete` |

*Bounds.* Three tasks at a lock are an owner that releases, the waiter it is
waking and a newcomer; the safety properties of `Rwsem` and `Mutex` are proved
for any number, and for all five fast paths (the three in the run are the ones
an ARM build can have). Two CPUs and two callbacks give a running batch, a pending one
and a CPU that reports late; callbacks are finite (`Callback`), so batch
numbers are bounded without an extra cap. Two tasks at the work queue are a
canceller or flusher and a competitor, and the work itself, re-queued from its
own function, is a third; two CPUs allow it to run on both at once. The
properties of `workqueue` do not extend to three CPUs with delayed works, as
`workqueue_grab` shows. `Limit = 1` with two callbacks makes
`rcu_do_batch()` stop in the middle; `qhimark = 1` in `rcu` lifts the limit.
`MaxDown = 1`: a CPU goes down once. `INT_MAX` is any number larger than the
lists. The deadlock check is off where the system may go idle for good: with
the finitely many callbacks invoked and no readers, RCU has nothing to do; a
kernel without interrupts and calls has no softirqs; `Jbd` stops at `MaxTid`
and at the last crash.

Two blocks and three transactions are what the hard cases of `Jbd` take: a
block that is in the log of one transaction, frozen in the next and freed or
reused in the third, and a second block that gives the transactions something
else to write. A transaction takes up to four log blocks (a descriptor or revoke
block, two blocks or a second revoke block, the commit record), so the log wraps
and its space has to be freed again before the third. With
`RevokesPerBlock = 1` two revocations go to two blocks, in either order. A commit
of two blocks has one descriptor, with one or two tags; that the space for
several descriptors and revoke blocks suffices is what `JbdLogSpace` proves. With
`MaxCrash = 2` the second crash hits a life that
began with recovery, or recovery itself. `MaxRestart = 2` is the value of
`MAX_SOFTIRQ_RESTART` under `CONFIG_MV_REAL_TIME`. Two tasklets are on one CPU
together so that one waits behind the other on the list.

*Fairness.* Rwsem and Mutex: a task inside a call keeps running (the kernel
schedules runnable tasks; a spinlock is eventually won, hence strong
fairness where the step needs `wait_lock`), and owners eventually release.
Nobody is obliged to acquire. Rcu: ticks arrive, softirqs run, read-side
sections end, CPUs switch context; the tasklet may interrupt a task again and
again, hence strong fairness for what tasks do. Workqueue: agents inside
a call keep running and win spinlocks, work functions return, timers expire;
nobody is obliged to call. `CancelEnds` starts where the canceller owns the
bit: the busy-wait loop before that has no bound. Tasklet: a softirq and a
task inside a call go on; ksoftirqd and the hotplug thread run if they can
again and again (strong fairness: interrupts and softirqs may take the CPU in
between, a real-time task that keeps it is not pushed away). Interrupts need
not come, and an interrupt that only ends with `irq_exit()` need not either. `mutex` asks no fairness
among lockers: the mutex is not fair, and `Progress` does not claim that a
given waiter gets it.

## 5. Proofs

`RwsemProofs`, for every finite set of tasks:
`Spec => []IInv`, and from it `TypeOK`, `WriterExclusive`, `ActivityExact`,
`WriterAtHead`, `NoLostWakeup`, `NoIdleQueue`. `IInv` adds to them who is on a
wake-up path (`PathInv`), that `wait_list` lists exactly the tasks whose
`waiter.task` is not NULL (`QueueInv`), what the waker knows at each stage
(`StageInv`), that `activity + woken` counts the read owners (`CountInv`:
`activity` alone is not exact while `__rwsem_do_wake()` runs), and that behind
readers the queue starts with a writer (`HeadInv`). Cardinality enters through
lemmas on adding and removing one owner. The only assumption is
`TaskAssumption`: the NULL pointer is no task, tasks are finitely many.

`MutexProofs`, for every set of tasks and every subset of the fast paths:
`Spec => []IInv`, and from it `TypeOK`, `MutualExclusion`, `IsLockedExact`,
`NoLostWakeup`, `QueueExact`. `IInv` adds that the holder of `wait_lock` is
where its critical sections are (`LockInv`), that waiters are queued once
(`QueueInv`), that `count` never exceeds 1 (`OwnInv`), and `TryInv`: while
`__mutex_trylock_slowpath()` may still store 0 over the count, no unlock can
complete, which is what makes that store safe. List removal is handled by a
lemma on `RemoveAt`.

`Rwsem` implements `RWLock` (`Refinement`, in `RwsemProofs`): the initial
states map to an initial state, and under `IInv` every step of `Rwsem` is one
acquisition or release of the abstract lock, or leaves its owners alone. A
reader that `__rwsem_do_wake()` has granted the semaphore owns it from the
moment `waiter.task` is cleared, not from when it runs; this is the step where
the mapping needs `StageInv`.

`TaskletProofs`, for every number of CPUs, tasks and tasklets: `Serialized`
(a tasklet never runs on two CPUs) and `Quiesced` (after `tasklet_kill()` or
under `tasklet_disable()` it does not run). The inductive invariant says what
each CPU holds in its local list (`CpuInv`), that a tasklet with
`TASKLET_STATE_SCHED` is in at most one place and one without it in none
(`PlaceInv`), that `TASKLET_STATE_RUN` has exactly one holder (`RunInv`), that
the count exceeds zero while a disabler is in its section (`CountInv`), and what
a waiter in `tasklet_unlock_wait()` knows (`WaitedInv`).

`RcuProofs`, for every set of CPUs, tasks and callbacks: `TypeOK`, `GracePeriod`,
`BatchWindow`, `BatchWillStart`, `NoForgottenCpu`, `QlenExact` and
`BarrierComplete` without hotplug, and `NoneLost` unless a barrier meets hotplug
(`Calm`). The chain behind `GracePeriod` is: a batch in progress waits for every
online CPU that has not passed a quiescent state since it began (`QuietInv`,
`NoForgottenCpu`); a CPU's own view of the batch is at most one behind
(`StaleInv`, `PendingInv`); a callback in `curlist` belongs to a batch that began
after it was queued (`HeadInv`); a reader that was inside at that moment keeps
its CPU in the mask (`ReaderInv`); so on `donelist` no such reader is left
(`DoneInv`). `LockInv`, `BatchInv`, `OfflineInv`, `ControlOK`, `WaitInv` and
`QlenInv` say who holds `rcp->lock`, how `cur` and `completed` relate, and what
CPU hotplug leaves behind.

`NoneLost` rests on `OnceInv` (every callback that waits is in one place on one
list, and what is invoked is on none, counted over the three lists of each CPU
and the three that `__rcu_offline_cpu()` moves one after the other) and on
`GoneInv` (what has been moved is gone from the dead CPU). For
`BarrierComplete`, `PinInv` says that no grace period that a barrier callback
waits for ends before all of them are queued, because the caller of
`rcu_barrier()` has preemption off, and `CompleteInv` that on each CPU the
callbacks the barrier waits for are ahead of the barrier's own. The two cases
that the theorems leave out are false, not merely unproved: section 6 shows a
barrier that returns early and a callback list that is cut when hotplug
interferes. TLC checked the whole invariant on the constants of `MCRcu`
(1.2 million states).

`WorkqueueProofs`, for every set of CPUs, tasks and works: `TypeOK`,
`NoLostWakeup`, and four that hold under a condition on the constants that is
part of the theorem:
`FlushComplete` if `run_workqueue()` does not nest (`Flat`, that is `MaxDepth = 1`
or more than one CPU: nesting breaks it, section 6), `PendingOwned` and `NoBugOn`
on at most two CPUs (`TwoCpus`: with three the race of `workqueue_grab` exists),
`Cancelled` under both. The
inductive invariant has a part for the worker threads (`WorkerInv`), the agents
inside a call (`TaskInv`, `AgentInv`), `current_work` (`CurrentInv`), barriers on
lists and on stacks (`BarrierInv`), sleeping and cleaning up (`SleepInv`), who
still owes a flusher what (`FlushInv`), who owns a pending bit (`OwnerInv`), what
`work->data` may point to (`DataInv`), the look of `try_to_grab_pending()` at a
queue that may no longer be the work's (`StealInv`), and the queues that
`wait_on_work()` has already passed (`PassedInv`). TLC checked it on two CPUs,
two tasks and one work (3.1 million states) before it was proved.

`JbdProofs`, for every finite set of blocks, every log and any number of crashes:
`LogSpace` if `Ample` holds, and `WriteAhead` if `Orderly` does. `Ample` asks for
`TagsPerBlock >= 8` and `Reserved >= 5 + 2 * RevokeBlocks(MaxRevoke)`; the code
has more than a hundred tags per descriptor and `MIN_LOG_RESERVED_BLOCKS` = 32,
but no bound on revocations, so that for it the theorem says: as long as no
transaction has revocations for more than 13 blocks (3276 records with blocks of
1024 bytes). `__log_space_left()` holds back one eighth of the free space, which
pays for the descriptors of two transactions if each has eight tags; only the
fixed reserve pays for revoke blocks, of the committing transaction and of the
running one. `MCJbdRevoke.cfg` shows
`LogSpace` false beyond. `Orderly` says that
`"forget"` and `"writeout"` are not in `Races`; with either, `WriteAhead` is
false (section 6). The inductive invariant says which stage of the commit owns
which transaction (`ControlInv`), when a descriptor is open and which buffer is
being copied out (`DescInv`), which lists a buffer may be on in each stage, that
the block of an open handle is in the running transaction or about to be filed
there, and that a freed block is at most in the transaction that freed it
(`ListInv`), that neither transaction outgrows `MaxTransaction` and `MaxRevoke`
(`SizeInv`), that there is space for the rest of the committing transaction and
behind it for all that the running one may become, revoke blocks included
(`SpaceInv`), and which transaction's contents a dirty, a journal-dirty and a
submitted buffer may hold, where a buffer in `Opening` is not under write-out
(`AheadInv`). `SpaceInv` is the part that makes `LogSpace` inductive: a new
transaction starts while the old one is still writing, so the free space at that
moment has to cover both. TLC checked the invariant on the constants of `MCJbd`
(3.0 million states; without `SpaceInv`, since `Reserved = 5` and
`TagsPerBlock = 2` are not `Ample`) and all of it with `Reserved = 9`,
`TagsPerBlock = 8`, `MaxTransaction = 2`, `LogSize = 18` and one crash
(2.2 million states).

`JbdCheckpointProofs`, for every finite set of blocks, every log and any number
of crashes: `Checkpointed` unless one of the defects that concern checkpoints is
let in (`Undisturbed`: none of `"batch"`, `"forget"` and `"writeout"` is in
`Races`; with `"batch"` TLC finds it violated). `Checkpointed` is what makes it
safe to forget a transaction: a metadata block that is in no transaction and on no
checkpoint list is home, and the superblock on the disk does not name a log
that begins behind a transaction which still has a block listed. The
invariant, relative to `IInv`, has three parts. `HomeInv`: a buffer that is
dirty, under way, or was dirty when a handle reserved it is on a checkpoint list
(`Listed`), and a metadata block with nothing to write is home (`AtHome`); a
transaction forgets an unmodified buffer only if its block has been freed.
`IoInv`: a batch of `log_do_checkpoint()` is in no transaction and in the hands
of no handle, and what it has
submitted is not dirtied again before `__wait_cp_io()` takes it off the list,
"in whatever state" it is. `TailInv`: the tail in memory, under way to the disk
and on it are no later than any transaction that is listed, commits or runs,
which is what `cleanup_journal_tail()` computes as the minimum over the lists,
across crashes and `journal_flush()`. TLC checked the three parts on the
constants of `MCJbd` (3.0 million states).

Model-checked only: all liveness properties (the proof system does not handle
fairness and ENABLED), and `Durable`: what recovery makes of a log is a recursion
over the blocks of the log. Its two halves outside recovery, that
nothing uncommitted goes home and that nothing committed is forgotten before it
is home, are proved (`WriteAhead`, `Checkpointed`).

## 6. Findings

* `rcu_barrier()` says it takes the cpucontrol mutex "to protect against CPU
  hotplug" and does not; `MCRcuBarrierHotplug.cfg` shows it returning early: it is
  called after a CPU has died and before `rcu_offline_cpu()` has moved the dead
  CPU's lists. `on_each_cpu()` does not reach that CPU, no barrier callback is
  queued behind the callback on its list, and `rcu_barrier()` returns when the
  online CPUs' barrier callbacks are through, with the callback still queued.
  This needs `CONFIG_HOTPLUG_CPU`, which the configurations in `configs/`
  leave off. (`rcu_move_batch()` also moves callbacks without adjusting
  `qlen`, so `QlenExact` is checked without hotplug only.)
* `try_to_grab_pending()` promises that its caller owns the pending bit.
  `workqueue_grab` shows it succeeding without: between its look at
  `work->entry` and its look at `work->data` the work, which is on another
  queue than the locked one, may run and be armed again by
  `queue_delayed_work()`, which stores `work->data` without a lock. It takes
  three CPUs.
* `log_do_checkpoint()` puts buffers into a batch, drops its locks and writes
  them later. A handle may take such a buffer in between, which makes it clean
  for the batch; `__wait_cp_io()` takes it off the checkpoint list all the
  same ("we know that it has been written out"). `MCJbdCheckpoint.cfg` shows the log
  tail passing the only committed copy, and a crash losing a finished update.
* `do_get_write_access()` locks the buffer "to be sure we don't race with running
  write-out", but gives the lock back before the dirty bit of a buffer that no
  transaction has is cleared. `jbd_writeout` shows a write-out starting in between
  and taking the handle's uncommitted contents home (`WriteAhead`).
* `journal_write_metadata_buffer()` says that a buffer whose own page is logged
  has to be locked against changes, chooses the page, unlocks, may sleep, and
  only then files the buffer on `BJ_Shadow`, which is that lock. `jbd_copyout`
  shows a handle taking the buffer in between and its later contents in the log
  of the earlier transaction (`Durable`).
* `journal_forget()` of a buffer that the committing transaction owns drops the
  running transaction's claim ("we CAN drop it") and leaves its contents in the
  buffer. `MCJbdForget.cfg` shows them open for write-out although they never
  committed (`WriteAhead`).
* `cleanup_journal_tail()` raises `j_free` before the superblock with the new tail
  is written. `MCJbdTail.cfg` shows a commit overwriting log blocks that the tail on
  the disk still needs, and a crash after which recovery finds nothing there
  (`Durable`).
* Recovery restores the escaped first word in the descriptor's buffer instead of
  the block's (`recovery.c:481`), against `journal.c:303`: "The missing word can
  then be restored when the block is read during recovery" (`MCJbdMagic.cfg`,
  `Durable`).
* "The commit code assumes that it can get enough log space without forcing a
  checkpoint" (`transaction.c:187`), but revoke blocks are taken from the log
  without credits. `MCJbdRevoke.cfg` shows a transaction whose revocations use up the
  space for its record (`LogSpace`). It takes a reserve smaller than the revoke
  blocks of two transactions; with the 32 blocks of the code, thousands of freed
  metadata blocks in one transaction.
* `interrupt.h` guarantees that a scheduled tasklet is executed.
  `tasklet_rt_kill` shows it staying scheduled for ever under
  `CONFIG_MV_REAL_TIME`, which the product configuration sets: softirqs are
  left to ksoftirqd while a real-time task is current, and a real-time task in
  `tasklet_kill()` yields to nobody of lower priority.

Seen with other constants, without a configuration of their own:

* `flush_workqueue()` promises to wait for all works queued on entry. With
  `MaxDepth = 2` and two tasks on one CPU TLC finds `FlushComplete` violated:
  when a work has flushed its own queue, the nested `run_workqueue()` has set
  `current_work` to NULL while the outer function still runs.
* With `rcu_barrier()` and a CPU that comes back, `NoneLost` is violated:
  `CPU_UP_PREPARE` clears the barrier callback in the middle of a list.

## 7. Plan

1. Done: rwsem with its abstract specification, mutex, RCU with barrier and
   hotplug, work queues, softirqs and tasklets, jbd with crashes; safety proofs
   for all of them and the refinement of `RWLock`.
2. Proofs left: `Durable`, that is, that the log from the tail to the head
   always reads as the transactions whose buffers are not home, and that replay
   of it restores `snap`.
3. In `Jbd`: `journal_unmap_buffer()` and I/O errors with `journal_abort()`.
   In `Workqueue`: destroying a workqueue and bringing a CPU up.

## 8. Not modelled

kthread's handshake, wait queues and completions appear inside their users.
SRCU, kfifo, `stop_machine()`, pipes and message queues are small candidates
for later modules. Futexes and rt-mutexes (user memory, priority-inheritance
chains) would be a project of their own. The scheduler is used through
`schedule()`, `wake_up_process()` and the priority of real-time tasks only;
timers, signals, fork and exit through the one hook each that the models need.
Memory management, the network stack, the other file systems, drivers,
platform code, sound and security modules are out of scope: they are device
I/O, page-level data structures, or vendor code without a protocol of their
own that a small instance would show. They make up nearly all of the
repository's lines, which is why the share of the whole tree that the map covers
stays tiny.
