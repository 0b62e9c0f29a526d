------------------------------- MODULE Rwsem -------------------------------
(***************************************************************************)
(* The reader/writer semaphore of lib/rwsem-spinlock.c, the implementation *)
(* selected by CONFIG_RWSEM_GENERIC_SPINLOCK.                              *)
(*                                                                         *)
(* sem->wait_lock protects activity and wait_list, so a critical section   *)
(* that wakes nobody is one atomic step.  A release that hands the         *)
(* semaphore over is taken apart, because the woken task reads its own     *)
(* waiter.task WITHOUT the spinlock: it may leave __down_read() and even   *)
(* block again before the waker reaches wake_up_process().                 *)
(***************************************************************************)
EXTENDS Integers, Sequences, FiniteSets

CONSTANTS Task,     \* the tasks that use the semaphore
          NoTask    \* the NULL task pointer

ASSUME TaskAssumption == NoTask \notin Task /\ IsFiniteSet(Task)

VARIABLES
  activity,   \* sem->activity: > 0 number of readers, -1 one writer, 0 free
  wait_list,  \* sem->wait_list: the queued waiters, oldest first
  wait_lock,  \* holder of sem->wait_lock across several steps, or NoTask
  flags,      \* waiter.flags of each task's last wait
  waiting,    \* waiting[t]: t's waiter.task is not yet NULL
  state,      \* task state as seen by schedule() and wake_up_process()
  pc,         \* where each task is
  tsk,        \* local of the waker: the task it has yet to wake
  woken,      \* local of __rwsem_do_wake(): readers granted so far
  ret         \* what the waker holds once it drops wait_lock

vars == <<activity, wait_list, wait_lock, flags, waiting, state, pc, tsk,
          woken, ret>>
waker == <<tsk, woken, ret>>

Mode == {"READ", "WRITE"}

\* Program counters: "idle" outside, "read"/"write" holding the semaphore,
\* "check", "sched", "setstate" the wait loop of __down_read()/__down_write(),
\* "wakeone", "dowake", "wake" the stages of a release under wait_lock.
WaitLoop == {"check", "sched", "setstate"}
WakePath == {"wakeone", "dowake", "wake"}
PC == {"idle", "read", "write"} \cup WaitLoop \cup WakePath

Holding(mode) == IF mode = "READ" THEN "read" ELSE "write"

Init ==
  /\ activity = 0
  /\ wait_list = <<>>
  /\ wait_lock = NoTask
  /\ flags = [t \in Task |-> "READ"]
  /\ waiting = [t \in Task |-> FALSE]
  /\ state = [t \in Task |-> "RUNNING"]
  /\ pc = [t \in Task |-> "idle"]
  /\ tsk = NoTask /\ woken = 0 /\ ret = "idle"

-----------------------------------------------------------------------------
(* Acquisition *)

\* Mutations: a writer is let in beside readers; newcomers overtake the queue.
GrantedBesideReaders(mode) == activity >= 0 /\ wait_list = <<>>
GrantedBarging(mode) == IF mode = "READ" THEN activity >= 0 ELSE activity = 0

\* The fast-path test of __down_read(), __down_write() and their trylocks.
Granted(mode) ==
  /\ IF mode = "READ" THEN activity >= 0 ELSE activity = 0
  /\ wait_list = <<>>

TakeNow(t, mode) ==
  /\ pc[t] = "idle" /\ wait_lock = NoTask
  /\ Granted(mode)
  /\ activity' = IF mode = "READ" THEN activity + 1 ELSE -1
  /\ pc' = [pc EXCEPT ![t] = Holding(mode)]
  /\ UNCHANGED <<wait_list, wait_lock, flags, waiting, state, waker>>

\* Mutation: list_add() instead of list_add_tail().
EnqueueFirst(t, mode) ==
  /\ pc[t] = "idle" /\ wait_lock = NoTask
  /\ ~Granted(mode)
  /\ state' = [state EXCEPT ![t] = "UNINTERRUPTIBLE"]
  /\ flags' = [flags EXCEPT ![t] = mode]
  /\ waiting' = [waiting EXCEPT ![t] = TRUE]
  /\ wait_list' = <<t>> \o wait_list
  /\ pc' = [pc EXCEPT ![t] = "check"]
  /\ UNCHANGED <<activity, wait_lock, waker>>

Enqueue(t, mode) ==
  /\ pc[t] = "idle" /\ wait_lock = NoTask
  /\ ~Granted(mode)
  /\ state' = [state EXCEPT ![t] = "UNINTERRUPTIBLE"]
  /\ flags' = [flags EXCEPT ![t] = mode]
  /\ waiting' = [waiting EXCEPT ![t] = TRUE]
  /\ wait_list' = Append(wait_list, t)
  /\ pc' = [pc EXCEPT ![t] = "check"]
  /\ UNCHANGED <<activity, wait_lock, waker>>

down_read(t) == TakeNow(t, "READ") \/ Enqueue(t, "READ")
down_write(t) == TakeNow(t, "WRITE") \/ Enqueue(t, "WRITE")

\* The trylocks change nothing when they return 0.
down_read_trylock(t) == TakeNow(t, "READ")
down_write_trylock(t) == TakeNow(t, "WRITE")

\* for (;;) { if (!waiter.task) break; ...
WaitCheck(t) ==
  /\ pc[t] = "check"
  /\ IF waiting[t]
       THEN pc' = [pc EXCEPT ![t] = "sched"] /\ UNCHANGED state
       ELSE /\ pc' = [pc EXCEPT ![t] = Holding(flags[t])]
            /\ state' = [state EXCEPT ![t] = "RUNNING"]
  /\ UNCHANGED <<activity, wait_list, wait_lock, flags, waiting, waker>>

\* schedule() returns once the task is runnable.
Schedule(t) ==
  /\ pc[t] = "sched" /\ state[t] = "RUNNING"
  /\ pc' = [pc EXCEPT ![t] = "setstate"]
  /\ UNCHANGED <<activity, wait_list, wait_lock, flags, waiting, state, waker>>

\* Mutation: the state is set after the test of waiter.task.
SetStateLate(t) ==
  /\ pc[t] = "setstate"
  /\ state' = [state EXCEPT ![t] = "UNINTERRUPTIBLE"]
  /\ pc' = [pc EXCEPT ![t] = "sched"]
  /\ UNCHANGED <<activity, wait_list, wait_lock, flags, waiting, waker>>

SetState(t) ==
  /\ pc[t] = "setstate"
  /\ state' = [state EXCEPT ![t] = "UNINTERRUPTIBLE"]
  /\ pc' = [pc EXCEPT ![t] = "check"]
  /\ UNCHANGED <<activity, wait_list, wait_lock, flags, waiting, waker>>

-----------------------------------------------------------------------------
(* Release *)

\* t, holding nothing or (after a downgrade) a read lock, drops wait_lock.
Unlock(t, what) ==
  /\ wait_lock' = NoTask
  /\ pc' = [pc EXCEPT ![t] = what]

\* t keeps wait_lock and goes on to wake somebody.
EnterWake(t, stage, what) ==
  /\ wait_lock' = t
  /\ pc' = [pc EXCEPT ![t] = stage]
  /\ ret' = what /\ woken' = 0 /\ tsk' = NoTask

\* Mutation: activity is tested before it is decremented.
UpReadTestsFirst(t) ==
  /\ pc[t] = "read" /\ wait_lock = NoTask
  /\ activity' = activity - 1
  /\ IF activity = 0 /\ wait_list # <<>>
       THEN EnterWake(t, "wakeone", "idle")
       ELSE Unlock(t, "idle") /\ UNCHANGED waker
  /\ UNCHANGED <<wait_list, flags, waiting, state>>

up_read(t) ==
  /\ pc[t] = "read" /\ wait_lock = NoTask
  /\ activity' = activity - 1
  /\ IF activity' = 0 /\ wait_list # <<>>
       THEN EnterWake(t, "wakeone", "idle")
       ELSE Unlock(t, "idle") /\ UNCHANGED waker
  /\ UNCHANGED <<wait_list, flags, waiting, state>>

up_write(t) ==
  /\ pc[t] = "write" /\ wait_lock = NoTask
  /\ activity' = 0
  /\ IF wait_list # <<>>
       THEN EnterWake(t, "dowake", "idle")
       ELSE Unlock(t, "idle") /\ UNCHANGED waker
  /\ UNCHANGED <<wait_list, flags, waiting, state>>

downgrade_write(t) ==
  /\ pc[t] = "write" /\ wait_lock = NoTask
  /\ activity' = 1
  /\ IF wait_list # <<>>
       THEN EnterWake(t, "dowake", "read")
       ELSE Unlock(t, "read") /\ UNCHANGED waker
  /\ UNCHANGED <<wait_list, flags, waiting, state>>

\* list_del(&waiter->list); tsk = waiter->task; waiter->task = NULL;
DetachFirst(t) ==
  /\ tsk' = Head(wait_list)
  /\ wait_list' = Tail(wait_list)
  /\ waiting' = [waiting EXCEPT ![Head(wait_list)] = FALSE]
  /\ pc' = [pc EXCEPT ![t] = "wake"]
  /\ UNCHANGED <<wait_lock, flags, state, ret>>

\* __rwsem_wake_one_writer(): called by __up_read(), it never looks at
\* waiter->flags.
WakeOneWriter(t) ==
  /\ pc[t] = "wakeone"
  /\ activity' = -1
  /\ DetachFirst(t)
  /\ UNCHANGED woken

\* The kind of waiter at the front of the queue, if there is one.
First(mode) == wait_list # <<>> /\ flags[Head(wait_list)] = mode

\* __rwsem_do_wake(): wakewrite is 1 from __up_write(), 0 from
\* __downgrade_write().
WakeWriter(t) ==
  /\ pc[t] = "dowake" /\ woken = 0 /\ ret = "idle"
  /\ First("WRITE")
  /\ activity' = -1
  /\ DetachFirst(t)
  /\ UNCHANGED woken

\* Mutation: woken is counted down.
WakeReaderDown(t) ==
  /\ pc[t] = "dowake"
  /\ First("READ")
  /\ DetachFirst(t)
  /\ woken' = woken - 1
  /\ UNCHANGED activity

WakeReader(t) ==
  /\ pc[t] = "dowake"
  /\ First("READ")
  /\ DetachFirst(t)
  /\ woken' = woken + 1
  /\ UNCHANGED activity

\* Mutation: the woken readers are not added to activity.
WakeDoneUncounted(t) ==
  /\ pc[t] = "dowake"
  /\ ~First("READ") /\ ~(First("WRITE") /\ woken = 0 /\ ret = "idle")
  /\ Unlock(t, ret)
  /\ woken' = 0
  /\ UNCHANGED <<activity, wait_list, flags, waiting, state, tsk, ret>>

\* The loop ends at a writer or at the end of the list; activity += woken.
WakeDone(t) ==
  /\ pc[t] = "dowake"
  /\ ~First("READ") /\ ~(First("WRITE") /\ woken = 0 /\ ret = "idle")
  /\ activity' = activity + woken
  /\ Unlock(t, ret)
  /\ woken' = 0
  /\ UNCHANGED <<wait_list, flags, waiting, state, tsk, ret>>

\* wake_up_process(tsk), then back to the loop or, after a writer, out.
WakeUpProcess(t) ==
  /\ pc[t] = "wake"
  /\ state' = [state EXCEPT ![tsk] = "RUNNING"]
  /\ tsk' = NoTask
  /\ IF activity = -1
       THEN Unlock(t, ret)
       ELSE pc' = [pc EXCEPT ![t] = "dowake"] /\ UNCHANGED wait_lock
  /\ UNCHANGED <<activity, wait_list, flags, waiting, woken, ret>>

-----------------------------------------------------------------------------
Acquire(t) ==
  down_read(t) \/ down_write(t) \/ down_read_trylock(t) \/ down_write_trylock(t)
Wait(t) == WaitCheck(t) \/ Schedule(t) \/ SetState(t)
Release(t) == up_read(t) \/ up_write(t)
Wake(t) ==
  WakeOneWriter(t) \/ WakeWriter(t) \/ WakeReader(t) \/ WakeDone(t)
    \/ WakeUpProcess(t)

Next ==
  \E t \in Task :
    Acquire(t) \/ Wait(t) \/ Release(t) \/ downgrade_write(t) \/ Wake(t)

Spec == Init /\ [][Next]_vars

\* Holders eventually release and running code keeps running.  The release
\* must win wait_lock against other callers, hence strong fairness for it;
\* nobody is obliged to acquire or to downgrade.
Fairness ==
  \A t \in Task : WF_vars(Wait(t)) /\ WF_vars(Wake(t)) /\ SF_vars(Release(t))

FairSpec == Spec /\ Fairness

-----------------------------------------------------------------------------
(* Who holds the semaphore: from the moment waiter.task is NULLed.          *)
Owns(t, mode) ==
  \/ pc[t] = Holding(mode)
  \/ pc[t] \in WaitLoop /\ ~waiting[t] /\ flags[t] = mode
  \/ pc[t] \in WakePath /\ ret = "read" /\ mode = "READ"

Readers == {t \in Task : Owns(t, "READ")}
Writers == {t \in Task : Owns(t, "WRITE")}

TypeOK ==
  /\ activity \in Int
  /\ wait_list \in Seq(Task)
  /\ wait_lock \in Task \cup {NoTask}
  /\ flags \in [Task -> Mode]
  /\ waiting \in [Task -> BOOLEAN]
  /\ state \in [Task -> {"RUNNING", "UNINTERRUPTIBLE"}]
  /\ pc \in [Task -> PC]
  /\ tsk \in Task \cup {NoTask}
  /\ woken \in Nat
  /\ ret \in {"idle", "read"}

\* A writer excludes every other owner: __down_write() and the wake-up paths
\* never grant a write lock beside another lock, even though the grant and
\* the wake-up are separate steps.
WriterExclusive ==
  \A t, u \in Task :
    Owns(t, "WRITE") /\ u # t => ~Owns(u, "READ") /\ ~Owns(u, "WRITE")

\* sem->activity is exact whenever wait_lock is free: -1 for a writer,
\* otherwise the number of readers, those not yet scheduled included.
ActivityExact ==
  wait_lock = NoTask =>
    activity = IF Writers # {} THEN -1 ELSE Cardinality(Readers)

\* What __up_read() relies on when it wakes the first waiter as a writer
\* without testing waiter->flags: behind readers, the queue starts with a
\* writer.
WriterAtHead ==
  \A t \in Task : pc[t] = "wakeone" => First("WRITE")

\* No lost wake-up: a task whose waiter.task has been NULLed is runnable, or
\* its waker is still about to call wake_up_process() on it.
NoLostWakeup ==
  \A t \in Task :
    pc[t] = "sched" /\ ~waiting[t] => state[t] = "RUNNING" \/ tsk = t

\* Nobody waits on a free semaphore: with wait_lock released, a non-empty
\* queue means that somebody holds the semaphore and will hand it over.
NoIdleQueue ==
  wait_lock = NoTask /\ wait_list # <<>> => Readers \cup Writers # {}

\* Every task that blocks in down_read() or down_write() gets the semaphore:
\* the FIFO queue leaves no reader behind writers nor a writer behind readers.
NoStarvation == \A t \in Task : waiting[t] ~> ~waiting[t]

-----------------------------------------------------------------------------
(* The inductive invariant behind the safety properties (RwsemProofs).      *)

\* Exactly the holder of wait_lock is on a wake-up path.
PathInv == \A t \in Task : pc[t] \in WakePath <=> wait_lock = t

\* wait_list lists, once each, the tasks whose waiter.task is not NULL.
QueueInv ==
  /\ \A i, j \in 1..Len(wait_list) : wait_list[i] = wait_list[j] => i = j
  /\ \A t \in Task : waiting[t] <=> \E i \in 1..Len(wait_list) : wait_list[i] = t
  /\ \A t \in Task : waiting[t] => pc[t] \in WaitLoop

\* What the waker knows at each stage of a release.
StageInv ==
  /\ wait_lock = NoTask => woken = 0 /\ tsk = NoTask
  /\ \A t \in Task : pc[t] = "wakeone" =>
       activity = 0 /\ woken = 0 /\ ret = "idle" /\ tsk = NoTask /\ First("WRITE")
  /\ \A t \in Task : pc[t] = "dowake" =>
       tsk = NoTask /\ activity = IF ret = "read" THEN 1 ELSE 0
  /\ \A t \in Task : pc[t] = "wake" =>
       /\ tsk \in Task
       /\ \/ activity = -1 /\ ret = "idle" /\ woken = 0
          \/ activity = IF ret = "read" THEN 1 ELSE 0

\* activity counts the owners; the readers granted by a running
\* __rwsem_do_wake() are still in woken.
CountInv ==
  \/ /\ activity = -1 /\ woken = 0
     /\ Readers = {} /\ \E w \in Task : Writers = {w}
  \/ activity >= 0 /\ Writers = {} /\ Cardinality(Readers) = activity + woken

\* Behind readers the queue starts with a writer; nobody queues at a free
\* semaphore.
HeadInv ==
  wait_lock = NoTask =>
    (activity > 0 => ~First("READ")) /\ (activity = 0 => wait_list = <<>>)

IInv ==
  TypeOK /\ PathInv /\ QueueInv /\ StageInv /\ CountInv /\ HeadInv /\ NoLostWakeup

-----------------------------------------------------------------------------
(* The abstract FIFO reader/writer lock that this code implements.          *)
Hold(t) ==
  IF Owns(t, "WRITE") THEN "WRITE"
  ELSE IF Owns(t, "READ") THEN "READ" ELSE "NONE"

RW == INSTANCE RWLock WITH
        hold <- [t \in Task |-> Hold(t)],
        queue <- wait_list,
        want <- flags

\* lib/rwsem-spinlock.c implements the FIFO reader/writer lock of RWLock.
ImplementsRWLock == RW!Spec
=============================================================================
