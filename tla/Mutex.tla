------------------------------- MODULE Mutex -------------------------------
(***************************************************************************)
(* The sleeping mutex of kernel/mutex.c with each of the fast paths that   *)
(* an architecture may choose: asm-generic/mutex-xchg.h (this board),      *)
(* mutex-dec.h with and without cmpxchg, mutex-null.h, and the ldrex/strex *)
(* one of asm-arm/mutex.h.                                                 *)
(*                                                                         *)
(* Fast paths touch lock->count with one atomic operation and never take   *)
(* lock->wait_lock, so every access to count is a step of its own, inside  *)
(* the critical sections of wait_lock too.                                 *)
(***************************************************************************)
EXTENDS Integers, Sequences, SequencesExt, FiniteSets

CONSTANTS Task,       \* the tasks that use the mutex
          NoTask,     \* wait_lock is free
          Fastpaths   \* the fast paths a kernel may be built with

ASSUME TaskAssumption == NoTask \notin Task
ASSUME FastpathAssumption ==
  Fastpaths \subseteq {"xchg", "dec", "dec_cmpxchg", "v6", "null"}

VARIABLES
  fastpath,   \* the fast path the kernel was built with; never changes
  count,      \* lock->count: 1 unlocked, 0 locked, negative: maybe waiters
  wait_list,  \* lock->wait_list, oldest waiter first
  wait_lock,  \* the holder of lock->wait_lock, or NoTask
  state,      \* task state as seen by schedule() and wake_up_process()
  mode,       \* the state argument of __mutex_lock_common()
  sigpending, \* signal_pending(task)
  pc          \* where each task is

vars == <<fastpath, count, wait_list, wait_lock, state, mode, sigpending, pc>>

Mode == {"INTERRUPTIBLE", "UNINTERRUPTIBLE"}

\* "out": outside; "cs": mutex_lock() returned; "slow", "check", "park",
\* "sched", "got": __mutex_lock_common(); "uslow", "uwake": the unlock slow
\* path; "restore": the xchg trylock saw a contended count; "try", "tryset",
\* "trygot": the spinlock-based trylock.
Waiting == {"check", "park", "sched", "got"}
Locked == {"check", "park", "got", "uwake", "tryset", "trygot"}
PC == {"out", "cs", "slow", "uslow", "restore", "try"} \cup Waiting \cup Locked

\* The unlock fast path leaves count below 1 when it fails.
__mutex_slowpath_needs_to_unlock == fastpath # "xchg"

Goto(t, where) == pc' = [pc EXCEPT ![t] = where]
Lock(t) == wait_lock = NoTask /\ wait_lock' = t
Unlock == wait_lock' = NoTask

\* mutex_remove_waiter(): list_del() of t's own waiter.
remove_waiter(t) ==
  wait_list' = RemoveAt(wait_list, CHOOSE i \in DOMAIN wait_list : wait_list[i] = t)

Init ==
  /\ fastpath \in Fastpaths
  /\ count = 1
  /\ wait_list = <<>>
  /\ wait_lock = NoTask
  /\ state = [t \in Task |-> "RUNNING"]
  /\ mode = [t \in Task |-> "UNINTERRUPTIBLE"]
  /\ sigpending = [t \in Task |-> FALSE]
  /\ pc = [t \in Task |-> "out"]

-----------------------------------------------------------------------------
(* mutex_lock(), mutex_lock_interruptible() *)

\* __mutex_fastpath_lock() and its _retval twin.  The strex of the v6 fast
\* path may fail, which stores nothing.
fastpath_lock(t) ==
  \/ /\ fastpath = "xchg"
     /\ count' = 0
     /\ Goto(t, IF count = 1 THEN "cs" ELSE "slow")
  \/ /\ fastpath \in {"dec", "dec_cmpxchg", "v6"}
     /\ count' = count - 1
     /\ Goto(t, IF count' < 0 THEN "slow" ELSE "cs")
  \/ /\ fastpath \in {"v6", "null"}
     /\ Goto(t, "slow")
     /\ UNCHANGED count

\* Mutation: TASK_RUNNING is passed as the state to sleep in.
MutexLockRunning(t) ==
  /\ pc[t] = "out"
  /\ fastpath_lock(t)
  /\ mode' = [mode EXCEPT ![t] = "RUNNING"]
  /\ UNCHANGED <<fastpath, wait_list, wait_lock, state, sigpending>>

mutex_lock(t) ==
  /\ pc[t] = "out"
  /\ fastpath_lock(t)
  /\ \E m \in Mode : mode' = [mode EXCEPT ![t] = m]
  /\ UNCHANGED <<fastpath, wait_list, wait_lock, state, sigpending>>

\* Mutation: old_val >= 0 counts as unlocked.
TryAgainAnyOld(t) ==
  /\ count' = -1
  /\ Goto(t, IF count >= 0 THEN "got" ELSE "check")

\* Take wait_lock, queue, and try: old_val = atomic_xchg(&lock->count, -1).
TryAgain(t) ==
  /\ count' = -1
  /\ Goto(t, IF count = 1 THEN "got" ELSE "check")

LockSlowpath(t) ==
  /\ pc[t] = "slow"
  /\ Lock(t)
  /\ wait_list' = Append(wait_list, t)
  /\ TryAgain(t)
  /\ UNCHANGED <<fastpath, state, mode, sigpending>>

\* Mutations: -EINTR leaves the waiter queued; signals are not looked at.
CheckSignalQueued(t) ==
  /\ pc[t] = "check"
  /\ IF mode[t] = "INTERRUPTIBLE" /\ sigpending[t]
       THEN Unlock /\ Goto(t, "out")
       ELSE Goto(t, "park") /\ UNCHANGED wait_lock
  /\ UNCHANGED <<fastpath, count, wait_list, state, mode, sigpending>>
CheckSignalNever(t) ==
  /\ pc[t] = "check"
  /\ Goto(t, "park")
  /\ UNCHANGED <<fastpath, count, wait_list, wait_lock, state, mode, sigpending>>

\* Got a signal: leave the queue and return -EINTR; count stays at -1.
CheckSignal(t) ==
  /\ pc[t] = "check"
  /\ IF mode[t] = "INTERRUPTIBLE" /\ sigpending[t]
       THEN remove_waiter(t) /\ Unlock /\ Goto(t, "out")
       ELSE Goto(t, "park") /\ UNCHANGED <<wait_list, wait_lock>>
  /\ UNCHANGED <<fastpath, count, state, mode, sigpending>>

\* __set_task_state(), drop wait_lock, go to schedule().
Park(t) ==
  /\ pc[t] = "park"
  /\ state' = [state EXCEPT ![t] = mode[t]]
  /\ Unlock
  /\ Goto(t, "sched")
  /\ UNCHANGED <<fastpath, count, wait_list, mode, sigpending>>

Runnable(t) == state[t] = "RUNNING" \/ (state[t] = "INTERRUPTIBLE" /\ sigpending[t])

\* schedule() does not sleep on a pending signal; take wait_lock and retry.
Schedule(t) ==
  /\ pc[t] = "sched" /\ Runnable(t)
  /\ state' = [state EXCEPT ![t] = "RUNNING"]
  /\ Lock(t)
  /\ TryAgain(t)
  /\ UNCHANGED <<fastpath, wait_list, mode, sigpending>>

\* Mutation: count is set to 0 with waiters left.
GotLockAlwaysZero(t) ==
  /\ pc[t] = "got"
  /\ remove_waiter(t)
  /\ count' = 0
  /\ Unlock
  /\ Goto(t, "cs")
  /\ UNCHANGED <<fastpath, state, mode, sigpending>>

\* Leave the queue; if nobody is left in it, count goes from -1 to 0.
GotLock(t) ==
  /\ pc[t] = "got"
  /\ remove_waiter(t)
  /\ count' = IF wait_list' = <<>> THEN 0 ELSE count
  /\ Unlock
  /\ Goto(t, "cs")
  /\ UNCHANGED <<fastpath, state, mode, sigpending>>

-----------------------------------------------------------------------------
(* mutex_unlock() *)

mutex_unlock(t) ==
  /\ pc[t] = "cs"
  /\ \/ /\ fastpath = "xchg"
        /\ count' = 1
        /\ Goto(t, IF count = 0 THEN "out" ELSE "uslow")
     \/ /\ fastpath \in {"dec", "dec_cmpxchg", "v6"}
        /\ count' = count + 1
        /\ Goto(t, IF count' <= 0 THEN "uslow" ELSE "out")
     \/ /\ fastpath \in {"v6", "null"}
        /\ Goto(t, "uslow")
        /\ UNCHANGED count
  /\ UNCHANGED <<fastpath, wait_list, wait_lock, state, mode, sigpending>>

\* __mutex_unlock_common_slowpath(): unlock, then wake the first waiter.
UnlockSlowpath(t) ==
  /\ pc[t] = "uslow"
  /\ Lock(t)
  /\ count' = IF __mutex_slowpath_needs_to_unlock THEN 1 ELSE count
  /\ Goto(t, "uwake")
  /\ UNCHANGED <<fastpath, wait_list, state, mode, sigpending>>

\* Mutation: only a queue of two or more is woken.
WakeFirstOfMany(t) ==
  /\ pc[t] = "uwake"
  /\ state' = IF Len(wait_list) > 1
                THEN [state EXCEPT ![Head(wait_list)] = "RUNNING"]
                ELSE state
  /\ Unlock
  /\ Goto(t, "out")
  /\ UNCHANGED <<fastpath, count, wait_list, mode, sigpending>>

WakeFirst(t) ==
  /\ pc[t] = "uwake"
  /\ state' = IF wait_list # <<>>
                THEN [state EXCEPT ![Head(wait_list)] = "RUNNING"]
                ELSE state
  /\ Unlock
  /\ Goto(t, "out")
  /\ UNCHANGED <<fastpath, count, wait_list, mode, sigpending>>

-----------------------------------------------------------------------------
(* mutex_trylock() *)

\* __mutex_fastpath_trylock().
mutex_trylock(t) ==
  /\ pc[t] = "out"
  /\ \/ /\ fastpath = "xchg"
        /\ count' = 0
        /\ Goto(t, IF count < 0 THEN "restore" ELSE IF count = 1 THEN "cs" ELSE "out")
     \/ /\ fastpath \in {"dec_cmpxchg", "v6"}
        /\ count' = IF count = 1 THEN 0 ELSE count
        /\ Goto(t, IF count = 1 THEN "cs" ELSE "out")
     \/ /\ fastpath \in {"dec", "null"}
        /\ Goto(t, "try")
        /\ UNCHANGED count
  /\ UNCHANGED <<fastpath, wait_list, wait_lock, state, mode, sigpending>>

\* Mutation: the second xchg's result is ignored.
RestoreBlindly(t) ==
  /\ pc[t] = "restore"
  /\ count' = -1
  /\ Goto(t, "out")
  /\ UNCHANGED <<fastpath, wait_list, wait_lock, state, mode, sigpending>>

\* prev = atomic_xchg(count, prev): restore the contended mark, or own it.
Restore(t) ==
  /\ pc[t] = "restore"
  /\ count' = -1
  /\ Goto(t, IF count = 1 THEN "cs" ELSE "out")
  /\ UNCHANGED <<fastpath, wait_list, wait_lock, state, mode, sigpending>>

\* __mutex_trylock_slowpath().
TrySlowpath(t) ==
  /\ pc[t] = "try"
  /\ Lock(t)
  /\ count' = -1
  /\ Goto(t, IF count = 1 THEN "trygot" ELSE "tryset")
  /\ UNCHANGED <<fastpath, wait_list, state, mode, sigpending>>

TrySet(t) ==
  /\ pc[t] \in {"trygot", "tryset"}
  /\ count' = IF wait_list = <<>> THEN 0 ELSE count
  /\ Unlock
  /\ Goto(t, IF pc[t] = "trygot" THEN "cs" ELSE "out")
  /\ UNCHANGED <<fastpath, wait_list, state, mode, sigpending>>

-----------------------------------------------------------------------------
(* The rest of the kernel *)

\* Another task sends a signal: signal_wake_up() makes an interruptible
\* sleeper runnable.
Signal(t) ==
  /\ ~sigpending[t]
  /\ sigpending' = [sigpending EXCEPT ![t] = TRUE]
  /\ state' = IF state[t] = "INTERRUPTIBLE"
                THEN [state EXCEPT ![t] = "RUNNING"] ELSE state
  /\ UNCHANGED <<fastpath, count, wait_list, wait_lock, mode, pc>>

\* The task takes its signals on the way back to user mode.
TakeSignals(t) ==
  /\ pc[t] = "out" /\ sigpending[t]
  /\ sigpending' = [sigpending EXCEPT ![t] = FALSE]
  /\ UNCHANGED <<fastpath, count, wait_list, wait_lock, state, mode, pc>>

\* A late wake_up_process() that belongs to an earlier wait of the task.
StrayWakeup(t) ==
  /\ pc[t] = "sched" /\ state[t] # "RUNNING"
  /\ state' = [state EXCEPT ![t] = "RUNNING"]
  /\ UNCHANGED <<fastpath, count, wait_list, wait_lock, mode, sigpending, pc>>

-----------------------------------------------------------------------------
\* The steps of a task that is inside a call.
Step(t) ==
  \/ LockSlowpath(t) \/ CheckSignal(t) \/ Park(t) \/ Schedule(t) \/ GotLock(t)
  \/ UnlockSlowpath(t) \/ WakeFirst(t)
  \/ Restore(t) \/ TrySlowpath(t) \/ TrySet(t)

Next ==
  \E t \in Task :
    \/ mutex_lock(t) \/ mutex_trylock(t) \/ mutex_unlock(t)
    \/ Step(t)
    \/ Signal(t) \/ TakeSignals(t) \/ StrayWakeup(t)

Spec == Init /\ [][Next]_vars

\* Tasks inside a call keep running and owners unlock.  Strong fairness,
\* because wait_lock is a spinlock that others may take in between.
Fairness == \A t \in Task : SF_vars(Step(t)) /\ WF_vars(mutex_unlock(t))

FairSpec == Spec /\ Fairness

-----------------------------------------------------------------------------
(* Properties *)

\* Where t owns the mutex: in its critical section, on the way into it, or
\* on the way out while count has not been set to 1 yet.
Owner(t) ==
  \/ pc[t] \in {"cs", "got", "trygot"}
  \/ pc[t] = "uslow" /\ __mutex_slowpath_needs_to_unlock

TypeOK ==
  /\ fastpath \in Fastpaths
  /\ count \in Int
  /\ wait_list \in Seq(Task)
  /\ wait_lock \in Task \cup {NoTask}
  /\ state \in [Task -> Mode \cup {"RUNNING"}]
  /\ mode \in [Task -> Mode]
  /\ sigpending \in [Task -> BOOLEAN]
  /\ pc \in [Task -> PC]

\* At most one task is between a successful lock operation and the unlock,
\* with fast paths, slow paths and trylocks racing on count.
MutualExclusion == \A t, u \in Task : Owner(t) /\ Owner(u) => t = u

\* mutex_is_locked() tells the truth: count is 1 exactly when nobody owns
\* the mutex, whatever overwrites of count the fast and slow paths do.
IsLockedExact == count = 1 <=> \A t \in Task : ~Owner(t)

\* Somebody who will look after the waiters without further help: about to
\* mark the mutex contended or to take it, or to wake the first waiter, or
\* already awake.
Rescuer(t) ==
  \/ pc[t] \in {"slow", "restore", "uslow", "uwake"}
  \/ pc[t] = "sched" /\ state[t] = "RUNNING"

\* No lost wake-up: if somebody waits, either count is negative, so that the
\* owner's unlock is forced into the slow path, or a rescuer is on its way.
NoLostWakeup ==
  wait_list # <<>> => count < 0 \/ \E t \in Task : Rescuer(t)

\* The queue holds exactly the tasks inside __mutex_lock_common(): nobody
\* returns, with the lock or with -EINTR, and leaves its waiter behind.
QueueExact ==
  \A t \in Task : pc[t] \in Waiting <=> \E i \in DOMAIN wait_list : wait_list[i] = t

-----------------------------------------------------------------------------
(* The inductive invariant behind the safety properties (MutexProofs).      *)

\* Exactly the holder of wait_lock is inside one of its critical sections.
LockInv == \A t \in Task : pc[t] \in Locked <=> wait_lock = t

\* Each waiter is queued once.
QueueInv ==
  /\ QueueExact
  /\ \A i, j \in 1..Len(wait_list) : wait_list[i] = wait_list[j] => i = j

\* count never exceeds 1, so an unlock by increment cannot miss 1.
OwnInv == MutualExclusion /\ IsLockedExact /\ count <= 1

\* While __mutex_trylock_slowpath() may still store 0, nobody can complete an
\* unlock: the owner's fast path fails and its slow path needs wait_lock.
TryInv ==
  /\ \A t \in Task : pc[t] = "restore" => fastpath = "xchg"
  /\ \A t \in Task :
       pc[t] \in {"try", "tryset", "trygot"} => fastpath \in {"dec", "null"}
  /\ \A t \in Task :
       pc[t] = "tryset" => count < 1 /\ \A u \in Task : pc[u] = "cs" => count < 0

IInv == TypeOK /\ LockInv /\ QueueInv /\ OwnInv /\ TryInv /\ NoLostWakeup

-----------------------------------------------------------------------------
(* Liveness, under FairSpec *)

\* A free mutex with waiters does not stay free.
Progress ==
  (wait_list # <<>> /\ count = 1) ~> (count # 1 \/ wait_list = <<>>)

\* mutex_lock_interruptible(): "If a signal arrives while waiting for the
\* lock then this function returns" (with -EINTR, or with the lock).
SignalEndsWait ==
  \A t \in Task :
    (pc[t] = "sched" /\ mode[t] = "INTERRUPTIBLE" /\ sigpending[t])
      ~> pc[t] \notin Waiting
=============================================================================
