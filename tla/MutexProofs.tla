---------------------------- MODULE MutexProofs ----------------------------
(***************************************************************************)
(* Proofs about kernel/mutex.c for any set of tasks and every fast path:   *)
(* the inductive invariant IInv of module Mutex and the safety properties  *)
(* it implies.                                                             *)
(***************************************************************************)
EXTENDS Mutex, SequenceTheorems, TLAPS

\* What list_del() at position k leaves of a queue.
LEMMA RemoveAtProperties ==
  ASSUME NEW s \in Seq(Task), NEW k \in 1..Len(s)
  PROVE  /\ RemoveAt(s, k) \in Seq(Task)
         /\ Len(RemoveAt(s, k)) = Len(s) - 1
         /\ \A j \in 1..Len(s) - 1 :
              RemoveAt(s, k)[j] = IF j < k THEN s[j] ELSE s[j + 1]
<1>n. PICK n \in Nat : n = Len(s)
  OBVIOUS
<1>k. k \in 1..n
  BY <1>n
<1>1. PICK a : a = SubSeq(s, 1, k - 1)
  OBVIOUS
<1>2. PICK b : b = SubSeq(s, k + 1, n)
  OBVIOUS
<1>3. \A i \in 1..n : s[i] \in Task
  BY <1>n
<1>4. a \in Seq(Task) /\ Len(a) = k - 1 /\ \A i \in 1..k - 1 : a[i] = s[i]
  <2>1. \A i \in 1..k - 1 : s[i] \in Task
    BY <1>3, <1>k
  <2>2. /\ SubSeq(s, 1, k - 1) \in Seq(Task)
        /\ Len(SubSeq(s, 1, k - 1)) = IF 1 <= k - 1 THEN k - 1 - 1 + 1 ELSE 0
        /\ \A i \in 1..k - 1 - 1 + 1 : SubSeq(s, 1, k - 1)[i] = s[1 + i - 1]
    <3>1. 1 \in Int /\ k - 1 \in Int
      BY <1>k
    <3> QED
      BY <2>1, <3>1, SubSeqProperties
  <2> QED
    BY <2>2, <1>1, <1>k
<1>5. b \in Seq(Task) /\ Len(b) = n - k /\ \A i \in 1..n - k : b[i] = s[k + i]
  <2>1. \A i \in k + 1..n : s[i] \in Task
    BY <1>3, <1>k
  <2>2. /\ SubSeq(s, k + 1, n) \in Seq(Task)
        /\ Len(SubSeq(s, k + 1, n)) = IF k + 1 <= n THEN n - (k + 1) + 1 ELSE 0
        /\ \A i \in 1..n - (k + 1) + 1 : SubSeq(s, k + 1, n)[i] = s[(k + 1) + i - 1]
    <3>1. k + 1 \in Int /\ n \in Int
      BY <1>k
    <3> QED
      BY <2>1, <3>1, SubSeqProperties
  <2>3. \A i \in 1..n - k : (k + 1) + i - 1 = k + i
    BY <1>k
  <2> QED
    BY <2>2, <2>3, <1>2, <1>k
<1>6. PICK r : r = a \o b
  OBVIOUS
<1>7. RemoveAt(s, k) = r
  BY <1>1, <1>2, <1>6, <1>n, Zenon DEF RemoveAt
<1>8. /\ r \in Seq(Task) /\ Len(r) = Len(a) + Len(b)
      /\ \A i \in 1..Len(a) + Len(b) :
           r[i] = IF i <= Len(a) THEN a[i] ELSE b[i - Len(a)]
  BY <1>4, <1>5, <1>6, ConcatProperties, Zenon
<1>9. Len(r) = n - 1
  BY <1>4, <1>5, <1>8, <1>k
<1>10. ASSUME NEW j \in 1..n - 1 PROVE r[j] = IF j < k THEN s[j] ELSE s[j + 1]
  <2>1. r[j] = IF j <= k - 1 THEN a[j] ELSE b[j - (k - 1)]
    BY <1>4, <1>5, <1>8, <1>k
  <2>2. CASE j < k
    BY <2>1, <2>2, <1>4, <1>k
  <2>3. CASE ~(j < k)
    <3>1. j - (k - 1) \in 1..n - k /\ k + (j - (k - 1)) = j + 1
      BY <2>3, <1>k
    <3> QED
      BY <2>1, <2>3, <3>1, <1>5, <1>k
  <2> QED
    BY <2>2, <2>3
<1> QED
  BY <1>7, <1>8, <1>9, <1>10, <1>n

\* Each task is queued at most once; u is queued.
Distinct(s) == \A i, j \in 1..Len(s) : s[i] = s[j] => i = j
Member(s, u) == \E i \in 1..Len(s) : s[i] = u

\* Removing t's waiter takes t, and only t, out of a queue without duplicates.
LEMMA Removed ==
  ASSUME NEW s \in Seq(Task), NEW t \in Task, Distinct(s),
         NEW k \in 1..Len(s), s[k] = t, NEW r, r = RemoveAt(s, k)
  PROVE  /\ r \in Seq(Task) /\ Distinct(r)
         /\ \A u \in Task : Member(r, u) <=> u # t /\ Member(s, u)
<1>1. PICK n \in Nat : n = Len(s)
  OBVIOUS
<1>2. k \in 1..n
  BY <1>1
<1>4. /\ r \in Seq(Task) /\ Len(r) = n - 1
      /\ \A j \in 1..n - 1 : r[j] = IF j < k THEN s[j] ELSE s[j + 1]
  BY <1>1, RemoveAtProperties
<1>5. ASSUME NEW i \in 1..n - 1, NEW j \in 1..n - 1, r[i] = r[j] PROVE i = j
  <2>1. PICK x \in 1..n : r[i] = s[x] /\ x = IF i < k THEN i ELSE i + 1
    BY <1>2, <1>4
  <2>2. PICK y \in 1..n : r[j] = s[y] /\ y = IF j < k THEN j ELSE j + 1
    BY <1>2, <1>4
  <2>3. x = y
    BY <2>1, <2>2, <1>1, <1>5 DEF Distinct
  <2> QED
    BY <1>2, <2>1, <2>2, <2>3
<1>6. ASSUME NEW u \in Task, NEW i \in 1..n - 1, r[i] = u
      PROVE u # t /\ \E j \in 1..n : s[j] = u
  <2>1. CASE i < k
    BY <2>1, <1>1, <1>2, <1>4, <1>6 DEF Distinct
  <2>2. CASE ~(i < k)
    BY <2>2, <1>1, <1>2, <1>4, <1>6 DEF Distinct
  <2> QED
    BY <2>1, <2>2
<1>7. ASSUME NEW u \in Task, u # t, NEW i \in 1..n, s[i] = u
      PROVE \E j \in 1..n - 1 : r[j] = u
  <2>1. CASE i < k
    BY <2>1, <1>2, <1>4, <1>7
  <2>2. CASE i > k
    <3>1. i - 1 \in 1..n - 1 /\ ~(i - 1 < k) /\ (i - 1) + 1 = i
      BY <2>2, <1>2
    <3>2. r[i - 1] = u
      BY <3>1, <1>4, <1>7
    <3> QED
      BY <3>1, <3>2
  <2>3. i # k
    BY <1>2, <1>7
  <2> QED
    BY <2>1, <2>2, <2>3
<1>8. \A u \in Task : (\E i \in 1..n - 1 : r[i] = u)
                       <=> u # t /\ \E i \in 1..n : s[i] = u
  BY <1>6, <1>7
<1>9. Distinct(r)
  BY <1>4, <1>5 DEF Distinct
<1>10. \A u \in Task : Member(r, u) <=> u # t /\ Member(s, u)
  BY <1>1, <1>4, <1>8 DEF Member
<1> QED
  BY <1>4, <1>9, <1>10

-----------------------------------------------------------------------------
USE TaskAssumption, FastpathAssumption

\* The initial state satisfies the inductive invariant.
LEMMA InitInv == Init => IInv
<1> SUFFICES ASSUME Init PROVE IInv
  OBVIOUS
<1> USE DEF Init
<1>1. TypeOK
  BY DEF TypeOK, Mode, PC
<1>2. LockInv /\ OwnInv /\ TryInv /\ NoLostWakeup
  BY DEF LockInv, OwnInv, MutualExclusion, IsLockedExact, Owner, TryInv,
         NoLostWakeup, Locked
<1>3. QueueInv
  BY DEF QueueInv, QueueExact, Waiting
<1> QED
  BY <1>1, <1>2, <1>3 DEF IInv

\* Every step of the mutex code keeps the types and the queue.
LEMMA QueueStep ==
  TypeOK /\ QueueInv /\ [Next]_vars => TypeOK' /\ QueueInv'
<1> SUFFICES ASSUME TypeOK, QueueInv, [Next]_vars PROVE TypeOK' /\ QueueInv'
  OBVIOUS
<1> USE DEF TypeOK, Mode, PC, Waiting, Locked, Goto, QueueInv, QueueExact
<1>1. ASSUME NEW t \in Task, mutex_lock(t) PROVE TypeOK' /\ QueueInv'
  BY <1>1 DEF mutex_lock, fastpath_lock
<1>2. ASSUME NEW t \in Task, mutex_trylock(t) PROVE TypeOK' /\ QueueInv'
  BY <1>2 DEF mutex_trylock
<1>3. ASSUME NEW t \in Task, mutex_unlock(t) PROVE TypeOK' /\ QueueInv'
  BY <1>3 DEF mutex_unlock
<1>4. ASSUME NEW t \in Task, LockSlowpath(t) PROVE TypeOK' /\ QueueInv'
  <2>1. TypeOK'
    BY <1>4 DEF LockSlowpath, TryAgain, Lock
  <2>2. /\ Len(wait_list) \in Nat /\ Len(wait_list') = Len(wait_list) + 1
        /\ wait_list'[Len(wait_list) + 1] = t
        /\ \A i \in 1..Len(wait_list) : wait_list'[i] = wait_list[i]
        /\ DOMAIN wait_list = 1..Len(wait_list)
        /\ DOMAIN wait_list' = 1..Len(wait_list')
    BY <1>4 DEF LockSlowpath
  <2>3. /\ pc[t] = "slow"
        /\ pc' = [pc EXCEPT ![t] = "got"] \/ pc' = [pc EXCEPT ![t] = "check"]
    BY <1>4 DEF LockSlowpath, TryAgain
  <2>4. ~\E i \in 1..Len(wait_list) : wait_list[i] = t
    BY <2>2, <2>3
  <2>5. \A i, j \in 1..Len(wait_list') : wait_list'[i] = wait_list'[j] => i = j
    BY <2>2, <2>4
  <2>6. ASSUME NEW u \in Task
        PROVE pc'[u] \in Waiting <=> \E i \in 1..Len(wait_list') : wait_list'[i] = u
    <3>1. CASE u = t
      BY <3>1, <2>2, <2>3
    <3>2. CASE u # t
      <4>1. pc'[u] = pc[u]
        BY <3>2, <2>3
      <4>2. (\E i \in 1..Len(wait_list') : wait_list'[i] = u)
              <=> \E i \in 1..Len(wait_list) : wait_list[i] = u
        BY <3>2, <2>2
      <4> QED
        BY <4>1, <4>2, <2>2
    <3> QED
      BY <3>1, <3>2
  <2> QED
    BY <2>1, <2>2, <2>5, <2>6
<1>5. ASSUME NEW t \in Task, pc[t] \in Waiting, remove_waiter(t),
             Goto(t, "cs") \/ Goto(t, "out"),
             count' \in Int, wait_lock' = NoTask,
             UNCHANGED <<fastpath, state, mode, sigpending>>
      PROVE TypeOK' /\ QueueInv'
  <2>1. \E i \in 1..Len(wait_list) : wait_list[i] = t
    BY <1>5
  <2>2. /\ wait_list' \in Seq(Task)
        /\ \A i, j \in 1..Len(wait_list') : wait_list'[i] = wait_list'[j] => i = j
        /\ \A u \in Task : (\E i \in 1..Len(wait_list') : wait_list'[i] = u)
                             <=> u # t /\ \E i \in 1..Len(wait_list) : wait_list[i] = u
    <3>1. PICK k \in 1..Len(wait_list) :
            k = (CHOOSE i \in DOMAIN wait_list : wait_list[i] = t) /\ wait_list[k] = t
      BY <2>1
    <3>2. wait_list' = RemoveAt(wait_list, k)
      BY <3>1, <1>5 DEF remove_waiter
    <3>3. wait_list \in Seq(Task) /\ Distinct(wait_list)
      BY DEF Distinct
    <3>4. /\ wait_list' \in Seq(Task) /\ Distinct(wait_list')
          /\ \A u \in Task : Member(wait_list', u) <=> u # t /\ Member(wait_list, u)
      BY <3>1, <3>2, <3>3, Removed
    <3> QED
      BY <3>4 DEF Distinct, Member
  <2>3. DOMAIN wait_list = 1..Len(wait_list) /\ DOMAIN wait_list' = 1..Len(wait_list')
    BY <2>2
  <2>4. TypeOK'
    BY <2>2, <1>5
  <2>5. \A u \in Task : pc'[u] \in Waiting <=> u # t /\ pc[u] \in Waiting
    BY <1>5
  <2>6. QueueExact'
    BY <2>2, <2>3, <2>5
  <2> QED
    BY <2>2, <2>4, <2>6
<1>6. ASSUME NEW t \in Task, CheckSignal(t) PROVE TypeOK' /\ QueueInv'
  <2>1. CASE remove_waiter(t) /\ Unlock /\ Goto(t, "out")
    BY <2>1, <1>5, <1>6 DEF CheckSignal, Unlock
  <2>2. CASE Goto(t, "park") /\ UNCHANGED <<wait_list, wait_lock>>
    BY <2>2, <1>6 DEF CheckSignal
  <2> QED
    BY <2>1, <2>2, <1>6 DEF CheckSignal
<1>7. ASSUME NEW t \in Task, GotLock(t) PROVE TypeOK' /\ QueueInv'
  <2>1. /\ pc[t] \in Waiting /\ remove_waiter(t) /\ Goto(t, "cs")
        /\ count' \in Int /\ wait_lock' = NoTask
        /\ UNCHANGED <<fastpath, state, mode, sigpending>>
    BY <1>7 DEF GotLock, Unlock
  <2> QED
    BY <2>1, <1>5
<1>8. ASSUME NEW t \in Task, Park(t) \/ Schedule(t) PROVE TypeOK' /\ QueueInv'
  <2>1. TypeOK' /\ wait_list' = wait_list
    BY <1>8 DEF Park, Schedule, TryAgain, Lock, Unlock
  <2>2. \A u \in Task : pc'[u] \in Waiting <=> pc[u] \in Waiting
    BY <1>8 DEF Park, Schedule, TryAgain
  <2> QED
    BY <2>1, <2>2
<1>9. ASSUME NEW t \in Task, UnlockSlowpath(t) \/ WakeFirst(t)
      PROVE TypeOK' /\ QueueInv'
  <2>1. wait_list # <<>> => Head(wait_list) \in Task
    OBVIOUS
  <2> QED
    BY <2>1, <1>9 DEF UnlockSlowpath, WakeFirst, Lock, Unlock
<1>10. ASSUME NEW t \in Task, Restore(t) \/ TrySlowpath(t) \/ TrySet(t)
       PROVE TypeOK' /\ QueueInv'
  BY <1>10 DEF Restore, TrySlowpath, TrySet, Lock, Unlock
<1>11. ASSUME NEW t \in Task, Signal(t) \/ TakeSignals(t) \/ StrayWakeup(t)
       PROVE TypeOK' /\ QueueInv'
  <2>1. /\ UNCHANGED <<fastpath, count, wait_list, wait_lock, mode, pc>>
        /\ state' \in [Task -> Mode \cup {"RUNNING"}]
    BY <1>11 DEF Signal, TakeSignals, StrayWakeup
  <2>2. sigpending' \in [Task -> BOOLEAN]
    <3>1. \E b \in BOOLEAN : sigpending' = [sigpending EXCEPT ![t] = b]
                             \/ sigpending' = sigpending
      BY <1>11 DEF Signal, TakeSignals, StrayWakeup
    <3> QED
      BY <3>1
  <2> QED
    BY <2>1, <2>2
<1>12. CASE UNCHANGED vars
  BY <1>12 DEF vars
<1> QED
  BY <1>1, <1>2, <1>3, <1>4, <1>6, <1>7, <1>8, <1>9, <1>10, <1>11, <1>12
  DEF Next, Step

\* wait_lock is held exactly by the task inside its critical section.
LEMMA LockStep == TypeOK /\ LockInv /\ [Next]_vars => LockInv'
<1> SUFFICES ASSUME TypeOK, LockInv, [Next]_vars PROVE LockInv'
  OBVIOUS
<1> USE DEF TypeOK, PC, Waiting, Locked, Goto, LockInv, Lock, Unlock
<1>1. ASSUME NEW t \in Task, mutex_lock(t) PROVE LockInv'
  BY <1>1 DEF mutex_lock, fastpath_lock
<1>2. ASSUME NEW t \in Task, mutex_trylock(t) PROVE LockInv'
  BY <1>2 DEF mutex_trylock
<1>3. ASSUME NEW t \in Task, mutex_unlock(t) PROVE LockInv'
  BY <1>3 DEF mutex_unlock
<1>4. ASSUME NEW t \in Task, LockSlowpath(t) \/ Schedule(t) PROVE LockInv'
  BY <1>4 DEF LockSlowpath, Schedule, TryAgain
<1>5. ASSUME NEW t \in Task, CheckSignal(t) \/ Park(t) \/ GotLock(t) PROVE LockInv'
  BY <1>5 DEF CheckSignal, Park, GotLock
<1>6. ASSUME NEW t \in Task, UnlockSlowpath(t) \/ WakeFirst(t) PROVE LockInv'
  BY <1>6 DEF UnlockSlowpath, WakeFirst
<1>7. ASSUME NEW t \in Task, Restore(t) \/ TrySlowpath(t) \/ TrySet(t)
      PROVE LockInv'
  BY <1>7 DEF Restore, TrySlowpath, TrySet
<1>8. ASSUME NEW t \in Task, Signal(t) \/ TakeSignals(t) \/ StrayWakeup(t)
      PROVE LockInv'
  BY <1>8 DEF Signal, TakeSignals, StrayWakeup
<1>9. CASE UNCHANGED vars
  BY <1>9 DEF vars
<1> QED
  BY <1>1, <1>2, <1>3, <1>4, <1>5, <1>6, <1>7, <1>8, <1>9 DEF Next, Step

\* count tells who owns the mutex across every step, and the spinlock-based
\* trylock never overwrites the 1 of an unlock.
LEMMA OwnStep ==
  TypeOK /\ LockInv /\ OwnInv /\ TryInv /\ [Next]_vars => OwnInv' /\ TryInv'
<1> SUFFICES ASSUME TypeOK, LockInv, OwnInv, TryInv, [Next]_vars
             PROVE OwnInv' /\ TryInv'
  OBVIOUS
<1> USE DEF TypeOK, PC, Waiting, Locked, Goto, LockInv, Lock, Unlock, OwnInv, TryInv,
            MutualExclusion, IsLockedExact, Owner, __mutex_slowpath_needs_to_unlock
<1>1. ASSUME NEW t \in Task, mutex_lock(t) PROVE OwnInv' /\ TryInv'
  BY <1>1 DEF mutex_lock, fastpath_lock
<1>2. ASSUME NEW t \in Task, mutex_trylock(t) PROVE OwnInv' /\ TryInv'
  BY <1>2 DEF mutex_trylock
<1>3. ASSUME NEW t \in Task, mutex_unlock(t) PROVE OwnInv' /\ TryInv'
  BY <1>3 DEF mutex_unlock
<1>4. ASSUME NEW t \in Task, LockSlowpath(t) \/ Schedule(t) PROVE OwnInv' /\ TryInv'
  BY <1>4 DEF LockSlowpath, Schedule, TryAgain
<1>5. ASSUME NEW t \in Task, CheckSignal(t) \/ Park(t) PROVE OwnInv' /\ TryInv'
  BY <1>5 DEF CheckSignal, Park
<1>6. ASSUME NEW t \in Task, GotLock(t) PROVE OwnInv' /\ TryInv'
  BY <1>6 DEF GotLock
<1>7. ASSUME NEW t \in Task, UnlockSlowpath(t) \/ WakeFirst(t)
      PROVE OwnInv' /\ TryInv'
  BY <1>7 DEF UnlockSlowpath, WakeFirst
<1>8. ASSUME NEW t \in Task, Restore(t) \/ TrySlowpath(t)
      PROVE OwnInv' /\ TryInv'
  BY <1>8 DEF Restore, TrySlowpath
<1>9. ASSUME NEW t \in Task, TrySet(t)
      PROVE OwnInv' /\ TryInv'
  BY <1>9 DEF TrySet
<1>10. ASSUME NEW t \in Task, Signal(t) \/ TakeSignals(t) \/ StrayWakeup(t)
       PROVE OwnInv' /\ TryInv'
  BY <1>10 DEF Signal, TakeSignals, StrayWakeup
<1>11. CASE UNCHANGED vars
  BY <1>11 DEF vars
<1> QED
  BY <1>1, <1>2, <1>3, <1>4, <1>5, <1>6, <1>7, <1>8, <1>9, <1>10, <1>11
  DEF Next, Step

\* Whenever a step lets count rise to 0 or 1 past sleeping waiters, somebody
\* is left who marks the mutex contended again or wakes the first waiter.
LEMMA WakeupStep ==
  IInv /\ [Next]_vars => NoLostWakeup'
<1> SUFFICES ASSUME IInv, [Next]_vars PROVE NoLostWakeup'
  OBVIOUS
<1>0. TypeOK /\ LockInv /\ QueueInv /\ OwnInv /\ NoLostWakeup
  BY DEF IInv
<1> USE DEF TypeOK, PC, Waiting, Locked, Goto, Lock, Unlock
<1>r. ASSUME NEW t \in Task, ~Rescuer(t), state' = state,
             \A u \in Task : u # t => pc'[u] = pc[u]
      PROVE (\E u \in Task : Rescuer(u)) => \E u \in Task : Rescuer(u)'
  BY <1>r DEF Rescuer
<1>1. ASSUME NEW t \in Task, mutex_lock(t) PROVE NoLostWakeup'
  <2>1. /\ ~Rescuer(t) /\ state' = state /\ wait_list' = wait_list
        /\ \A u \in Task : u # t => pc'[u] = pc[u]
    BY <1>0, <1>1 DEF mutex_lock, fastpath_lock, Rescuer
  <2>2. (count < 0 /\ count' < 0) \/ count >= 0 \/ Rescuer(t)'
    BY <1>0, <1>1 DEF mutex_lock, fastpath_lock, Rescuer
  <2> QED
    BY <2>1, <2>2, <1>0, <1>r DEF NoLostWakeup
<1>2. ASSUME NEW t \in Task, mutex_trylock(t) PROVE NoLostWakeup'
  <2>1. /\ ~Rescuer(t) /\ state' = state /\ wait_list' = wait_list
        /\ \A u \in Task : u # t => pc'[u] = pc[u]
    BY <1>0, <1>2 DEF mutex_trylock, Rescuer
  <2>2. (count < 0 /\ count' < 0) \/ count >= 0 \/ Rescuer(t)'
    BY <1>0, <1>2 DEF mutex_trylock, Rescuer
  <2> QED
    BY <2>1, <2>2, <1>0, <1>r DEF NoLostWakeup
<1>3. ASSUME NEW t \in Task, mutex_unlock(t) PROVE NoLostWakeup'
  <2>1. /\ ~Rescuer(t) /\ state' = state /\ wait_list' = wait_list
        /\ \A u \in Task : u # t => pc'[u] = pc[u]
    BY <1>0, <1>3 DEF mutex_unlock, Rescuer
  <2>2. count >= 0 \/ Rescuer(t)'
    BY <1>0, <1>3 DEF mutex_unlock, Rescuer
  <2> QED
    BY <2>1, <2>2, <1>0, <1>r DEF NoLostWakeup
<1>4. ASSUME NEW t \in Task,
             LockSlowpath(t) \/ Schedule(t) \/ Restore(t) \/ TrySlowpath(t)
      PROVE NoLostWakeup'
  BY <1>4 DEF LockSlowpath, Schedule, TryAgain, Restore, TrySlowpath, NoLostWakeup
<1>5. ASSUME NEW t \in Task, CheckSignal(t) PROVE NoLostWakeup'
  <2>1. /\ ~Rescuer(t) /\ state' = state /\ count' = count
        /\ \A u \in Task : u # t => pc'[u] = pc[u]
    BY <1>0, <1>5 DEF CheckSignal, Rescuer
  <2>2. wait_list # <<>>
    BY <1>0, <1>5 DEF CheckSignal, QueueInv, QueueExact
  <2> QED
    BY <2>1, <2>2, <1>0, <1>r DEF NoLostWakeup
<1>6. ASSUME NEW t \in Task, Park(t) PROVE NoLostWakeup'
  <2>1. ~Rescuer(t) /\ count' = count /\ wait_list' = wait_list
    BY <1>0, <1>6 DEF Park, Rescuer
  <2>2. \A u \in Task : u # t => (Rescuer(u) => Rescuer(u)')
    BY <1>0, <1>6 DEF Park, Rescuer
  <2> QED
    BY <2>1, <2>2, <1>0 DEF NoLostWakeup
<1>7. ASSUME NEW t \in Task, GotLock(t) PROVE NoLostWakeup'
  <2>1. /\ ~Rescuer(t) /\ state' = state
        /\ \A u \in Task : u # t => pc'[u] = pc[u]
    BY <1>0, <1>7 DEF GotLock, Rescuer
  <2>2. wait_list # <<>> /\ (wait_list' = <<>> \/ count' = count)
    BY <1>0, <1>7 DEF GotLock, QueueInv, QueueExact
  <2> QED
    BY <2>1, <2>2, <1>0, <1>r DEF NoLostWakeup
<1>8. ASSUME NEW t \in Task, UnlockSlowpath(t) PROVE NoLostWakeup'
  <2>1. Rescuer(t)'
    BY <1>0, <1>8 DEF UnlockSlowpath, Rescuer
  <2> QED
    BY <2>1 DEF NoLostWakeup
<1>9. ASSUME NEW t \in Task, WakeFirst(t) PROVE NoLostWakeup'
  <2>1. CASE wait_list = <<>>
    BY <2>1, <1>9 DEF WakeFirst, NoLostWakeup
  <2>2. CASE wait_list # <<>>
    <3>1. PICK h \in Task : h = Head(wait_list) /\ h = wait_list[1]
      BY <2>2, <1>0
    <3>2. 1 \in DOMAIN wait_list
      BY <2>2, <1>0
    <3>3. pc[h] \in Waiting
      BY <3>1, <3>2, <1>0 DEF QueueInv, QueueExact
    <3>4. wait_lock = t /\ pc[h] \notin {"check", "park", "got"} /\ h # t
      BY <3>3, <1>0, <1>9 DEF WakeFirst, LockInv
    <3>5. pc'[h] = "sched" /\ state'[h] = "RUNNING"
      BY <3>1, <3>3, <3>4, <2>2, <1>0, <1>9 DEF WakeFirst
    <3> QED
      BY <3>5 DEF NoLostWakeup, Rescuer
  <2> QED
    BY <2>1, <2>2
<1>10. ASSUME NEW t \in Task, TrySet(t) PROVE NoLostWakeup'
  <2>1. /\ ~Rescuer(t) /\ state' = state /\ wait_list' = wait_list
        /\ \A u \in Task : u # t => pc'[u] = pc[u]
    BY <1>0, <1>10 DEF TrySet, Rescuer
  <2>2. wait_list = <<>> \/ count' = count
    BY <1>10 DEF TrySet
  <2> QED
    BY <2>1, <2>2, <1>0, <1>r DEF NoLostWakeup
<1>11. ASSUME NEW t \in Task, Signal(t) \/ TakeSignals(t) \/ StrayWakeup(t)
       PROVE NoLostWakeup'
  <2>1. count' = count /\ wait_list' = wait_list
    BY <1>11 DEF Signal, TakeSignals, StrayWakeup
  <2>2. \A u \in Task : Rescuer(u) => Rescuer(u)'
    BY <1>0, <1>11 DEF Signal, TakeSignals, StrayWakeup, Rescuer
  <2> QED
    BY <2>1, <2>2, <1>0 DEF NoLostWakeup
<1>12. CASE UNCHANGED vars
  BY <1>12, <1>0 DEF vars, NoLostWakeup, Rescuer
<1> QED
  BY <1>1, <1>2, <1>3, <1>4, <1>5, <1>6, <1>7, <1>8, <1>9, <1>10, <1>11, <1>12
  DEF Next, Step

-----------------------------------------------------------------------------
\* IInv is an invariant of the mutex, for any tasks and any fast path.
THEOREM Invariance == Spec => []IInv
<1>1. IInv /\ [Next]_vars => IInv'
  BY QueueStep, LockStep, OwnStep, WakeupStep DEF IInv
<1> QED
  BY InitInv, <1>1, PTL DEF Spec

\* The state of the mutex and of its tasks keeps its types.
THEOREM TypeCorrect == Spec => []TypeOK
<1>1. IInv => TypeOK
  BY DEF IInv
<1> QED
  BY Invariance, <1>1, PTL

\* At most one task owns the mutex, whichever fast path is built in.
THEOREM Exclusion == Spec => []MutualExclusion
<1>1. IInv => MutualExclusion
  BY DEF IInv, OwnInv
<1> QED
  BY Invariance, <1>1, PTL

\* lock->count is 1 exactly when nobody owns the mutex.
THEOREM CountTellsOwnership == Spec => []IsLockedExact
<1>1. IInv => IsLockedExact
  BY DEF IInv, OwnInv
<1> QED
  BY Invariance, <1>1, PTL

\* Sleeping waiters are never forgotten by fast-path unlocks.
THEOREM WakeupNotLost == Spec => []NoLostWakeup
<1>1. IInv => NoLostWakeup
  BY DEF IInv
<1> QED
  BY Invariance, <1>1, PTL

\* The queue holds exactly the tasks inside __mutex_lock_common().
THEOREM QueueCorrect == Spec => []QueueExact
<1>1. IInv => QueueExact
  BY DEF IInv, QueueInv
<1> QED
  BY Invariance, <1>1, PTL
=============================================================================
