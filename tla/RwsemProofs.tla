---------------------------- MODULE RwsemProofs ----------------------------
(***************************************************************************)
(* Proofs about lib/rwsem-spinlock.c for any finite number of tasks: the   *)
(* inductive invariant IInv of module Rwsem and the safety properties it   *)
(* implies.                                                                *)
(***************************************************************************)
EXTENDS Rwsem, FiniteSetTheorems, TLAPS

USE TaskAssumption

\* The sets of owners are finite, so their cardinalities are numbers.
LEMMA ReadersFinite == IsFiniteSet(Readers) /\ Cardinality(Readers) \in Nat
  BY FS_Subset, FS_CardinalityType DEF Readers

\* Taking the first waiter off the queue (list_del): the head is a task and
\* the rest keeps its order.
LEMMA HeadTail ==
  ASSUME NEW s \in Seq(Task), s # <<>>
  PROVE  /\ Head(s) \in Task /\ Head(s) = s[1] /\ 1 \in 1..Len(s)
         /\ Tail(s) \in Seq(Task) /\ Len(Tail(s)) = Len(s) - 1
         /\ Len(s) \in Nat /\ Len(s) > 0
         /\ \A i \in 1..Len(s) - 1 : Tail(s)[i] = s[i + 1]
  OBVIOUS

\* The initial state satisfies the inductive invariant.
LEMMA InitInv == Init => IInv
<1> SUFFICES ASSUME Init PROVE IInv
  OBVIOUS
<1> USE DEF Init
<1>1. TypeOK
  BY DEF TypeOK, Mode, PC
<1>2. Readers = {} /\ Writers = {}
  BY DEF Readers, Writers, Owns, Holding, WaitLoop, WakePath
<1>3. PathInv /\ QueueInv /\ StageInv /\ HeadInv /\ NoLostWakeup
  BY DEF PathInv, QueueInv, StageInv, HeadInv, NoLostWakeup, WakePath, First
<1>4. CountInv
  BY <1>2, FS_EmptySet DEF CountInv
<1> QED
  BY <1>1, <1>3, <1>4 DEF IInv

\* Every step of the semaphore code keeps the types.
LEMMA TypeStep == TypeOK /\ PathInv /\ StageInv /\ [Next]_vars => TypeOK'
<1> SUFFICES ASSUME TypeOK, PathInv, StageInv, [Next]_vars PROVE TypeOK'
  OBVIOUS
<1> USE DEF TypeOK, Mode, PC, WaitLoop, WakePath, waker, Holding
<1>1. ASSUME NEW t \in Task, NEW m \in Mode, TakeNow(t, m) PROVE TypeOK'
  BY <1>1 DEF TakeNow
<1>2. ASSUME NEW t \in Task, NEW m \in Mode, Enqueue(t, m) PROVE TypeOK'
  BY <1>2 DEF Enqueue
<1>3. ASSUME NEW t \in Task, Wait(t) PROVE TypeOK'
  BY <1>3 DEF Wait, WaitCheck, Schedule, SetState
<1>4. ASSUME NEW t \in Task, up_read(t) \/ up_write(t) \/ downgrade_write(t)
      PROVE TypeOK'
  BY <1>4 DEF up_read, up_write, downgrade_write, EnterWake, Unlock
<1>5. ASSUME NEW t \in Task, WakeOneWriter(t) \/ WakeWriter(t) \/ WakeReader(t)
      PROVE TypeOK'
  <2>1. wait_list # <<>>
    BY <1>5 DEF WakeOneWriter, WakeWriter, WakeReader, First, StageInv
  <2>2. Head(wait_list) \in Task /\ Tail(wait_list) \in Seq(Task)
    BY <2>1, HeadTail
  <2>3. DetachFirst(t) /\ activity' \in Int /\ woken' \in Nat
    BY <1>5 DEF WakeOneWriter, WakeWriter, WakeReader
  <2>4. wait_list' \in Seq(Task) /\ tsk' \in Task
    BY <2>2, <2>3 DEF DetachFirst
  <2>5. waiting' \in [Task -> BOOLEAN] /\ pc' \in [Task -> PC]
    BY <2>3 DEF DetachFirst
  <2> QED
    BY <2>3, <2>4, <2>5 DEF DetachFirst
<1>6. ASSUME NEW t \in Task, WakeDone(t) \/ WakeUpProcess(t) PROVE TypeOK'
  BY <1>6 DEF WakeDone, WakeUpProcess, Unlock
<1>7. CASE UNCHANGED vars
  BY <1>7 DEF vars
<1> QED
  BY <1>1, <1>2, <1>3, <1>4, <1>5, <1>6, <1>7
  DEF Next, Acquire, down_read, down_write, down_read_trylock,
      down_write_trylock, Release, Wake

\* Only the task that took sem->wait_lock is on a wake-up path.
LEMMA PathStep == TypeOK /\ PathInv /\ [Next]_vars => PathInv'
<1> SUFFICES ASSUME TypeOK, PathInv, [Next]_vars PROVE PathInv'
  OBVIOUS
<1> USE DEF TypeOK, PathInv, WakePath, Holding
<1>1. ASSUME NEW t \in Task, NEW m \in Mode, TakeNow(t, m) \/ Enqueue(t, m)
      PROVE PathInv'
  BY <1>1 DEF TakeNow, Enqueue
<1>2. ASSUME NEW t \in Task, Wait(t) PROVE PathInv'
  BY <1>2 DEF Wait, WaitCheck, Schedule, SetState
<1>3. ASSUME NEW t \in Task, up_read(t) \/ up_write(t) \/ downgrade_write(t)
      PROVE PathInv'
  BY <1>3 DEF up_read, up_write, downgrade_write, EnterWake, Unlock
<1>4. ASSUME NEW t \in Task, WakeOneWriter(t) \/ WakeWriter(t) \/ WakeReader(t)
      PROVE PathInv'
  BY <1>4 DEF WakeOneWriter, WakeWriter, WakeReader, DetachFirst
<1>5. ASSUME NEW t \in Task, WakeDone(t) \/ WakeUpProcess(t) PROVE PathInv'
  BY <1>5 DEF WakeDone, WakeUpProcess, Unlock
<1>6. CASE UNCHANGED vars
  BY <1>6 DEF vars
<1> QED
  BY <1>1, <1>2, <1>3, <1>4, <1>5, <1>6
  DEF Next, Acquire, down_read, down_write, down_read_trylock,
      down_write_trylock, Release, Wake, Mode

\* The queue lists every waiting task once.
LEMMA QueueStep ==
  TypeOK /\ PathInv /\ StageInv /\ QueueInv /\ [Next]_vars => QueueInv'
<1> SUFFICES ASSUME TypeOK, PathInv, StageInv, QueueInv, [Next]_vars
             PROVE QueueInv'
  OBVIOUS
<1> USE DEF TypeOK, QueueInv, WaitLoop
<1>1. ASSUME NEW t \in Task, NEW m \in Mode, TakeNow(t, m) PROVE QueueInv'
  BY <1>1 DEF TakeNow
<1>2. ASSUME NEW t \in Task, NEW m \in Mode, Enqueue(t, m) PROVE QueueInv'
  <2>1. ~waiting[t] /\ Len(wait_list) \in Nat
    BY <1>2 DEF Enqueue
  <2>2. /\ Len(wait_list') = Len(wait_list) + 1
        /\ wait_list'[Len(wait_list) + 1] = t
        /\ \A i \in 1..Len(wait_list) : wait_list'[i] = wait_list[i]
    BY <1>2, <2>1 DEF Enqueue
  <2>3. /\ waiting' = [waiting EXCEPT ![t] = TRUE]
        /\ pc' = [pc EXCEPT ![t] = "check"]
    BY <1>2 DEF Enqueue
  <2>4. \A i, j \in 1..Len(wait_list') : wait_list'[i] = wait_list'[j] => i = j
    BY <2>1, <2>2
  <2>5. ASSUME NEW u \in Task
        PROVE waiting'[u] <=> \E i \in 1..Len(wait_list') : wait_list'[i] = u
    <3>1. CASE u = t
      BY <3>1, <2>1, <2>2, <2>3
    <3>2. CASE u # t
      BY <3>2, <2>1, <2>2, <2>3
    <3> QED
      BY <3>1, <3>2
  <2>6. \A u \in Task : waiting'[u] => pc'[u] \in WaitLoop
    BY <2>3
  <2> QED
    BY <2>4, <2>5, <2>6
<1>3. ASSUME NEW t \in Task, Wait(t) PROVE QueueInv'
  BY <1>3 DEF Wait, WaitCheck, Schedule, SetState, Holding
<1>4. ASSUME NEW t \in Task, up_read(t) \/ up_write(t) \/ downgrade_write(t)
      PROVE QueueInv'
  BY <1>4 DEF up_read, up_write, downgrade_write, EnterWake, Unlock
<1>5. ASSUME NEW t \in Task, WakeOneWriter(t) \/ WakeWriter(t) \/ WakeReader(t)
      PROVE QueueInv'
  <2>1. wait_list # <<>> /\ DetachFirst(t)
    BY <1>5 DEF WakeOneWriter, WakeWriter, WakeReader, First, StageInv
  <2> DEFINE h == Head(wait_list)
  <2>2. h \in Task /\ h = wait_list[1] /\ Len(wait_list) \in Nat /\ Len(wait_list) > 0
    BY <2>1, HeadTail
  <2>3. /\ Len(wait_list') = Len(wait_list) - 1
        /\ \A i \in 1..Len(wait_list) - 1 : wait_list'[i] = wait_list[i + 1]
    BY <2>1, HeadTail DEF DetachFirst
  <2>4. waiting' = [waiting EXCEPT ![h] = FALSE]
    BY <2>1 DEF DetachFirst
  <2>5. pc' = [pc EXCEPT ![t] = "wake"] /\ pc[t] \in {"wakeone", "dowake"}
    BY <1>5, <2>1 DEF DetachFirst, WakeOneWriter, WakeWriter, WakeReader
  <2> HIDE DEF h
  <2>6. ASSUME NEW u \in Task
        PROVE waiting'[u] <=> \E i \in 1..Len(wait_list') : wait_list'[i] = u
    <3>1. CASE u = h
      <4>1. ~waiting'[u]
        BY <3>1, <2>4, <2>2
      <4>2. ASSUME NEW i \in 1..Len(wait_list') PROVE wait_list'[i] # u
        <5>1. i + 1 \in 1..Len(wait_list) /\ 1 \in 1..Len(wait_list)
              /\ wait_list'[i] = wait_list[i + 1]
          BY <2>2, <2>3
        <5> QED
          BY <5>1, <3>1, <2>2
      <4> QED
        BY <4>1, <4>2
    <3>2. CASE u # h
      <4>1. waiting'[u] = waiting[u]
        BY <3>2, <2>4, <2>2
      <4>2. ASSUME NEW i \in 1..Len(wait_list), wait_list[i] = u
            PROVE \E j \in 1..Len(wait_list') : wait_list'[j] = u
        <5>1. i - 1 \in 1..Len(wait_list) - 1
          BY <4>2, <3>2, <2>2
        <5>2. wait_list'[i - 1] = wait_list[(i - 1) + 1] /\ (i - 1) + 1 = i
          BY <5>1, <2>3
        <5>3. wait_list'[i - 1] = u /\ i - 1 \in 1..Len(wait_list')
          BY <5>1, <5>2, <4>2, <2>3
        <5> QED
          BY <5>3
      <4>3. ASSUME NEW i \in 1..Len(wait_list'), wait_list'[i] = u
            PROVE \E j \in 1..Len(wait_list) : wait_list[j] = u
        BY <4>3, <2>2, <2>3
      <4> QED
        BY <4>1, <4>2, <4>3
    <3> QED
      BY <3>1, <3>2
  <2>7. \A i, j \in 1..Len(wait_list') : wait_list'[i] = wait_list'[j] => i = j
    BY <2>2, <2>3
  <2>8. \A u \in Task : waiting'[u] => pc'[u] \in WaitLoop
    BY <2>4, <2>5, <2>2
  <2> QED
    BY <2>6, <2>7, <2>8
<1>6. ASSUME NEW t \in Task, WakeDone(t) \/ WakeUpProcess(t) PROVE QueueInv'
  BY <1>6 DEF WakeDone, WakeUpProcess, Unlock
<1>7. CASE UNCHANGED vars
  BY <1>7 DEF vars
<1> QED
  BY <1>1, <1>2, <1>3, <1>4, <1>5, <1>6, <1>7
  DEF Next, Acquire, down_read, down_write, down_read_trylock,
      down_write_trylock, Release, Wake, Mode

\* How one step changes the sets of owners.  The lemmas are stated for any
\* action that leaves everything Owns reads alone, except at one task.
LEMMA OwnersAdd ==
  ASSUME TypeOK, NEW t \in Task, NEW m \in Mode,
         ~Owns(t, "READ"), ~Owns(t, "WRITE"),
         Owns(t, m)', \A n \in Mode : n # m => ~Owns(t, n)',
         \A u \in Task, n \in Mode : u # t => (Owns(u, n)' <=> Owns(u, n))
  PROVE  /\ Readers' = IF m = "READ" THEN Readers \cup {t} ELSE Readers
         /\ Writers' = IF m = "WRITE" THEN Writers \cup {t} ELSE Writers
         /\ t \notin Readers /\ t \notin Writers
  BY DEF Readers, Writers, Mode

LEMMA OwnersDrop ==
  ASSUME NEW t \in Task, \A n \in Mode : ~Owns(t, n)',
         \A u \in Task, n \in Mode : u # t => (Owns(u, n)' <=> Owns(u, n))
  PROVE  Readers' = Readers \ {t} /\ Writers' = Writers \ {t}
  BY DEF Readers, Writers, Mode

LEMMA OwnersSame ==
  ASSUME \A u \in Task, n \in Mode : Owns(u, n)' <=> Owns(u, n)
  PROVE  Readers' = Readers /\ Writers' = Writers
  BY DEF Readers, Writers, Mode

\* Who owns the semaphore after each step of the code.
LEMMA OwnsTake ==
  ASSUME TypeOK, NEW t \in Task, NEW m \in Mode, TakeNow(t, m)
  PROVE  /\ ~Owns(t, "READ") /\ ~Owns(t, "WRITE")
         /\ Owns(t, m)' /\ \A n \in Mode : n # m => ~Owns(t, n)'
         /\ \A u \in Task, n \in Mode : u # t => (Owns(u, n)' <=> Owns(u, n))
  BY DEF TypeOK, Mode, WaitLoop, WakePath, PC, Holding, TakeNow, Owns, waker

LEMMA OwnsStays ==
  ASSUME TypeOK, StageInv, NEW t \in Task,
         \/ \E m \in Mode : Enqueue(t, m)
         \/ Wait(t) \/ WakeDone(t) \/ WakeUpProcess(t)
  PROVE  \A u \in Task, n \in Mode : Owns(u, n)' <=> Owns(u, n)
<1> USE DEF TypeOK, Mode, WaitLoop, WakePath, PC, Holding, Owns
<1>1. CASE \E m \in Mode : Enqueue(t, m)
  BY <1>1 DEF Enqueue, waker
<1>2. CASE Wait(t)
  BY <1>2 DEF Wait, WaitCheck, Schedule, SetState, waker
<1>3. CASE WakeDone(t)
  BY <1>3 DEF WakeDone, Unlock
<1>4. CASE WakeUpProcess(t)
  BY <1>4 DEF WakeUpProcess, Unlock, StageInv
<1> QED
  BY <1>1, <1>2, <1>3, <1>4

LEMMA OwnsRelease ==
  ASSUME TypeOK, PathInv, NEW t \in Task, up_read(t) \/ up_write(t)
  PROVE  /\ Owns(t, IF pc[t] = "read" THEN "READ" ELSE "WRITE")
         /\ \A n \in Mode : ~Owns(t, n)'
         /\ \A u \in Task, n \in Mode : u # t => (Owns(u, n)' <=> Owns(u, n))
<1> USE DEF TypeOK, Mode, WaitLoop, WakePath, PC, Holding, Owns, EnterWake, Unlock, waker, PathInv
<1>1. CASE up_read(t)
  BY <1>1 DEF up_read
<1>2. CASE up_write(t)
  BY <1>2 DEF up_write
<1> QED
  BY <1>1, <1>2

LEMMA OwnsDowngrade ==
  ASSUME TypeOK, PathInv, NEW t \in Task, downgrade_write(t)
  PROVE  /\ Owns(t, "WRITE") /\ Owns(t, "READ")' /\ ~Owns(t, "WRITE")'
         /\ \A u \in Task, n \in Mode : u # t => (Owns(u, n)' <=> Owns(u, n))
  BY DEF TypeOK, Mode, WaitLoop, WakePath, PC, Holding, downgrade_write, Owns, EnterWake,
         Unlock, waker, PathInv

\* The first waiter becomes an owner when its waiter.task is NULLed, in the
\* mode it asked for, and nobody else does.
LEMMA OwnsDetach ==
  ASSUME TypeOK, QueueInv, StageInv, NEW t \in Task, NEW h \in Task, NEW m \in Mode,
         WakeOneWriter(t) \/ WakeWriter(t) \/ WakeReader(t),
         h = Head(wait_list), m = flags[h]
  PROVE  /\ wait_list # <<>> /\ DetachFirst(t)
         /\ ~Owns(h, "READ") /\ ~Owns(h, "WRITE")
         /\ Owns(h, m)' /\ \A n \in Mode : n # m => ~Owns(h, n)'
         /\ \A u \in Task, n \in Mode : u # h => (Owns(u, n)' <=> Owns(u, n))
<1> USE DEF TypeOK, Mode, WaitLoop, WakePath, PC, Holding
<1>1. wait_list # <<>> /\ DetachFirst(t)
  BY DEF WakeOneWriter, WakeWriter, WakeReader, First, StageInv
<1>2. waiting[h] /\ pc[h] \in WaitLoop
  BY <1>1, HeadTail DEF QueueInv
<1>3. /\ waiting' = [waiting EXCEPT ![h] = FALSE]
      /\ pc' = [pc EXCEPT ![t] = "wake"] /\ pc[t] \in {"wakeone", "dowake"}
      /\ UNCHANGED <<flags, ret>>
  BY <1>1 DEF DetachFirst, WakeOneWriter, WakeWriter, WakeReader
<1> QED
  BY <1>1, <1>2, <1>3 DEF Owns

\* sem->activity plus the pending woken counts the owners across every step.
LEMMA CountStep == IInv /\ [Next]_vars => CountInv'
<1> SUFFICES ASSUME IInv, [Next]_vars PROVE CountInv'
  OBVIOUS
<1> USE DEF TypeOK, Mode, WaitLoop, WakePath, PC, Holding
<1>0. TypeOK /\ PathInv /\ QueueInv /\ StageInv /\ CountInv
  BY DEF IInv
<1>f. IsFiniteSet(Readers) /\ Cardinality(Readers) \in Nat
  BY ReadersFinite
<1>1. ASSUME NEW t \in Task, NEW m \in Mode, TakeNow(t, m) PROVE CountInv'
  <2>1. /\ ~Owns(t, "READ") /\ ~Owns(t, "WRITE")
        /\ Owns(t, m)' /\ \A n \in Mode : n # m => ~Owns(t, n)'
        /\ \A u \in Task, n \in Mode : u # t => (Owns(u, n)' <=> Owns(u, n))
    BY <1>1, <1>0, OwnsTake
  <2>2. /\ Readers' = IF m = "READ" THEN Readers \cup {t} ELSE Readers
        /\ Writers' = IF m = "WRITE" THEN Writers \cup {t} ELSE Writers
        /\ t \notin Readers /\ t \notin Writers
    BY <2>1, <1>0, OwnersAdd
  <2>3. activity >= 0 /\ woken = 0 /\ woken' = 0
        /\ Writers = {} /\ Cardinality(Readers) = activity + woken
    BY <1>1, <1>0 DEF TakeNow, Granted, CountInv, StageInv, waker
  <2>4. CASE m = "READ"
    <3>1. activity' = activity + 1 /\ Writers' = {} /\ Readers' = Readers \cup {t}
      BY <2>4, <2>2, <2>3, <1>1 DEF TakeNow
    <3>2. Cardinality(Readers \cup {t}) = Cardinality(Readers) + 1
      BY <2>2, <1>f, FS_AddElement
    <3> QED
      BY <3>1, <3>2, <2>3, <1>0 DEF CountInv
  <2>5. CASE m = "WRITE"
    <3>1. activity = 0 /\ activity' = -1
      BY <2>5, <1>1 DEF TakeNow, Granted
    <3>2. Readers = {}
      BY <3>1, <2>3, <1>f, FS_EmptySet
    <3> QED
      BY <3>1, <3>2, <2>2, <2>3, <2>5 DEF CountInv
  <2> QED
    BY <2>4, <2>5
<1>2. ASSUME NEW t \in Task, NEW m \in Mode, Enqueue(t, m) PROVE CountInv'
  <2>1. \A u \in Task, n \in Mode : Owns(u, n)' <=> Owns(u, n)
    BY <1>2, <1>0, OwnsStays
  <2> QED
    BY <2>1, OwnersSame, <1>2, <1>0 DEF CountInv, Enqueue, waker
<1>3. ASSUME NEW t \in Task, Wait(t) PROVE CountInv'
  <2>1. \A u \in Task, n \in Mode : Owns(u, n)' <=> Owns(u, n)
    BY <1>3, <1>0, OwnsStays
  <2>2. UNCHANGED <<activity, woken>>
    BY <1>3 DEF Wait, WaitCheck, Schedule, SetState, waker
  <2> QED
    BY <2>1, <2>2, OwnersSame, <1>0 DEF CountInv
<1>4. ASSUME NEW t \in Task, up_read(t) PROVE CountInv'
  <2>1. t \in Readers /\ woken = 0 /\ woken' = 0 /\ activity' = activity - 1
    BY <1>4, <1>0 DEF up_read, Readers, Owns, StageInv, EnterWake, waker
  <2>2. Writers = {} /\ Cardinality(Readers) = activity
    BY <2>1, <1>0 DEF CountInv
  <2>3. /\ \A n \in Mode : ~Owns(t, n)'
        /\ \A u \in Task, n \in Mode : u # t => (Owns(u, n)' <=> Owns(u, n))
    BY <1>4, <1>0, OwnsRelease
  <2>4. Readers' = Readers \ {t} /\ Writers' = {}
    BY <2>2, <2>3, OwnersDrop
  <2>5. Cardinality(Readers \ {t}) = Cardinality(Readers) - 1
    BY <2>1, <1>f, FS_RemoveElement
  <2>6. Cardinality(Readers \ {t}) \in Nat
    BY <1>f, FS_RemoveElement, FS_Subset, FS_CardinalityType
  <2> QED
    BY <2>1, <2>2, <2>4, <2>5, <2>6 DEF CountInv
<1>5. ASSUME NEW t \in Task, up_write(t) PROVE CountInv'
  <2>1. t \in Writers /\ woken = 0 /\ woken' = 0 /\ activity' = 0
    BY <1>5, <1>0 DEF up_write, Writers, Owns, StageInv, EnterWake, waker
  <2>2. Writers = {t} /\ Readers = {}
    BY <2>1, <1>0 DEF CountInv
  <2>3. /\ \A n \in Mode : ~Owns(t, n)'
        /\ \A u \in Task, n \in Mode : u # t => (Owns(u, n)' <=> Owns(u, n))
    BY <1>5, <1>0, OwnsRelease
  <2>4. Readers' = {} /\ Writers' = {}
    BY <2>2, <2>3, OwnersDrop
  <2> QED
    BY <2>1, <2>4, FS_EmptySet DEF CountInv
<1>6. ASSUME NEW t \in Task, downgrade_write(t) PROVE CountInv'
  <2>1. t \in Writers /\ woken = 0 /\ woken' = 0 /\ activity' = 1
    BY <1>6, <1>0 DEF downgrade_write, Writers, Owns, StageInv, EnterWake, waker
  <2>2. Writers = {t} /\ Readers = {}
    BY <2>1, <1>0 DEF CountInv
  <2>3. /\ Owns(t, "READ")' /\ ~Owns(t, "WRITE")'
        /\ \A u \in Task, n \in Mode : u # t => (Owns(u, n)' <=> Owns(u, n))
    BY <1>6, <1>0, OwnsDowngrade
  <2>4. Readers' = {t} /\ Writers' = {}
    BY <2>2, <2>3 DEF Readers, Writers
  <2>5. Cardinality({t}) = 1
    BY FS_Singleton
  <2> QED
    BY <2>1, <2>4, <2>5 DEF CountInv
<1>7. ASSUME NEW t \in Task, WakeOneWriter(t) \/ WakeWriter(t) PROVE CountInv'
  <2>1. /\ wait_list # <<>> /\ DetachFirst(t) /\ flags[Head(wait_list)] = "WRITE"
        /\ activity = 0 /\ activity' = -1 /\ woken = 0 /\ woken' = 0 /\ ret = "idle"
    BY <1>7, <1>0 DEF WakeOneWriter, WakeWriter, First, StageInv
  <2>p. PICK h \in Task : h = Head(wait_list)
    BY <2>1, <1>0, HeadTail
  <2>2. flags[h] = "WRITE"
    BY <2>1, <2>p
  <2>5. /\ ~Owns(h, "READ") /\ ~Owns(h, "WRITE")
        /\ Owns(h, "WRITE")' /\ ~Owns(h, "READ")'
        /\ \A u \in Task, n \in Mode : u # h => (Owns(u, n)' <=> Owns(u, n))
    BY <2>2, <2>p, <1>7, <1>0, OwnsDetach
  <2>6. Readers' = Readers /\ Writers' = Writers \cup {h}
    BY <2>2, <2>5 DEF Readers, Writers, Mode
  <2>7. Writers = {} /\ Readers = {}
    BY <2>1, <1>0, <1>f, FS_EmptySet DEF CountInv
  <2> QED
    BY <2>1, <2>2, <2>6, <2>7 DEF CountInv
<1>8. ASSUME NEW t \in Task, WakeReader(t) PROVE CountInv'
  <2>1. /\ wait_list # <<>> /\ DetachFirst(t) /\ flags[Head(wait_list)] = "READ"
        /\ activity \in {0, 1} /\ activity' = activity /\ woken' = woken + 1
    BY <1>8, <1>0 DEF WakeReader, First, StageInv
  <2>p. PICK h \in Task : h = Head(wait_list)
    BY <2>1, <1>0, HeadTail
  <2>2. flags[h] = "READ"
    BY <2>1, <2>p
  <2>5. /\ ~Owns(h, "READ") /\ ~Owns(h, "WRITE")
        /\ Owns(h, "READ")' /\ ~Owns(h, "WRITE")'
        /\ \A u \in Task, n \in Mode : u # h => (Owns(u, n)' <=> Owns(u, n))
    BY <2>2, <2>p, <1>8, <1>0, OwnsDetach
  <2>6. Readers' = Readers \cup {h} /\ Writers' = Writers /\ h \notin Readers
    BY <2>2, <2>5 DEF Readers, Writers, Mode
  <2>7. Writers = {} /\ Cardinality(Readers) = activity + woken
    BY <2>1, <1>0 DEF CountInv
  <2>8. Cardinality(Readers \cup {h}) = Cardinality(Readers) + 1
    BY <2>6, <1>f, FS_AddElement
  <2> QED
    BY <2>1, <2>6, <2>7, <2>8, <1>0 DEF CountInv
<1>9. ASSUME NEW t \in Task, WakeDone(t) PROVE CountInv'
  <2>1. \A u \in Task, n \in Mode : Owns(u, n)' <=> Owns(u, n)
    BY <1>9, <1>0, OwnsStays
  <2>2. /\ activity' = activity + woken /\ woken' = 0 /\ activity >= 0
    BY <1>9, <1>0 DEF WakeDone, StageInv
  <2> QED
    BY <2>1, <2>2, OwnersSame, <1>0 DEF CountInv
<1>10. ASSUME NEW t \in Task, WakeUpProcess(t) PROVE CountInv'
  <2>1. \A u \in Task, n \in Mode : Owns(u, n)' <=> Owns(u, n)
    BY <1>10, <1>0, OwnsStays
  <2>2. UNCHANGED <<activity, woken>>
    BY <1>10 DEF WakeUpProcess
  <2> QED
    BY <2>1, <2>2, OwnersSame, <1>0 DEF CountInv
<1>11. CASE UNCHANGED vars
  BY <1>11, <1>0 DEF vars, CountInv, Readers, Writers, Owns
<1> QED
  BY <1>1, <1>2, <1>3, <1>4, <1>5, <1>6, <1>7, <1>8, <1>9, <1>10, <1>11
  DEF Next, Acquire, down_read, down_write, down_read_trylock,
      down_write_trylock, Release, Wake

\* What the waker relies on at each stage of a release.  Entering
\* __rwsem_wake_one_writer() needs HeadInv: behind readers a writer is first.
LEMMA StageStep == IInv /\ [Next]_vars => StageInv'
<1> SUFFICES ASSUME IInv, [Next]_vars PROVE StageInv'
  OBVIOUS
<1> USE DEF TypeOK, Mode, WaitLoop, WakePath, Holding
<1>0. TypeOK /\ PathInv /\ QueueInv /\ StageInv /\ CountInv /\ HeadInv
  BY DEF IInv
<1>1. ASSUME NEW t \in Task, NEW m \in Mode, TakeNow(t, m) \/ Enqueue(t, m)
      PROVE StageInv'
  <2>1. \A u \in Task : pc'[u] \notin WakePath
    BY <1>1, <1>0 DEF TakeNow, Enqueue, PathInv
  <2> QED
    BY <2>1, <1>1, <1>0 DEF TakeNow, Enqueue, StageInv, waker
<1>2. ASSUME NEW t \in Task, Wait(t) PROVE StageInv'
  BY <1>2, <1>0 DEF Wait, WaitCheck, Schedule, SetState, StageInv, First, waker
<1>3. ASSUME NEW t \in Task, up_read(t) \/ up_write(t) \/ downgrade_write(t)
      PROVE StageInv'
  <2>1. wait_lock = NoTask /\ \A u \in Task : pc[u] \notin WakePath
    BY <1>3, <1>0 DEF up_read, up_write, downgrade_write, PathInv
  <2>2. woken' = 0 /\ tsk' = NoTask
    BY <1>3, <2>1, <1>0 DEF up_read, up_write, downgrade_write, EnterWake, Unlock,
                            waker, StageInv
  <2>3. CASE up_read(t) /\ pc'[t] = "wakeone"
    <3>1. activity' = 0 /\ activity > 0 /\ wait_list # <<>> /\ ret' = "idle"
      BY <2>3, <1>0 DEF up_read, EnterWake, Unlock
    <3>2. First("WRITE")
      BY <3>1, <2>1, <1>0, HeadTail DEF HeadInv, First
    <3>3. First("WRITE")' /\ pc' = [pc EXCEPT ![t] = "wakeone"]
      BY <3>1, <3>2, <2>3 DEF up_read, First, EnterWake, Unlock
    <3> QED
      BY <3>1, <3>3, <2>1, <2>2, <1>0 DEF StageInv
  <2>4. CASE up_read(t) /\ pc'[t] # "wakeone"
    <3>1. pc' = [pc EXCEPT ![t] = "idle"]
      BY <2>4, <1>0 DEF up_read, EnterWake, Unlock
    <3> QED
      BY <3>1, <2>1, <2>2, <1>0 DEF StageInv
  <2>5. CASE up_write(t)
    <3>1. /\ activity' = 0
          /\ \/ pc' = [pc EXCEPT ![t] = "dowake"] /\ ret' = "idle"
             \/ pc' = [pc EXCEPT ![t] = "idle"]
      BY <2>5 DEF up_write, EnterWake, Unlock
    <3> QED
      BY <3>1, <2>1, <2>2, <1>0 DEF StageInv
  <2>6. CASE downgrade_write(t)
    <3>1. /\ activity' = 1
          /\ \/ pc' = [pc EXCEPT ![t] = "dowake"] /\ ret' = "read"
             \/ pc' = [pc EXCEPT ![t] = "read"]
      BY <2>6 DEF downgrade_write, EnterWake, Unlock
    <3> QED
      BY <3>1, <2>1, <2>2, <1>0 DEF StageInv
  <2> QED
    BY <1>3, <2>3, <2>4, <2>5, <2>6
<1>4. ASSUME NEW t \in Task, WakeOneWriter(t) \/ WakeWriter(t) \/ WakeReader(t)
      PROVE StageInv'
  <2>1. wait_list # <<>> /\ DetachFirst(t)
    BY <1>4, <1>0 DEF WakeOneWriter, WakeWriter, WakeReader, First, StageInv
  <2>2. Head(wait_list) \in Task
    BY <2>1, <1>0, HeadTail
  <2>3. /\ tsk' \in Task /\ pc' = [pc EXCEPT ![t] = "wake"] /\ ret' = ret
        /\ wait_lock = t /\ wait_lock' = t
    BY <2>1, <2>2, <1>4, <1>0
    DEF DetachFirst, PathInv, WakeOneWriter, WakeWriter, WakeReader
  <2>4. \/ activity' = -1 /\ ret' = "idle" /\ woken' = 0
        \/ activity' = IF ret' = "read" THEN 1 ELSE 0
    BY <1>4, <2>3, <1>0 DEF WakeOneWriter, WakeWriter, WakeReader, StageInv
  <2>5. \A u \in Task : u # t => pc'[u] \notin WakePath
    BY <2>3, <1>0 DEF PathInv
  <2> QED
    BY <2>3, <2>4, <2>5, <1>0 DEF StageInv
<1>5. ASSUME NEW t \in Task, WakeDone(t) PROVE StageInv'
  <2>1. \A u \in Task : pc'[u] \notin WakePath
    BY <1>5, <1>0 DEF WakeDone, Unlock, PathInv
  <2> QED
    BY <2>1, <1>5, <1>0 DEF WakeDone, Unlock, StageInv
<1>6. ASSUME NEW t \in Task, WakeUpProcess(t) PROVE StageInv'
  <2>1. wait_lock = t /\ \A u \in Task : u # t => pc[u] \notin WakePath
    BY <1>6, <1>0 DEF WakeUpProcess, PathInv
  <2>2. CASE activity = -1
    BY <2>1, <2>2, <1>6, <1>0 DEF WakeUpProcess, Unlock, StageInv
  <2>3. CASE activity # -1
    BY <2>1, <2>3, <1>6, <1>0 DEF WakeUpProcess, StageInv
  <2> QED
    BY <2>2, <2>3
<1>7. CASE UNCHANGED vars
  BY <1>7, <1>0 DEF vars, StageInv, First
<1> QED
  BY <1>1, <1>2, <1>3, <1>4, <1>5, <1>6, <1>7
  DEF Next, Acquire, down_read, down_write, down_read_trylock,
      down_write_trylock, Release, Wake

\* Behind readers the queue starts with a writer, and nobody queues at a
\* free semaphore, whenever wait_lock is free.
LEMMA HeadStep == IInv /\ [Next]_vars => HeadInv'
<1> SUFFICES ASSUME IInv, [Next]_vars PROVE HeadInv'
  OBVIOUS
<1> USE DEF TypeOK, Mode, WaitLoop, WakePath, Holding
<1>0. TypeOK /\ PathInv /\ QueueInv /\ StageInv /\ CountInv /\ HeadInv
  BY DEF IInv
<1>1. ASSUME NEW t \in Task, NEW m \in Mode, TakeNow(t, m) PROVE HeadInv'
  BY <1>1, <1>0 DEF TakeNow, Granted, HeadInv, First
<1>2. ASSUME NEW t \in Task, NEW m \in Mode, Enqueue(t, m) PROVE HeadInv'
  <2>1. wait_list' = Append(wait_list, t) /\ wait_list' # <<>>
    BY <1>2, <1>0 DEF Enqueue
  <2>2. CASE wait_list = <<>>
    <3>1. Head(wait_list') = t /\ flags'[t] = m
      BY <2>1, <2>2, <1>2, <1>0 DEF Enqueue
    <3> QED
      BY <3>1, <2>2, <1>2, <1>0 DEF HeadInv, First, Enqueue, Granted
  <2>3. CASE wait_list # <<>>
    <3>1. Head(wait_list') = Head(wait_list)
      BY <2>1, <2>3, <1>0
    <3>2. waiting[Head(wait_list)] /\ Head(wait_list) \in Task
      BY <2>3, <1>0, HeadTail DEF QueueInv
    <3>3. Head(wait_list) # t
      BY <3>2, <1>2, <1>0 DEF Enqueue, QueueInv
    <3>4. flags'[Head(wait_list)] = flags[Head(wait_list)]
      BY <3>2, <3>3, <1>2, <1>0 DEF Enqueue
    <3>5. activity # 0 /\ (activity > 0 => ~First("READ")) /\ activity' = activity
      BY <2>3, <1>2, <1>0 DEF HeadInv, Enqueue
    <3> QED
      BY <3>1, <3>4, <3>5, <2>3, <1>0 DEF HeadInv, First
  <2> QED
    BY <2>2, <2>3
<1>3. ASSUME NEW t \in Task, Wait(t) PROVE HeadInv'
  BY <1>3, <1>0 DEF Wait, WaitCheck, Schedule, SetState, HeadInv, First
<1>4. ASSUME NEW t \in Task, up_read(t) PROVE HeadInv'
  <2>1. t \in Readers
    BY <1>4 DEF up_read, Readers, Owns
  <2>2. activity # -1 /\ activity' = activity - 1 /\ wait_lock = NoTask
    BY <2>1, <1>4, <1>0 DEF CountInv, up_read
  <2>3. CASE activity' = 0 /\ wait_list # <<>>
    BY <2>3, <1>4 DEF up_read, EnterWake, HeadInv
  <2>4. CASE ~(activity' = 0 /\ wait_list # <<>>)
    BY <2>2, <2>4, <1>4, <1>0 DEF up_read, HeadInv, First
  <2> QED
    BY <2>3, <2>4
<1>5. ASSUME NEW t \in Task, up_write(t) \/ downgrade_write(t) PROVE HeadInv'
  BY <1>5 DEF up_write, downgrade_write, EnterWake, HeadInv, First
<1>6. ASSUME NEW t \in Task, WakeOneWriter(t) \/ WakeWriter(t) \/ WakeReader(t)
      PROVE HeadInv'
  BY <1>6, <1>0
  DEF WakeOneWriter, WakeWriter, WakeReader, DetachFirst, HeadInv, PathInv
<1>7. ASSUME NEW t \in Task, WakeDone(t) PROVE HeadInv'
  <2>1. ~First("READ")'
    BY <1>7 DEF WakeDone, First
  <2>2. ASSUME activity' = 0 PROVE wait_list' = <<>>
    <3>1. ret = "idle" /\ woken = 0
      BY <1>7, <2>2, <1>0 DEF WakeDone, StageInv
    <3>2. ~First("READ") /\ ~First("WRITE")
      BY <3>1, <1>7 DEF WakeDone
    <3>3. wait_list # <<>> => Head(wait_list) \in Task
      BY <1>0, HeadTail
    <3> QED
      BY <3>2, <3>3, <1>7, <1>0 DEF First, WakeDone
  <2> QED
    BY <2>1, <2>2 DEF HeadInv
<1>8. ASSUME NEW t \in Task, WakeUpProcess(t) PROVE HeadInv'
  BY <1>8, <1>0 DEF WakeUpProcess, Unlock, HeadInv, PathInv
<1>9. CASE UNCHANGED vars
  BY <1>9, <1>0 DEF vars, HeadInv, First
<1> QED
  BY <1>1, <1>2, <1>3, <1>4, <1>5, <1>6, <1>7, <1>8, <1>9
  DEF Next, Acquire, down_read, down_write, down_read_trylock,
      down_write_trylock, Release, Wake

\* A waiter that read its waiter.task before the waker NULLed it sleeps only
\* while the wake_up_process() for it is still to come.
LEMMA WakeupStep == IInv /\ [Next]_vars => NoLostWakeup'
<1> SUFFICES ASSUME IInv, [Next]_vars PROVE NoLostWakeup'
  OBVIOUS
<1> USE DEF TypeOK, Mode, WaitLoop, WakePath, Holding
<1>0. TypeOK /\ PathInv /\ QueueInv /\ StageInv /\ NoLostWakeup
  BY DEF IInv
<1>1. ASSUME NEW t \in Task, NEW m \in Mode, TakeNow(t, m) \/ Enqueue(t, m)
      PROVE NoLostWakeup'
  BY <1>1, <1>0 DEF TakeNow, Enqueue, NoLostWakeup, waker
<1>2. ASSUME NEW t \in Task, Wait(t) PROVE NoLostWakeup'
  BY <1>2, <1>0 DEF Wait, WaitCheck, Schedule, SetState, NoLostWakeup, waker
<1>3. ASSUME NEW t \in Task, up_read(t) \/ up_write(t) \/ downgrade_write(t)
      PROVE NoLostWakeup'
  BY <1>3, <1>0 DEF up_read, up_write, downgrade_write, EnterWake, Unlock,
                    NoLostWakeup, StageInv, waker
<1>4. ASSUME NEW t \in Task, WakeOneWriter(t) \/ WakeWriter(t) \/ WakeReader(t)
      PROVE NoLostWakeup'
  <2>1. DetachFirst(t) /\ wait_list # <<>> /\ tsk = NoTask
    BY <1>4, <1>0 DEF WakeOneWriter, WakeWriter, WakeReader, First, StageInv
  <2>p. PICK h \in Task : h = Head(wait_list)
    BY <2>1, <1>0, HeadTail
  <2>2. /\ tsk' = h /\ waiting' = [waiting EXCEPT ![h] = FALSE] /\ state' = state
        /\ pc' = [pc EXCEPT ![t] = "wake"]
    BY <2>1, <2>p DEF DetachFirst
  <2> QED
    BY <2>1, <2>2, <1>0 DEF NoLostWakeup
<1>5. ASSUME NEW t \in Task, WakeDone(t) PROVE NoLostWakeup'
  BY <1>5, <1>0 DEF WakeDone, Unlock, NoLostWakeup, StageInv
<1>6. ASSUME NEW t \in Task, WakeUpProcess(t) PROVE NoLostWakeup'
  <2>1. tsk \in Task
    BY <1>6, <1>0 DEF WakeUpProcess, StageInv
  <2> QED
    BY <2>1, <1>6, <1>0 DEF WakeUpProcess, Unlock, NoLostWakeup, StageInv
<1>7. CASE UNCHANGED vars
  BY <1>7, <1>0 DEF vars, NoLostWakeup
<1> QED
  BY <1>1, <1>2, <1>3, <1>4, <1>5, <1>6, <1>7
  DEF Next, Acquire, down_read, down_write, down_read_trylock,
      down_write_trylock, Release, Wake

-----------------------------------------------------------------------------
\* IInv is an invariant of the semaphore for any finite set of tasks.
THEOREM Invariance == Spec => []IInv
<1>1. IInv /\ [Next]_vars => IInv'
  BY TypeStep, PathStep, QueueStep, StageStep, CountStep, HeadStep, WakeupStep
  DEF IInv
<1> QED
  BY InitInv, <1>1, PTL DEF Spec

\* The state of the semaphore, its queue and its waiters keeps its types.
THEOREM TypeCorrect == Spec => []TypeOK
<1>1. IInv => TypeOK
  BY DEF IInv
<1> QED
  BY Invariance, <1>1, PTL

\* A writer excludes every other owner of the semaphore.
THEOREM Exclusion == Spec => []WriterExclusive
<1>1. IInv => WriterExclusive
  <2> SUFFICES ASSUME CountInv, NEW t \in Task, NEW u \in Task, u # t,
                      Owns(t, "WRITE")
               PROVE  ~Owns(u, "READ") /\ ~Owns(u, "WRITE")
    BY DEF IInv, WriterExclusive
  <2>1. t \in Writers
    BY DEF Writers
  <2>2. Readers = {} /\ Writers = {t}
    BY <2>1 DEF CountInv
  <2> QED
    BY <2>2 DEF Readers, Writers
<1> QED
  BY Invariance, <1>1, PTL

\* sem->activity counts the owners exactly whenever wait_lock is free.
THEOREM ActivityCounts == Spec => []ActivityExact
<1>1. IInv => ActivityExact
  <2> SUFFICES ASSUME CountInv, StageInv, TypeOK, wait_lock = NoTask
               PROVE  activity = IF Writers # {} THEN -1 ELSE Cardinality(Readers)
    BY DEF IInv, ActivityExact
  <2>1. woken = 0
    BY DEF StageInv
  <2>2. CASE activity = -1
    BY <2>2 DEF CountInv
  <2>3. CASE activity # -1
    BY <2>1, <2>3 DEF CountInv, TypeOK
  <2> QED
    BY <2>2, <2>3
<1> QED
  BY Invariance, <1>1, PTL

\* __rwsem_wake_one_writer() always finds a writer at the head of the queue.
THEOREM WakesAWriter == Spec => []WriterAtHead
<1>1. IInv => WriterAtHead
  BY DEF IInv, StageInv, WriterAtHead
<1> QED
  BY Invariance, <1>1, PTL

\* No granted task sleeps with nobody left to wake it.
THEOREM WakeupNotLost == Spec => []NoLostWakeup
<1>1. IInv => NoLostWakeup
  BY DEF IInv
<1> QED
  BY Invariance, <1>1, PTL

\* Nobody queues on a semaphore that nobody holds.
THEOREM QueueNeverIdle == Spec => []NoIdleQueue
<1>1. IInv => NoIdleQueue
  <2> SUFFICES ASSUME IInv, wait_lock = NoTask, wait_list # <<>>,
                      Readers \cup Writers = {}
               PROVE  FALSE
    BY DEF NoIdleQueue
  <2>1. woken = 0 /\ activity \in Int
    BY DEF IInv, StageInv, TypeOK
  <2>2. activity = 0
    BY <2>1, FS_EmptySet DEF IInv, CountInv
  <2> QED
    BY <2>2 DEF IInv, HeadInv
<1> QED
  BY Invariance, <1>1, PTL

-----------------------------------------------------------------------------
(* The code implements the FIFO reader/writer lock of RWLock.               *)

\* The hold of the abstract lock.
holds == [t \in Task |-> Hold(t)]

\* How ownership reads in the abstract lock; a task owns in one mode only.
LEMMA HoldOfOwner ==
  ASSUME IInv, NEW t \in Task
  PROVE  /\ holds[t] = Hold(t)
         /\ Hold(t) = "WRITE" <=> Owns(t, "WRITE")
         /\ Hold(t) = "NONE" <=> ~Owns(t, "WRITE") /\ ~Owns(t, "READ")
         /\ Owns(t, "READ") => Hold(t) = "READ"
<1>1. Owns(t, "READ") => ~Owns(t, "WRITE")
  BY DEF IInv, CountInv, Readers, Writers
<1> QED
  BY <1>1 DEF holds, Hold

\* A step that moves no owner leaves the abstract lock alone ...
LEMMA HoldsSame ==
  ASSUME \A u \in Task, n \in Mode : Owns(u, n)' <=> Owns(u, n)
  PROVE  holds' = holds
  BY DEF holds, Hold, Mode

\* ... and one that concerns a single task changes its hold only.
LEMMA HoldsOne ==
  ASSUME NEW t \in Task,
         \A u \in Task, n \in Mode : u # t => (Owns(u, n)' <=> Owns(u, n))
  PROVE  holds' = [holds EXCEPT ![t] = Hold(t)']
  BY DEF holds, Hold, Mode

\* Whether a mode can be granted is what activity says about the owners.
LEMMA CompatibleCount ==
  ASSUME IInv
  PROVE  /\ RW!Compatible("READ") <=> activity # -1
         /\ RW!Compatible("WRITE") <=> activity # -1 /\ activity + woken = 0
<1>0. TypeOK /\ CountInv /\ IsFiniteSet(Readers) /\ Cardinality(Readers) \in Nat
  BY ReadersFinite DEF IInv
<1>1. \A u \in Task : holds[u] # "WRITE" <=> u \notin Writers
  BY HoldOfOwner DEF Writers
<1>2. \A u \in Task : holds[u] = "NONE" <=> u \notin Writers /\ u \notin Readers
  BY HoldOfOwner DEF Writers, Readers
<1>3. RW!Compatible("READ") <=> Writers = {}
  BY <1>1 DEF RW!Compatible, holds, Writers
<1>4. RW!Compatible("WRITE") <=> Writers = {} /\ Readers = {}
  BY <1>1, <1>2 DEF RW!Compatible, holds, Writers, Readers
<1>5. Readers = {} <=> Cardinality(Readers) = 0
  BY <1>0, FS_EmptySet
<1>6. CASE activity = -1
  BY <1>0, <1>3, <1>4, <1>6 DEF CountInv
<1>7. CASE activity # -1
  BY <1>0, <1>3, <1>4, <1>5, <1>7 DEF CountInv, TypeOK
<1> QED
  BY <1>6, <1>7

\* A task outside every call is not in the queue.
LEMMA IdleNotQueued ==
  ASSUME IInv, NEW t \in Task, pc[t] = "idle"
  PROVE  ~RW!Queued(t)
<1>1. ~waiting[t]
  BY DEF IInv, QueueInv, WaitLoop
<1> QED
  BY <1>1 DEF IInv, QueueInv, TypeOK, RW!Queued

\* The fast path of __down_read() and __down_write() takes the lock past an
\* empty queue; the slow path queues, and only behind somebody.
LEMMA AcquireRefines ==
  ASSUME IInv, NEW t \in Task, NEW m \in Mode, TakeNow(t, m) \/ Enqueue(t, m)
  PROVE  RW!Take(t, m) \/ RW!Join(t, m)
<1> USE DEF Mode
<1>0. TypeOK /\ StageInv /\ CountInv
  BY DEF IInv
<1>1. pc[t] = "idle" /\ wait_lock = NoTask
  BY DEF TakeNow, Enqueue
<1>2. ~RW!Queued(t) /\ woken = 0 /\ activity \in Int /\ activity >= -1
  BY <1>0, <1>1, IdleNotQueued DEF StageInv, TypeOK, CountInv
<1>3. holds[t] = "NONE"
  BY <1>1, HoldOfOwner DEF Owns, Holding, WaitLoop, WakePath
<1>4. Granted(m) <=> wait_list = <<>> /\ RW!Compatible(m)
  BY <1>2, CompatibleCount DEF Granted
<1>5. CASE TakeNow(t, m)
  <2>1. holds' = [holds EXCEPT ![t] = Hold(t)']
    BY <1>0, <1>5, OwnsTake, HoldsOne
  <2>2. Hold(t)' = m
    BY <1>0, <1>5, OwnsTake DEF Hold
  <2>3. wait_list = <<>> /\ RW!Compatible(m) /\ UNCHANGED <<wait_list, flags>>
    BY <1>4, <1>5 DEF TakeNow
  <2> QED
    BY <1>2, <1>3, <2>1, <2>2, <2>3 DEF RW!Take, holds
<1>6. CASE Enqueue(t, m)
  <2>1. holds' = holds
    BY <1>0, <1>6, OwnsStays, HoldsSame
  <2>2. /\ ~(wait_list = <<>> /\ RW!Compatible(m))
        /\ wait_list' = Append(wait_list, t) /\ flags' = [flags EXCEPT ![t] = m]
    BY <1>4, <1>6 DEF Enqueue
  <2> QED
    BY <1>2, <1>3, <2>1, <2>2 DEF RW!Join, holds
<1> QED
  BY <1>5, <1>6

\* A waker serves the oldest waiter, at a moment when nobody is in its way.
LEMMA WakeRefines ==
  ASSUME IInv, NEW t \in Task, WakeOneWriter(t) \/ WakeWriter(t) \/ WakeReader(t)
  PROVE  RW!Serve
<1>0. TypeOK /\ QueueInv /\ StageInv /\ CountInv
  BY DEF IInv
<1>1. wait_list # <<>>
  BY <1>0 DEF WakeOneWriter, WakeWriter, WakeReader, First, StageInv
<1>p. PICK h \in Task : h = Head(wait_list)
  BY <1>0, <1>1, HeadTail DEF TypeOK
<1>m. PICK m \in Mode : m = flags[h]
  BY <1>0 DEF TypeOK
<1>2. DetachFirst(t) /\ Owns(h, m)' /\ \A n \in Mode : n # m => ~Owns(h, n)'
  BY <1>0, <1>p, <1>m, OwnsDetach
<1>3. holds' = [holds EXCEPT ![h] = Hold(h)']
  BY <1>0, <1>p, <1>m, OwnsDetach, HoldsOne
<1>4. Hold(h)' = m
  BY <1>2 DEF Hold, Mode
<1>5. RW!Compatible(m)
  BY <1>0, <1>m, <1>p, CompatibleCount
  DEF WakeOneWriter, WakeWriter, WakeReader, StageInv, First, TypeOK, Mode
<1> QED
  BY <1>1, <1>2, <1>3, <1>4, <1>5, <1>p, <1>m DEF RW!Serve, DetachFirst, holds

\* Every step of the semaphore is a step of the abstract lock, or none.
LEMMA StepRefines == IInv /\ [Next]_vars => [RW!Next]_(RW!vars)
<1> SUFFICES ASSUME IInv, [Next]_vars PROVE RW!Next \/ UNCHANGED RW!vars
  OBVIOUS
<1>0. TypeOK /\ PathInv /\ StageInv
  BY DEF IInv
<1>1. ASSUME NEW t \in Task, NEW m \in Mode, TakeNow(t, m) \/ Enqueue(t, m)
      PROVE  RW!Next
  BY <1>1, AcquireRefines DEF RW!Next, Mode
<1>2. ASSUME NEW t \in Task, Wait(t) \/ WakeDone(t) \/ WakeUpProcess(t)
      PROVE  UNCHANGED RW!vars
  <2>1. holds' = holds
    BY <1>0, <1>2, OwnsStays, HoldsSame
  <2>2. UNCHANGED <<wait_list, flags>>
    BY <1>2 DEF Wait, WaitCheck, Schedule, SetState, WakeDone, WakeUpProcess
  <2> QED
    BY <2>1, <2>2 DEF RW!vars, holds
<1>3. ASSUME NEW t \in Task, up_read(t) \/ up_write(t)
      PROVE  RW!Next
  <2>1. holds[t] # "NONE"
    BY <1>0, <1>3, OwnsRelease, HoldOfOwner
  <2>2. holds' = [holds EXCEPT ![t] = Hold(t)']
    BY <1>0, <1>3, OwnsRelease, HoldsOne
  <2>3. Hold(t)' = "NONE"
    BY <1>0, <1>3, OwnsRelease DEF Hold, Mode
  <2>4. UNCHANGED <<wait_list, flags>>
    BY <1>3 DEF up_read, up_write
  <2> QED
    BY <2>1, <2>2, <2>3, <2>4 DEF RW!Next, RW!Release, holds
<1>4. ASSUME NEW t \in Task, downgrade_write(t)
      PROVE  RW!Next
  <2>1. holds[t] = "WRITE"
    BY <1>0, <1>4, OwnsDowngrade, HoldOfOwner
  <2>2. holds' = [holds EXCEPT ![t] = Hold(t)']
    BY <1>0, <1>4, OwnsDowngrade, HoldsOne
  <2>3. Hold(t)' = "READ"
    BY <1>0, <1>4, OwnsDowngrade DEF Hold
  <2>4. UNCHANGED <<wait_list, flags>>
    BY <1>4 DEF downgrade_write
  <2> QED
    BY <2>1, <2>2, <2>3, <2>4 DEF RW!Next, RW!Downgrade, holds
<1>5. ASSUME NEW t \in Task, WakeOneWriter(t) \/ WakeWriter(t) \/ WakeReader(t)
      PROVE  RW!Next
  BY <1>5, WakeRefines DEF RW!Next
<1>6. CASE UNCHANGED vars
  BY <1>6 DEF vars, RW!vars, Hold, Owns
<1> QED
  BY <1>1, <1>2, <1>3, <1>4, <1>5, <1>6
  DEF Next, Acquire, down_read, down_write, down_read_trylock,
      down_write_trylock, Release, Wake, Mode

\* lib/rwsem-spinlock.c, with its separate grant and wake-up and its batched
\* readers, implements a lock that serves its queue strictly in order.
THEOREM Refinement == Spec => ImplementsRWLock
<1>1. Init => RW!Init
  BY DEF Init, RW!Init, Hold, Owns, Holding, WaitLoop, WakePath
<1> QED
  BY <1>1, Invariance, StepRefines, PTL DEF Spec, ImplementsRWLock, RW!Spec
=============================================================================
