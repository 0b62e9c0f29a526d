------------------------------- MODULE RWLock -------------------------------
(***************************************************************************)
(* What a reader/writer semaphore promises its callers: readers share,     *)
(* a writer is alone, whoever cannot be served at once queues, and the     *)
(* queue is served strictly in order of arrival.                           *)
(***************************************************************************)
EXTENDS Sequences

CONSTANT Task

VARIABLES hold,   \* what each task holds: "NONE", "READ" or "WRITE"
          queue,  \* the tasks that wait, oldest first
          want    \* the mode each task last queued for

vars == <<hold, queue, want>>

Queued(t) == \E i \in DOMAIN queue : queue[i] = t

Compatible(mode) ==
  \A u \in Task : hold[u] # "WRITE" /\ (mode = "WRITE" => hold[u] = "NONE")

Init ==
  /\ hold = [t \in Task |-> "NONE"]
  /\ queue = <<>>
  /\ want = [t \in Task |-> "READ"]

\* Served at once, only past an empty queue.
Take(t, mode) ==
  /\ hold[t] = "NONE" /\ ~Queued(t)
  /\ queue = <<>> /\ Compatible(mode)
  /\ hold' = [hold EXCEPT ![t] = mode]
  /\ UNCHANGED <<queue, want>>

\* Queue only behind somebody.
Join(t, mode) ==
  /\ hold[t] = "NONE" /\ ~Queued(t)
  /\ ~(queue = <<>> /\ Compatible(mode))
  /\ queue' = Append(queue, t)
  /\ want' = [want EXCEPT ![t] = mode]
  /\ UNCHANGED hold

\* The oldest waiter is served, nobody else.
Serve ==
  /\ queue # <<>> /\ Compatible(want[Head(queue)])
  /\ hold' = [hold EXCEPT ![Head(queue)] = want[Head(queue)]]
  /\ queue' = Tail(queue)
  /\ UNCHANGED want

Release(t) ==
  /\ hold[t] # "NONE"
  /\ hold' = [hold EXCEPT ![t] = "NONE"]
  /\ UNCHANGED <<queue, want>>

Downgrade(t) ==
  /\ hold[t] = "WRITE"
  /\ hold' = [hold EXCEPT ![t] = "READ"]
  /\ UNCHANGED <<queue, want>>

Next ==
  \/ \E t \in Task :
       \/ \E mode \in {"READ", "WRITE"} : Take(t, mode) \/ Join(t, mode)
       \/ Release(t) \/ Downgrade(t)
  \/ Serve

Spec == Init /\ [][Next]_vars
=============================================================================
