----------------------------- MODULE Workqueue -----------------------------
(***************************************************************************)
(* The work queues of kernel/workqueue.c: per-CPU lists of works, one      *)
(* worker thread per CPU, flushing by barrier works, and the cancelling of *)
(* works that may be queued, running, waiting for a timer or re-queueing   *)
(* themselves at that moment.                                              *)
(*                                                                         *)
(* Three kinds of agents call into the code: tasks, the timer handlers of  *)
(* delayed works, and the workers, whose work functions may queue works.   *)
(* The pending bit is one atomic bit operation.  work->data and            *)
(* work->entry are also looked at under the lock of the wrong queue        *)
(* (try_to_grab_pending()), so insert_work() stores them in two steps.     *)
(***************************************************************************)
EXTENDS Integers, Sequences, SequencesExt, FiniteSets

CONSTANTS
  NCPU,       \* the CPUs are 1..NCPU; each has a cpu_workqueue_struct
  Task,       \* the tasks that use the workqueue
  Work,       \* the works, all of them delayable
  None,       \* the NULL pointer
  Workload,   \* what the rest of the kernel may do, see load below
  MaxDepth    \* how deep run_workqueue() may nest in itself; 1: not at all

CPU == 1..NCPU
Agent == Task \cup Work \cup CPU
Item == Work \cup Task    \* a task in a list is the wq_barrier on its stack

CancelCalls == {"cancel_work_sync", "cancel_rearming_delayed_work", "cancel_delayed_work"}
Calls == CancelCalls \cup {"queue_work", "queue_delayed_work", "flush_workqueue", "cpu_down"}

ASSUME WorkqueueAssumption ==
  /\ NCPU \in Nat \ {0} /\ MaxDepth \in Nat \ {0}
  /\ Task \cap Work = {} /\ (Task \cup Work) \cap CPU = {} /\ None \notin Agent
  /\ Workload \subseteq [ops : SUBSET Calls, rearms : BOOLEAN, works : Nat]

VARIABLES
  load,         \* what tasks call, whether work functions queue works, and which
  pending,      \* WORK_STRUCT_PENDING of each work
  data,         \* the queue stored in work->data, or None
  timer,        \* the works whose timer is armed
  worklist,     \* cwq->worklist
  current_work, \* cwq->current_work
  lock,         \* holder of cwq->lock across several steps, or None
  stack,        \* the items whose functions the worker is in, innermost last
  state,        \* the worker's task state
  should_stop,  \* kthread_should_stop()
  online,       \* cpu_online_map
  pc, wrk, cpu, \* each agent's place, and the work and the queue it deals with
  kind,         \* which call a task is in
  at,           \* the CPU whose interrupts a task has off in try_to_grab_pending()
  done,         \* barr.done of each task has been completed
  owed          \* what flush_workqueue() has to wait for (history variable)

works == <<pending, data, timer>>
cwq == <<worklist, current_work, lock>>
worker == <<stack, state, should_stop>>
env == <<online, load>>
vars == <<works, cwq, worker, env, pc, wrk, cpu, kind, at, done, owed>>

Init ==
  /\ \E l \in Workload, W \in SUBSET Work :
       Cardinality(W) = l.works /\ load = [l EXCEPT !.works = W]
  /\ pending = [w \in Work |-> FALSE]
  /\ data = [w \in Work |-> None]
  /\ timer = {}
  /\ worklist = [c \in CPU |-> <<>>]
  /\ current_work = [c \in CPU |-> None]
  /\ lock = [c \in CPU |-> None]
  /\ stack = [c \in CPU |-> <<>>]
  /\ state = [c \in CPU |-> "RUNNING"]
  /\ should_stop = [c \in CPU |-> FALSE]
  /\ online = CPU
  /\ pc = [a \in Agent |-> IF a \in CPU THEN "prepare" ELSE "idle"]
  /\ wrk = [a \in Agent |-> None]
  /\ cpu = [a \in Agent |-> None]
  /\ kind = [t \in Task |-> "none"]
  /\ at = [t \in Task |-> None]
  /\ done = [t \in Task |-> FALSE]
  /\ owed = [t \in Task |-> {}]

Goto(a, where) == pc' = [pc EXCEPT ![a] = where]
Free(c) == lock[c] = None
OnList(w) == \E c \in CPU : w \in ToSet(worklist[c])
Running(w) == \E c \in CPU : w \in ToSet(stack[c])

\* Where an agent may call into the workqueue code, and returns to.
Outside(a) == IF a \in CPU THEN "func" ELSE "idle"
Return(a) ==
  /\ Goto(a, Outside(a))
  /\ wrk' = [wrk EXCEPT ![a] = None] /\ cpu' = [cpu EXCEPT ![a] = None]
  /\ kind' = [t \in Task |-> IF t = a THEN "none" ELSE kind[t]]

\* Where a may run: a worker is bound to its own CPU while that is up, and
\* nobody runs on a CPU on which someone else holds a cwq->lock, with its
\* interrupts off, from one step to the next.
Occupied(c) ==
  \/ \E a \in Agent : pc[a] = "add" /\ cpu[a] = c
  \/ \E t \in Task : pc[t] = "steal" /\ at[t] = c
RunsOn(a) == {c \in IF a \in online THEN {a} ELSE online : ~Occupied(c)}

MayCall(a, op) ==
  /\ pc[a] = Outside(a) /\ RunsOn(a) # {}
  /\ (a \in Task /\ op \in load.ops) \/ (a \in CPU /\ load.rearms)

-----------------------------------------------------------------------------
(* Queueing *)

\* test_and_set_bit(WORK_STRUCT_PENDING) came back 0; otherwise nothing is done.
SetPending(w) == ~pending[w] /\ pending' = [pending EXCEPT ![w] = TRUE]

queue_work(a, w) ==
  /\ MayCall(a, "queue_work")
  /\ SetPending(w)
  /\ \E c \in RunsOn(a) : cpu' = [cpu EXCEPT ![a] = c]
  /\ wrk' = [wrk EXCEPT ![a] = w]
  /\ Goto(a, "set")
  /\ UNCHANGED <<data, timer, cwq, worker, env, kind, at, done, owed>>

\* Mutation: the handler relies on the queue that queue_delayed_work_on() stored.
StoreCwqNot(a) == data' = data

StoreCwq(a) == data' = [data EXCEPT ![wrk[a]] = cpu[a]]

\* insert_work() under cwq->lock: set_wq_data() ...
SetWqData(a) ==
  /\ pc[a] = "set" /\ Free(cpu[a]) /\ ~Occupied(cpu[a])
  /\ lock' = [lock EXCEPT ![cpu[a]] = a]
  /\ StoreCwq(a)
  /\ Goto(a, "add")
  /\ UNCHANGED <<pending, timer, worklist, current_work, worker, env, wrk, cpu, kind, at,
                 done, owed>>

\* Mutation: nobody is woken.
WakeWorkerNot(c) == state' = state

WakeWorker(c) == state' = [state EXCEPT ![c] = "RUNNING"]

\* ... then list_add_tail() and wake_up(&cwq->more_work).
ListAdd(a) ==
  /\ pc[a] = "add"
  /\ worklist' = [worklist EXCEPT ![cpu[a]] = Append(@, wrk[a])]
  /\ WakeWorker(cpu[a])
  /\ lock' = [lock EXCEPT ![cpu[a]] = None]
  /\ Return(a)
  /\ UNCHANGED <<works, current_work, stack, should_stop, env, at, done, owed>>

queue_delayed_work(a, w) ==
  /\ MayCall(a, "queue_delayed_work")
  /\ SetPending(w)
  /\ wrk' = [wrk EXCEPT ![a] = w]
  /\ Goto(a, "setnow")
  /\ UNCHANGED <<data, timer, cwq, worker, env, cpu, kind, at, done, owed>>

\* queue_delayed_work_on() stores the queue of the CPU it runs on for the
\* timer handler, without cwq->lock ...
SetWqDataUnlocked(a) ==
  /\ pc[a] = "setnow"
  /\ \E c \in RunsOn(a) : data' = [data EXCEPT ![wrk[a]] = c]
  /\ Goto(a, "arm")
  /\ UNCHANGED <<pending, timer, cwq, worker, env, wrk, cpu, kind, at, done, owed>>

\* ... and starts the timer.
AddTimer(a) ==
  /\ pc[a] = "arm" /\ RunsOn(a) # {}
  /\ timer' = timer \cup {wrk[a]}
  /\ Return(a)
  /\ UNCHANGED <<pending, data, cwq, worker, env, at, done, owed>>

\* The timer fires on some CPU; the handler queues the work there.
delayed_work_timer_fn(w) ==
  /\ w \in timer /\ pc[w] = "idle"
  /\ timer' = timer \ {w}
  /\ \E c \in RunsOn(w) : cpu' = [cpu EXCEPT ![w] = c]
  /\ wrk' = [wrk EXCEPT ![w] = w]
  /\ Goto(w, "set")
  /\ UNCHANGED <<pending, data, cwq, worker, env, kind, at, done, owed>>

-----------------------------------------------------------------------------
(* worker_thread() and run_workqueue() *)

prepare_to_wait(c) ==
  /\ pc[c] = "prepare"
  /\ state' = [state EXCEPT ![c] = "INTERRUPTIBLE"]
  /\ Goto(c, "test")
  /\ UNCHANGED <<works, cwq, stack, should_stop, env, wrk, cpu, kind, at, done, owed>>

\* list_empty(&cwq->worklist) without cwq->lock; finish_wait() if not sleeping.
TestList(c) ==
  /\ pc[c] = "test"
  /\ IF ~should_stop[c] /\ worklist[c] = <<>>
       THEN Goto(c, "sched") /\ UNCHANGED state
       ELSE Goto(c, "stopcheck") /\ state' = [state EXCEPT ![c] = "RUNNING"]
  /\ UNCHANGED <<works, cwq, stack, should_stop, env, wrk, cpu, kind, at, done, owed>>

\* After the wait, which schedule() leaves once the worker has been woken.
StopCheck(c) ==
  /\ pc[c] = "stopcheck" \/ (pc[c] = "sched" /\ state[c] = "RUNNING")
  /\ Goto(c, IF should_stop[c] THEN "exit" ELSE "run")
  /\ UNCHANGED <<works, cwq, worker, env, wrk, cpu, kind, at, done, owed>>

\* The head of run_workqueue()'s loop, under cwq->lock: take the first item,
\* or return to the function that called it or to worker_thread().
TakeFirst(c, stk) ==
  IF worklist[c] # <<>>
    THEN /\ current_work' = [current_work EXCEPT ![c] = Head(worklist[c])]
         /\ worklist' = [worklist EXCEPT ![c] = Tail(@)]
         /\ stack' = [stack EXCEPT ![c] = Append(stk, Head(worklist[c]))]
         /\ Goto(c, "clear")
    ELSE /\ current_work' = [current_work EXCEPT ![c] = None]
         /\ stack' = [stack EXCEPT ![c] = stk]
         /\ Goto(c, IF stk = <<>> THEN "prepare" ELSE "func")
         /\ UNCHANGED worklist

\* What is owed to the flushers when c finishes item i and takes the next one.
Account(c, i) ==
  LET Moved(o) == IF worklist[c] # <<>> /\ o = <<Head(worklist[c]), c, "queued">>
                    THEN <<o[1], c, "running">> ELSE o
  IN owed' = [t \in Task |-> {Moved(o) : o \in owed[t] \ {<<i, c, "running">>}}]

run_workqueue(c) ==
  /\ pc[c] = "run" /\ Free(c)
  /\ TakeFirst(c, <<>>)
  /\ Account(c, None)
  /\ UNCHANGED <<works, lock, state, should_stop, env, wrk, cpu, kind, at, done>>

\* work_clear_pending() and the call of the function; wq_barrier_func()
\* completes the barrier and returns.
CallFunc(c) ==
  LET i == Last(stack[c]) IN
  /\ pc[c] = "clear"
  /\ \/ /\ i \in Work
        /\ pending' = [pending EXCEPT ![i] = FALSE]
        /\ Goto(c, "func") /\ UNCHANGED done
     \/ /\ i \in Task
        /\ done' = [done EXCEPT ![i] = TRUE]
        /\ Goto(c, "end") /\ UNCHANGED pending
  /\ UNCHANGED <<data, timer, cwq, worker, env, wrk, cpu, kind, at, owed>>

\* The function returns: lock, current_work = NULL, next item.
FuncReturns(c) ==
  /\ pc[c] \in {"func", "end"} /\ Free(c)
  /\ TakeFirst(c, Front(stack[c]))
  /\ Account(c, Last(stack[c]))
  /\ UNCHANGED <<works, lock, state, should_stop, env, wrk, cpu, kind, at, done>>

\* A work function flushes the queue it runs on, of a single-threaded
\* workqueue: flush_cpu_workqueue() calls run_workqueue() itself.
FlushOwnQueue(c) ==
  /\ pc[c] = "func" /\ NCPU = 1 /\ Len(stack[c]) < MaxDepth /\ Free(c)
  /\ worklist[c] # <<>>
  /\ TakeFirst(c, stack[c])
  /\ Account(c, None)
  /\ UNCHANGED <<works, lock, state, should_stop, env, wrk, cpu, kind, at, done>>

-----------------------------------------------------------------------------
(* Barriers and flushing *)

\* insert_wq_barrier() by t, at the end or at the front, and wake_up().
InsertBarrier(t, list) ==
  /\ worklist' = [worklist EXCEPT ![cpu[t]] = list]
  /\ WakeWorker(cpu[t])
  /\ done' = [done EXCEPT ![t] = FALSE]

\* Mutation: the loop runs one CPU too far.
NextCpuOffByOne(t, loop, out) ==
  IF cpu[t] <= NCPU /\ kind[t] # "cleanup"
    THEN Goto(t, loop) /\ cpu' = [cpu EXCEPT ![t] = @ + 1]
    ELSE Goto(t, out) /\ UNCHANGED cpu

\* Mutation: the loop starts over after the last CPU.
NextCpuWraps(t, loop, out) ==
  Goto(t, loop) /\ cpu' = [cpu EXCEPT ![t] = (@ % NCPU) + 1]

\* for_each_cpu_mask(): on to the next queue, or out of the loop.
NextCpu(t, loop, out) ==
  IF cpu[t] < NCPU /\ kind[t] # "cleanup"
    THEN Goto(t, loop) /\ cpu' = [cpu EXCEPT ![t] = @ + 1]
    ELSE Goto(t, out) /\ UNCHANGED cpu

flush_workqueue(t) ==
  /\ MayCall(t, "flush_workqueue")
  /\ kind' = [kind EXCEPT ![t] = "flush"]
  /\ cpu' = [cpu EXCEPT ![t] = 1]
  /\ owed' = [owed EXCEPT ![t] =
       {o \in Work \X CPU \X {"queued", "running"} :
          o[1] \in ToSet(IF o[3] = "queued" THEN worklist[o[2]] ELSE stack[o[2]])}]
  /\ Goto(t, "flush")
  /\ UNCHANGED <<works, cwq, worker, env, wrk, at, done>>

\* Mutation: a work that is running already is not waited for.
BusyIfQueued(c) == worklist[c] # <<>>

Busy(c) == worklist[c] # <<>> \/ current_work[c] # None

flush_cpu_workqueue(t) ==
  /\ pc[t] = "flush" /\ Free(cpu[t])
  /\ IF Busy(cpu[t])
       THEN /\ InsertBarrier(t, Append(worklist[cpu[t]], t))
            /\ Goto(t, "flushwait") /\ UNCHANGED cpu
       ELSE NextCpu(t, "flush", "flushed") /\ UNCHANGED <<worklist, state, done>>
  /\ UNCHANGED <<works, current_work, lock, stack, should_stop, env, wrk, kind, at, owed>>

\* Mutation: wait until the queue is empty instead of for the barrier.
BarrierDoneEmpty(t) == worklist[cpu[t]] = <<>> /\ current_work[cpu[t]] = None

BarrierDone(t) == done[t]

\* wait_for_completion(&barr.done) returns.
FlushWait(t) ==
  /\ pc[t] = "flushwait" /\ BarrierDone(t)
  /\ NextCpu(t, "flush", "flushed")
  /\ UNCHANGED <<works, cwq, worker, env, wrk, kind, at, done, owed>>

FlushReturns(t) ==
  /\ pc[t] = "flushed"
  /\ IF kind[t] = "cleanup" THEN Goto(t, "stop") /\ UNCHANGED <<wrk, cpu, kind>> ELSE Return(t)
  /\ owed' = [owed EXCEPT ![t] = {}]
  /\ UNCHANGED <<works, cwq, worker, env, at, done>>

-----------------------------------------------------------------------------
(* Cancelling *)

\* cancel_work_sync(), cancel_rearming_delayed_work(), cancel_delayed_work().
Cancel(t, w, k) ==
  /\ MayCall(t, k)
  /\ kind' = [kind EXCEPT ![t] = k]
  /\ wrk' = [wrk EXCEPT ![t] = w]
  /\ Goto(t, IF k = "cancel_work_sync" THEN "grab" ELSE "deltimer")
  /\ UNCHANGED <<works, cwq, worker, env, cpu, at, done, owed>>

\* del_timer(), or the del_timer_sync() of cancel_delayed_work(), which also
\* waits for a running handler.
DelTimer(t) ==
  LET w == wrk[t] IN
  /\ pc[t] = "deltimer"
  /\ timer' = timer \ {w}
  /\ \/ /\ kind[t] = "cancel_delayed_work" /\ w \notin timer /\ pc[w] = "idle"
        /\ Return(t)
     \/ /\ kind[t] = "cancel_delayed_work" /\ w \in timer
        /\ Goto(t, "clearbit") /\ UNCHANGED <<wrk, cpu, kind>>
     \/ /\ kind[t] = "cancel_rearming_delayed_work"
        /\ Goto(t, IF w \in timer THEN "waiton" ELSE "grab") /\ UNCHANGED <<wrk, cpu, kind>>
  /\ UNCHANGED <<pending, data, cwq, worker, env, at, done, owed>>

\* The top of the while loop after a failed try_to_grab_pending().
Retry(t) == IF kind[t] = "cancel_work_sync" THEN "grab" ELSE "deltimer"

\* try_to_grab_pending(): the pending bit ...
Grab(t) ==
  LET w == wrk[t] IN
  /\ pc[t] = "grab"
  /\ pending' = [pending EXCEPT ![w] = TRUE]
  /\ Goto(t, IF pending[w] THEN "getcwq" ELSE "waiton")
  /\ UNCHANGED <<data, timer, cwq, worker, env, wrk, cpu, kind, at, done, owed>>

\* ... is somebody else's: which queue might the work be on?
GetCwq(t) ==
  LET w == wrk[t] IN
  /\ pc[t] = "getcwq"
  /\ cpu' = [cpu EXCEPT ![t] = data[w]]
  /\ Goto(t, IF data[w] = None THEN Retry(t) ELSE "lockcwq")
  /\ UNCHANGED <<works, cwq, worker, env, wrk, kind, at, done, owed>>

\* list_empty(&work->entry) under the lock of that queue ...
LockCwq(t) ==
  /\ pc[t] = "lockcwq" /\ Free(cpu[t])
  /\ IF OnList(wrk[t])
       THEN /\ lock' = [lock EXCEPT ![cpu[t]] = t]
            /\ \E c \in RunsOn(t) : at' = [at EXCEPT ![t] = c]
            /\ Goto(t, "steal")
       ELSE UNCHANGED <<lock, at>> /\ Goto(t, Retry(t))
  /\ UNCHANGED <<works, worklist, current_work, worker, env, wrk, cpu, kind, done, owed>>

\* Mutation: the queue is not compared again after list_empty().
StillThereAssumed(t) == TRUE

StillThere(t) == data[wrk[t]] = cpu[t]

\* ... and, if it is the right one, list_del_init().
Steal(t) ==
  LET w == wrk[t] IN
  /\ pc[t] = "steal"
  /\ IF StillThere(t)
       THEN /\ worklist' = [c \in CPU |-> RemoveFirst(worklist[c], w)]
            /\ owed' = [u \in Task |-> owed[u] \ ({w} \X CPU \X {"queued"})]
            /\ Goto(t, "waiton")
       ELSE UNCHANGED <<worklist, owed>> /\ Goto(t, Retry(t))
  /\ lock' = [lock EXCEPT ![cpu[t]] = None]
  /\ at' = [at EXCEPT ![t] = None]
  /\ UNCHANGED <<works, current_work, worker, env, wrk, cpu, kind, done>>

\* Mutation: only the queues from the last one used on are looked at.
FirstQueueLast(t) == data[wrk[t]]

FirstQueue(t) == 1

\* wait_on_work(): nothing to do for a work that has never been queued.
wait_on_work(t) ==
  /\ pc[t] = "waiton"
  /\ cpu' = [cpu EXCEPT ![t] = FirstQueue(t)]
  /\ Goto(t, IF data[wrk[t]] = None THEN "clearbit" ELSE "waitcpu")
  /\ UNCHANGED <<works, cwq, worker, env, wrk, kind, at, done, owed>>

wait_on_cpu_work(t) ==
  /\ pc[t] = "waitcpu" /\ Free(cpu[t])
  /\ IF current_work[cpu[t]] = wrk[t]
       THEN /\ InsertBarrier(t, <<t>> \o worklist[cpu[t]])
            /\ Goto(t, "waitwork") /\ UNCHANGED cpu
       ELSE NextCpu(t, "waitcpu", "clearbit") /\ UNCHANGED <<worklist, state, done>>
  /\ UNCHANGED <<works, current_work, lock, stack, should_stop, env, wrk, kind, at, owed>>

WorkWait(t) ==
  /\ pc[t] = "waitwork" /\ BarrierDone(t)
  /\ NextCpu(t, "waitcpu", "clearbit")
  /\ UNCHANGED <<works, cwq, worker, env, wrk, kind, at, done, owed>>

\* work_clear_pending() and return.
ClearBit(t) ==
  /\ pc[t] = "clearbit"
  /\ pending' = [pending EXCEPT ![wrk[t]] = FALSE]
  /\ Return(t)
  /\ UNCHANGED <<data, timer, cwq, worker, env, at, done, owed>>

-----------------------------------------------------------------------------
(* A CPU goes down *)

\* The CPU leaves cpu_online_map while nobody has preemption off (external);
\* then CPU_DEAD runs cleanup_workqueue_thread() in t, which flushes first.
CpuDead(t, c) ==
  /\ MayCall(t, "cpu_down") /\ online = CPU /\ NCPU > 1
  /\ \A a \in Agent : pc[a] \notin {"set", "add", "steal"}
  /\ online' = online \ {c}
  /\ kind' = [kind EXCEPT ![t] = "cleanup"]
  /\ cpu' = [cpu EXCEPT ![t] = c]
  /\ Goto(t, "flush")
  /\ UNCHANGED <<works, cwq, worker, load, wrk, at, done, owed>>

\* kthread_stop(): set the flag, wake the worker, wait for it to exit.
kthread_stop(t) ==
  /\ pc[t] = "stop"
  /\ should_stop' = [should_stop EXCEPT ![cpu[t]] = TRUE]
  /\ WakeWorker(cpu[t])
  /\ Goto(t, "stopwait")
  /\ UNCHANGED <<works, cwq, stack, env, wrk, cpu, kind, at, done, owed>>

Stopped(t) ==
  /\ pc[t] = "stopwait" /\ pc[cpu[t]] = "exit"
  /\ Return(t)
  /\ UNCHANGED <<works, cwq, worker, env, at, done, owed>>

-----------------------------------------------------------------------------
Worker(c) ==
  /\ RunsOn(c) # {}
  /\ \/ prepare_to_wait(c) \/ TestList(c) \/ StopCheck(c)
     \/ run_workqueue(c) \/ CallFunc(c) \/ FuncReturns(c) \/ FlushOwnQueue(c)

Insert(a) == SetWqData(a) \/ ListAdd(a) \/ SetWqDataUnlocked(a) \/ AddTimer(a)

Wait(t) ==
  \/ Steal(t)
  \/ /\ RunsOn(t) # {}
     /\ \/ flush_cpu_workqueue(t) \/ FlushWait(t) \/ FlushReturns(t)
        \/ DelTimer(t) \/ Grab(t) \/ GetCwq(t) \/ LockCwq(t)
        \/ wait_on_work(t) \/ wait_on_cpu_work(t) \/ WorkWait(t) \/ ClearBit(t)
        \/ kthread_stop(t) \/ Stopped(t)

Next ==
  \/ \E a \in Agent :
       Insert(a) \/ \E w \in load.works : queue_work(a, w) \/ queue_delayed_work(a, w)
  \/ \E w \in Work : delayed_work_timer_fn(w)
  \/ \E c \in CPU : Worker(c)
  \/ \E t \in Task :
       \/ flush_workqueue(t) \/ Wait(t)
       \/ \E c \in CPU : CpuDead(t, c)
       \/ \E w \in load.works, k \in CancelCalls : Cancel(t, w, k)

Spec == Init /\ [][Next]_vars

\* Everybody inside a call keeps running and work functions return; strong
\* fairness where a step needs a spinlock.  Timers expire.
Fairness ==
  /\ \A a \in Agent : SF_vars(Insert(a))
  /\ \A c \in CPU : SF_vars(Worker(c))
  /\ \A t \in Task : SF_vars(Wait(t))
  /\ \A w \in Work : WF_vars(delayed_work_timer_fn(w))

FairSpec == Spec /\ Fairness

-----------------------------------------------------------------------------
(* Properties *)

Place == {"idle", "set", "add", "setnow", "arm", "prepare", "test", "sched", "stopcheck", "exit",
          "run", "clear", "func", "end", "flush", "flushwait", "flushed", "deltimer",
          "grab", "getcwq", "lockcwq", "steal", "waiton", "waitcpu", "waitwork",
          "clearbit", "stop", "stopwait"}

TypeOK ==
  /\ pending \in [Work -> BOOLEAN] /\ data \in [Work -> CPU \cup {None}]
  /\ timer \subseteq Work
  /\ worklist \in [CPU -> Seq(Item)] /\ current_work \in [CPU -> Item \cup {None}]
  /\ lock \in [CPU -> Agent \cup {None}]
  /\ stack \in [CPU -> Seq(Item)] /\ state \in [CPU -> {"RUNNING", "INTERRUPTIBLE"}]
  /\ should_stop \in [CPU -> BOOLEAN] /\ online \subseteq CPU
  /\ pc \in [Agent -> Place] /\ wrk \in [Agent -> Work \cup {None}]
  /\ cpu \in [Agent -> CPU \cup {None}] /\ at \in [Task -> CPU \cup {None}] /\ done \in [Task -> BOOLEAN]

\* Who is responsible for the pending bit of w.
Owners(w) ==
  {a \in Agent : pc[a] \in {"set", "add", "setnow", "arm", "waiton", "waitcpu", "waitwork", "clearbit"}
                   /\ wrk[a] = w}
  \cup {<<"list", c>> : c \in {d \in CPU : w \in ToSet(worklist[d])}}
  \cup {<<"clear", c>> : c \in {d \in CPU : pc[d] = "clear" /\ Last(stack[d]) = w}}
  \cup {<<"timer", x>> : x \in timer \cap {w}}

\* WORK_STRUCT_PENDING has exactly one owner: an agent that is queueing the
\* work, the list, the timer, the worker that is about to clear it, or a
\* canceller; so a work is never in two places, nor lost with the bit set.
PendingOwned == \A w \in Work : Cardinality(Owners(w)) = IF pending[w] THEN 1 ELSE 0

\* The BUG_ON()s: run_workqueue() finds in work->data the queue it took the
\* work from; who queues or arms the work, the timer handler included, finds
\* the bit set, the work on no list and its timer not pending; and
\* try_to_grab_pending() only deletes a work from the list whose lock it holds.
NoBugOn ==
  /\ \A c \in CPU : pc[c] = "clear" /\ Last(stack[c]) \in Work => data[Last(stack[c])] = c
  /\ \A a \in Agent :
       pc[a] \in {"set", "setnow", "arm"} =>
         pending[wrk[a]] /\ ~OnList(wrk[a]) /\ wrk[a] \notin timer
  /\ \A t \in Task : pc[t] = "steal" /\ data[wrk[t]] = cpu[t] =>
                       wrk[t] \in ToSet(worklist[cpu[t]])

\* cancel_work_sync() and cancel_rearming_delayed_work() return only when the
\* work is not queued, its timer is not pending and its function runs nowhere.
Cancelled ==
  \A t \in Task :
    pc[t] = "clearbit" /\ kind[t] # "cancel_delayed_work" =>
      ~OnList(wrk[t]) /\ ~Running(wrk[t]) /\ wrk[t] \notin timer

\* flush_workqueue(): "We sleep until all works which were queued on entry
\* have been handled".
FlushComplete == \A t \in Task : pc[t] = "flushed" => owed[t] = {}

\* The worker never sleeps in front of work, or when it should stop, and one
\* that has exited leaves nothing on the queue of the dead CPU, the barriers of
\* concurrent flushes included: whatever is queued will be handled.
NoLostWakeup ==
  \A c \in CPU :
    /\ pc[c] = "sched" /\ state[c] = "INTERRUPTIBLE" => worklist[c] = <<>> /\ ~should_stop[c]
    /\ pc[c] = "exit" => worklist[c] = <<>>

\* flush_workqueue() is "not livelocked by new incoming" works, even works
\* that queue themselves again: its barriers stay in front of those.
FlushEnds == \A t \in Task : pc[t] = "flush" ~> pc[t] \in {"idle", "stop"}

\* Once it owns the pending bit a canceller returns: wait_on_work() waits for
\* at most one execution per CPU, since the work cannot be queued again.
CancelEnds == \A t \in Task : pc[t] = "waiton" ~> pc[t] = "idle"

-----------------------------------------------------------------------------
(* The inductive invariant behind the safety properties (WorkqueueProofs)   *)

InsertPlace == {"set", "add", "setnow", "arm"}
FlushPlace == {"flush", "flushwait", "flushed"}
CancelPlace == {"deltimer", "grab", "getcwq", "lockcwq", "steal", "waiton", "waitcpu", "waitwork",
                "clearbit"}
HolderPlace == InsertPlace \cup {"waiton", "waitcpu", "waitwork", "clearbit"}

\* A worker is inside a function, or at the head of its loops.
WorkerInv ==
  \A c \in CPU :
    /\ pc[c] \in InsertPlace \cup {"prepare", "test", "sched", "stopcheck", "exit", "run", "clear",
                                   "func", "end"}
    /\ stack[c] # <<>> <=> pc[c] \in InsertPlace \cup {"clear", "func", "end"}
    /\ stack[c] = <<>> => current_work[c] = None

\* A task is in one call at a time, and at a queue where the call needs one.
TaskInv ==
  /\ kind \in [Task -> Calls \cup {"none", "flush", "cleanup"}]
  /\ \A t \in Task :
       /\ pc[t] \in InsertPlace \cup FlushPlace \cup CancelPlace \cup {"idle", "stop", "stopwait"}
       /\ pc[t] \in FlushPlace => kind[t] \in {"flush", "cleanup"}
       /\ pc[t] \in {"stop", "stopwait"} => kind[t] = "cleanup"
       /\ pc[t] \in CancelPlace => kind[t] \in CancelCalls
       /\ pc[t] \in FlushPlace \cup {"stop", "stopwait", "lockcwq", "steal", "waitcpu", "waitwork"} =>
            cpu[t] \in CPU
       /\ pc[t] = "steal" => at[t] \in online

\* Who queues or cancels has a work; works are queued on CPUs that are up; a
\* lock that is held from one step to the next has its holder.
AgentInv ==
  /\ load.works \subseteq Work
  /\ \A w \in Work : pc[w] \in {"idle", "set", "add"}
  /\ \A a \in Agent : /\ pc[a] \in InsertPlace \cup CancelPlace => wrk[a] \in Work
                      /\ pc[a] \in {"set", "add"} => cpu[a] \in online
                      /\ pc[a] \in {"add", "steal"} => lock[cpu[a]] = a

\* run_workqueue() is not nested: a second CPU, or a bound of 1, excludes it.
Flat == MaxDepth = 1 \/ NCPU > 1

\* current_work is what the worker is in.
CurrentInv ==
  Flat => \A c \in CPU : stack[c] # <<>> => Len(stack[c]) = 1 /\ current_work[c] = stack[c][1]

\* An item in a list; one that is in it once at most; one in front of another.
In(x, s) == \E m \in 1..Len(s) : s[m] = x
Once(x, s) == \A m, n \in 1..Len(s) : s[m] = x /\ s[n] = x => m = n
Ahead(x, y, s) == \E m, n \in 1..Len(s) : m < n /\ s[m] = x /\ s[n] = y

Listed(c, i) == In(i, worklist[c])
Clearing(c, i) == pc[c] = "clear" /\ Last(stack[c]) = i

\* A barrier is in one place, in the queue that its task waits at.
BarrierInv ==
  \A t \in Task, c \in CPU :
    /\ Once(t, worklist[c]) /\ ~(Listed(c, t) /\ Clearing(c, t))
    /\ Listed(c, t) \/ Clearing(c, t) =>
         pc[t] \in {"flushwait", "waitwork"} /\ cpu[t] = c /\ ~done[t]

\* A queue that nothing is added to any more, but for the barriers of those
\* who find the worker busy.
Drained(c) == c \notin online /\ (current_work[c] = None => worklist[c] = <<>>)

\* The worker sleeps in front of an empty list, and stops on a drained queue.
WakeInv ==
  \A c \in CPU :
    /\ pc[c] = "sched" /\ state[c] = "INTERRUPTIBLE" => worklist[c] = <<>> /\ ~should_stop[c]
    /\ should_stop[c] => Drained(c)
    /\ pc[c] = "exit" => should_stop[c]

\* A CPU that went down is drained by the time its worker is told to stop.
CleanupInv ==
  /\ online # CPU => NCPU > 1
  /\ \A t \in Task :
       kind[t] = "cleanup" =>
         /\ pc[t] \in FlushPlace \cup {"stop", "stopwait"} /\ cpu[t] \notin online
         /\ pc[t] \notin {"flush", "flushwait"} \/ (pc[t] = "flushwait" /\ done[t]) => Drained(cpu[t])

SleepInv == WakeInv /\ CleanupInv

\* What is owed are works, queued or running somewhere.
OwedOK == owed \in [Task -> SUBSET (Work \X CPU \X {"queued", "running"})]

\* What is owed to a flusher is where the history says, on a queue it has
\* not passed yet, and in front of its barrier.
OwedInv(t) ==
  /\ owed[t] # {} => kind[t] = "flush" /\ pc[t] \in {"flush", "flushwait"}
  /\ \A w \in Work, c \in CPU :
       /\ <<w, c, "queued">> \in owed[t] =>
            /\ Listed(c, w) /\ cpu[t] <= c
            /\ pc[t] = "flushwait" /\ c = cpu[t] => Ahead(w, t, worklist[c])
       /\ <<w, c, "running">> \in owed[t] =>
            /\ In(w, stack[c]) /\ cpu[t] <= c
            /\ pc[t] = "flushwait" /\ c = cpu[t] => Listed(c, t)
FlushInv == Flat => \A t \in Task : OwedInv(t)

\* The places of the pending bit, see Owners.
Holds(a, w) == pc[a] \in HolderPlace /\ wrk[a] = w
TwoCpus == NCPU <= 2

\* WORK_STRUCT_PENDING has one owner at most, and is clear if it has none.
OneOwner(w) ==
  /\ pending[w] <=> \/ \E a \in Agent : Holds(a, w)
                    \/ \E c \in CPU : Listed(c, w) \/ Clearing(c, w)
                    \/ w \in timer
  /\ \A a, b \in Agent : Holds(a, w) /\ Holds(b, w) => a = b
  /\ \A a \in Agent : Holds(a, w) => w \notin timer /\ \A c \in CPU : ~Listed(c, w) /\ ~Clearing(c, w)
  /\ \A c \in CPU : Listed(c, w) \/ Clearing(c, w) => w \notin timer
  /\ \A c, d \in CPU : /\ Listed(c, w) => ~Clearing(d, w)
                       /\ Listed(c, w) /\ Listed(d, w) => c = d
                       /\ Clearing(c, w) /\ Clearing(d, w) => c = d
  /\ \A c \in CPU : Once(w, worklist[c])
OwnerInv == TwoCpus => \A w \in Work : OneOwner(w)

\* work->data is the queue that the work is on, or is about to be put on.
OwnData(w) ==
  /\ \A c \in CPU : Listed(c, w) \/ Clearing(c, w) => data[w] = c
  /\ \A a \in Agent : pc[a] = "add" /\ wrk[a] = w => data[w] = cpu[a]
  /\ data[w] = None => \A c \in CPU : ~In(w, stack[c])
DataInv == TwoCpus => \A w \in Work : OwnData(w)

\* u waits for w and needs the lock of queue k before it lets go of it.
Before(u, w, k) ==
  /\ pc[u] \in {"waiton", "waitcpu", "waitwork"} /\ wrk[u] = w
  /\ pc[u] = "waitcpu" => cpu[u] <= k
  /\ pc[u] = "waitwork" => cpu[u] < k

\* try_to_grab_pending() with the lock of queue k: a work that is on no list
\* any more cannot get k into work->data before the lock is dropped, because
\* with two CPUs whoever could put it there does not run.
Guarded(t, w, k) ==
  \E c \in CPU :
    /\ data[w] = c
    /\ Listed(c, w) \/ (c # k /\ (at[t] = k \/ \E u \in Task : Before(u, w, k)))
StealInv ==
  TwoCpus => \A t \in Task, w \in Work, k \in CPU :
    pc[t] = "steal" /\ wrk[t] = w /\ cpu[t] = k => Guarded(t, w, k)

\* The queues that a canceller has passed do not run the work again.
Passed(t, c) ==
  \/ pc[t] \in {"waitcpu", "waitwork"} /\ c < cpu[t]
  \/ pc[t] = "waitwork" /\ c = cpu[t] /\ done[t]
  \/ pc[t] = "clearbit" /\ kind[t] # "cancel_delayed_work"
PassedInv ==
  TwoCpus /\ Flat => \A t \in Task, c \in CPU :
    Passed(t, c) => ~In(wrk[t], stack[c])

IInv ==
  /\ TypeOK /\ WorkerInv /\ TaskInv /\ AgentInv /\ OwedOK /\ CurrentInv /\ BarrierInv
  /\ SleepInv /\ FlushInv /\ OwnerInv /\ DataInv /\ StealInv /\ PassedInv
=============================================================================
