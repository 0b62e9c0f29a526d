-------------------------------- MODULE Rcu --------------------------------
(***************************************************************************)
(* Classic RCU of kernel/rcupdate.c: per-CPU callback lists, one global    *)
(* control block, and grace periods that end when every CPU has reported a *)
(* quiescent state.  rcu and rcu_bh run the same code on separate data;    *)
(* this is one of them.                                                    *)
(*                                                                         *)
(* rcp->lock makes its critical sections atomic, except that rcp->cur and  *)
(* rcp->next_pending are also read without it: rcu_start_batch() stores    *)
(* them in an order its comments insist on, so those stores are steps.     *)
(*                                                                         *)
(* On one CPU an interrupt may nest on the RCU tasklet, and the tasklet on *)
(* a task that is inside a read-side critical section.                     *)
(***************************************************************************)
EXTENDS Integers, Sequences, SequencesExt, FiniteSets

CONSTANTS
  CPU,         \* the processors
  NoCPU,       \* nobody holds rcp->lock
  Callback,    \* rcu_heads; each is handed to call_rcu() at most once
  Limit,       \* blimit: callbacks invoked per rcu_do_batch()
  qhimark,     \* more queued callbacks than this lift the limit
  qlowmark,    \* this few bring it back
  Workload     \* what the rest of the kernel may do, see work below

ASSUME RcuAssumption ==
  /\ NoCPU \notin CPU /\ IsFiniteSet(CPU) /\ CPU # {} /\ Callback \cap CPU = {}
  /\ Limit \in Nat \ {0} /\ qhimark \in Nat /\ qlowmark \in Nat
  /\ Workload \subseteq [reads : SUBSET {"task", "irq"}, calls : Nat,
                         barrier : BOOLEAN, downs : Nat]

VARIABLES
  work,          \* the contexts that readers run in, the number of call_rcu()s,
                 \* whether rcu_barrier() is called, how often a CPU goes down
  cur, completed, next_pending, cpumask,         \* struct rcu_ctrlblk
  lock,                                          \* holder of rcp->lock
  quiescbatch, passed_quiesc, qs_pending, batch, \* struct rcu_data
  nxtlist, curlist, donelist, qlen, blimit,      \* struct rcu_data
  sched,         \* rcu_tasklet is scheduled on the CPU
  pc, ret,       \* where the CPU's tasklet is, and where the locked part returns
  online,        \* cpu_online_map
  active,        \* read-side critical sections running on each CPU
  hp, downs,     \* the CPU being taken down, how far, by whom; how many so far
  bar, barcount, \* rcu_barrier(): its stage and completion; rcu_barrier_cpu_count
  called,        \* callbacks handed to call_rcu() so far
  invoked,       \* callbacks whose function has been called
  waits,         \* readers a callback has to wait for
  barwait        \* callbacks that rcu_barrier() has to wait for

rcp == <<cur, completed, next_pending, cpumask, lock>>
qs == <<quiescbatch, passed_quiesc, qs_pending>>
lists == <<batch, nxtlist, curlist, donelist, qlen, blimit>>
cpus == <<online, hp, downs, work>>
barrier == <<bar, barcount>>
ghost == <<called, invoked, waits, barwait>>
vars == <<rcp, qs, lists, sched, pc, ret, cpus, active, barrier, ghost>>

\* A CPU's rdp->barrier stands in the lists as the CPU itself.
RcuHead == Callback \cup CPU
INT_MAX == 1000
Context == {"task", "irq"}
Reader == CPU \X Context
AllReaders == {r \in Reader : r[2] \in active[r[1]]}

rcu_batch_before(a, b) == a - b < 0

Init ==
  /\ work \in Workload
  /\ cur = 0 /\ completed = 0 /\ next_pending = FALSE /\ cpumask = {} /\ lock = NoCPU
  /\ quiescbatch = [c \in CPU |-> 0]
  /\ passed_quiesc = [c \in CPU |-> FALSE]
  /\ qs_pending = [c \in CPU |-> FALSE]
  /\ batch = [c \in CPU |-> 0]
  /\ nxtlist = [c \in CPU |-> <<>>]
  /\ curlist = [c \in CPU |-> <<>>]
  /\ donelist = [c \in CPU |-> <<>>]
  /\ qlen = [c \in CPU |-> 0]
  /\ blimit = [c \in CPU |-> Limit]
  /\ sched = [c \in CPU |-> FALSE]
  /\ pc = [c \in CPU |-> "idle"]
  /\ ret = [c \in CPU |-> "check"]
  /\ online = CPU
  /\ active = [c \in CPU |-> {}]
  /\ hp = [stage |-> "none", cpu |-> NoCPU, this |-> NoCPU] /\ downs = 0
  /\ bar = [stage |-> "off", cpu |-> NoCPU, todo |-> {}, done |-> FALSE] /\ barcount = 0
  /\ called = {} /\ invoked = {} /\ waits = [f \in Callback |-> {}] /\ barwait = {}

-----------------------------------------------------------------------------
(* Readers and callers *)

Queued(h) ==
  \E c \in CPU : h \in ToSet(nxtlist[c]) \cup ToSet(curlist[c]) \cup ToSet(donelist[c])

\* Code in context x runs on c: no context nested on top of it is running.
Running(c, x) ==
  /\ c \in online
  /\ x = "task" => pc[c] = "idle" /\ "irq" \notin active[c]
  /\ x = "tasklet" => "irq" \notin active[c]

rcu_read_lock(c, x) ==
  /\ Running(c, x) /\ x \notin active[c]
  /\ active' = [active EXCEPT ![c] = @ \cup {x}]
  /\ UNCHANGED <<rcp, qs, lists, sched, pc, ret, cpus, barrier, ghost>>

Finish(c, x) ==
  /\ active' = [active EXCEPT ![c] = @ \ {x}]
  /\ waits' = [f \in Callback |-> waits[f] \ {<<c, x>>}]

\* The task on c is in the preemption-disabled part of rcu_barrier() or of
\* rcu_offline_cpu(), which ends that section itself.
Pinned(c) ==
  \/ bar.stage = "ipi" /\ bar.cpu = c
  \/ hp.stage \in {"curlist", "nxtlist", "donelist"} /\ hp.this = c

rcu_read_unlock(c, x) ==
  /\ Running(c, x) /\ x \in active[c]
  /\ ~(x = "task" /\ Pinned(c))
  /\ Finish(c, x)
  /\ UNCHANGED <<rcp, qs, lists, sched, pc, ret, cpus, barrier, called, invoked, barwait>>

\* Mutation: the limit is raised to the length of the queue only.
RaisedLimitSoft(c) == IF qlen[c] + 1 > qhimark THEN qlen[c] + 1 ELSE blimit[c]

RaisedLimit(c) == IF qlen[c] + 1 > qhimark THEN INT_MAX ELSE blimit[c]

\* The list and counter part of call_rcu() on CPU c.
Enqueue(c, h) ==
  /\ nxtlist' = [nxtlist EXCEPT ![c] = Append(@, h)]
  /\ qlen' = [qlen EXCEPT ![c] = @ + 1]
  /\ blimit' = [blimit EXCEPT ![c] = RaisedLimit(c)]
  /\ UNCHANGED <<batch, curlist, donelist>>

call_rcu(c, f) ==
  /\ c \in online
  /\ f \notin called /\ Cardinality(called) < work.calls
  /\ Enqueue(c, f)
  /\ called' = called \cup {f}
  /\ waits' = [waits EXCEPT ![f] = AllReaders]
  /\ UNCHANGED <<rcp, qs, sched, pc, ret, cpus, active, barrier, invoked, barwait>>

-----------------------------------------------------------------------------
(* Quiescent states and the timer tick *)

\* schedule(): rcu_qsctr_inc().
ContextSwitch(c) ==
  /\ Running(c, "task") /\ active[c] = {} /\ ~passed_quiesc[c]
  /\ passed_quiesc' = [passed_quiesc EXCEPT ![c] = TRUE]
  /\ UNCHANGED <<rcp, quiescbatch, qs_pending, lists, sched, pc, ret, cpus, active,
                 barrier, ghost>>

\* Mutation: callbacks that wait in nxtlist do not count as work.
RcuPendingNoNext(c) ==
  \/ curlist[c] # <<>> /\ ~rcu_batch_before(completed, batch[c])
  \/ donelist[c] # <<>>
  \/ quiescbatch[c] # cur \/ qs_pending[c]

rcu_pending(c) ==
  \/ curlist[c] # <<>> /\ ~rcu_batch_before(completed, batch[c])
  \/ curlist[c] = <<>> /\ nxtlist[c] # <<>>
  \/ donelist[c] # <<>>
  \/ quiescbatch[c] # cur \/ qs_pending[c]

\* update_process_times(): a tick that interrupts user mode or the idle loop
\* finds no kernel code running below it.
rcu_check_callbacks(c) ==
  /\ c \in online /\ "irq" \notin active[c]
  /\ rcu_pending(c)
  /\ \/ passed_quiesc' = passed_quiesc
     \/ /\ pc[c] = "idle" /\ active[c] = {}
        /\ passed_quiesc' = [passed_quiesc EXCEPT ![c] = TRUE]
  /\ sched' = [sched EXCEPT ![c] = TRUE]
  /\ UNCHANGED <<rcp, quiescbatch, qs_pending, lists, pc, ret, cpus, active, barrier,
                 ghost>>

-----------------------------------------------------------------------------
(* __rcu_process_callbacks() *)

At(c, where) == Running(c, "tasklet") /\ pc[c] = where
Goto(c, where) == pc' = [pc EXCEPT ![c] = where]

\* Softirq processing runs the tasklet.  If the grace period of curlist is
\* over, it moves to donelist; only this CPU touches either.
Advance(c) ==
  /\ At(c, "idle") /\ sched[c]
  /\ sched' = [sched EXCEPT ![c] = FALSE]
  /\ IF curlist[c] # <<>> /\ ~rcu_batch_before(completed, batch[c])
       THEN /\ donelist' = [donelist EXCEPT ![c] = @ \o curlist[c]]
            /\ curlist' = [curlist EXCEPT ![c] = <<>>]
       ELSE UNCHANGED <<donelist, curlist>>
  /\ Goto(c, "next")
  /\ UNCHANGED <<rcp, qs, batch, nxtlist, qlen, blimit, ret, cpus, active, barrier, ghost>>

\* Mutation: curlist need not be empty.
MayTakeOver(c) == nxtlist[c] # <<>>

MayTake(c) == nxtlist[c] # <<>> /\ curlist[c] = <<>>

\* Move nxtlist to curlist, with interrupts off.
TakeNext(c) ==
  /\ At(c, "next")
  /\ IF MayTake(c)
       THEN /\ curlist' = [curlist EXCEPT ![c] = nxtlist[c]]
            /\ nxtlist' = [nxtlist EXCEPT ![c] = <<>>]
            /\ Goto(c, "number")
       ELSE UNCHANGED <<curlist, nxtlist>> /\ Goto(c, "check")
  /\ UNCHANGED <<rcp, qs, batch, donelist, qlen, blimit, sched, ret, cpus, active,
                 barrier, ghost>>

\* Read rcp->cur, without rcp->lock, for the number of the new batch.
NumberBatch(c) ==
  /\ At(c, "number")
  /\ batch' = [batch EXCEPT ![c] = cur + 1]
  /\ Goto(c, "pending")
  /\ UNCHANGED <<rcp, qs, nxtlist, curlist, donelist, qlen, blimit, sched, ret, cpus,
                 active, barrier, ghost>>

\* Mutation: the next batch is asked for only if no grace period is running.
MustAskIdle == ~next_pending /\ cur = completed

MustAsk == ~next_pending

\* Read rcp->next_pending, without rcp->lock.
ReadPending(c) ==
  /\ At(c, "pending")
  /\ Goto(c, IF MustAsk THEN "setpending" ELSE "check")
  /\ UNCHANGED <<rcp, qs, lists, sched, ret, cpus, active, barrier, ghost>>

SetPending(c) ==
  /\ At(c, "setpending") /\ lock = NoCPU
  /\ lock' = c /\ next_pending' = TRUE
  /\ Goto(c, "startbatch") /\ ret' = [ret EXCEPT ![c] = "check"]
  /\ UNCHANGED <<cur, completed, cpumask, qs, lists, sched, cpus, active, barrier,
                 ghost>>

\* Mutation: a batch is started while another one runs.
MayStartEarly == next_pending

MayStart == next_pending /\ completed = cur

\* rcu_start_batch(), first store.
StartBatch(c) ==
  /\ At(c, "startbatch")
  /\ IF MayStart
       THEN next_pending' = FALSE /\ Goto(c, "incr") /\ UNCHANGED lock
       ELSE Goto(c, ret[c]) /\ lock' = NoCPU /\ UNCHANGED next_pending
  /\ UNCHANGED <<cur, completed, cpumask, qs, lists, sched, ret, cpus, active, barrier,
                 ghost>>

\* rcu_start_batch(): rcp->cur++, then the CPUs to wait for; unlock.
IncrCur(c) ==
  /\ At(c, "incr")
  /\ cur' = cur + 1 /\ cpumask' = online /\ lock' = NoCPU
  /\ Goto(c, ret[c])
  /\ UNCHANGED <<completed, next_pending, qs, lists, sched, ret, cpus, active, barrier,
                 ghost>>

\* Mutation: a quiescent state from before the grace period counts.
KeepQuiet(c) == passed_quiesc' = passed_quiesc

ForgetQuiet(c) == passed_quiesc' = [passed_quiesc EXCEPT ![c] = FALSE]

\* rcu_check_quiescent_state(), up to spin_lock(); it reads rcp->cur twice.
CheckQuiescent(c) ==
  /\ At(c, "check")
  /\ IF quiescbatch[c] # cur
       THEN /\ qs_pending' = [qs_pending EXCEPT ![c] = TRUE]
            /\ ForgetQuiet(c) /\ Goto(c, "note")
       ELSE /\ UNCHANGED passed_quiesc
            /\ IF qs_pending[c] /\ passed_quiesc[c]
                 THEN qs_pending' = [qs_pending EXCEPT ![c] = FALSE] /\ Goto(c, "quiet")
                 ELSE UNCHANGED qs_pending /\ Goto(c, "invoke")
  /\ UNCHANGED <<rcp, quiescbatch, lists, sched, ret, cpus, active, barrier, ghost>>

NoteBatch(c) ==
  /\ At(c, "note")
  /\ quiescbatch' = [quiescbatch EXCEPT ![c] = cur]
  /\ Goto(c, "invoke")
  /\ UNCHANGED <<rcp, passed_quiesc, qs_pending, lists, sched, ret, cpus, active,
                 barrier, ghost>>

\* cpu_quiet() without its rcu_start_batch().
ClearMask(c) ==
  /\ cpumask' = cpumask \ {c}
  /\ completed' = IF cpumask' = {} THEN cur ELSE completed

\* The locked part of rcu_check_quiescent_state().
ReportQuiet(c) ==
  /\ At(c, "quiet") /\ lock = NoCPU
  /\ IF quiescbatch[c] = cur
       THEN /\ ClearMask(c)
            /\ IF cpumask' = {} THEN lock' = c /\ Goto(c, "startbatch")
                                ELSE lock' = lock /\ Goto(c, "invoke")
       ELSE UNCHANGED <<cpumask, completed, lock>> /\ Goto(c, "invoke")
  /\ ret' = [ret EXCEPT ![c] = "invoke"]
  /\ UNCHANGED <<cur, next_pending, qs, lists, sched, cpus, active, barrier, ghost>>

Min2(a, b) == IF a < b THEN a ELSE b

\* Mutation: qlen goes down by one, whatever has been invoked.
QlenAfterOne(c, n) == IF n > 0 THEN qlen[c] - 1 ELSE qlen[c]

QlenAfter(c, n) == qlen[c] - n

\* rcu_do_batch(): call up to blimit functions; rcu_barrier_callback() counts.
rcu_do_batch(c) ==
  LET n == Min2(blimit[c], Len(donelist[c]))
      batched == ToSet(SubSeq(donelist[c], 1, n))
      left == SubSeq(donelist[c], n + 1, Len(donelist[c]))
  IN /\ At(c, "invoke")
     /\ donelist' = [donelist EXCEPT ![c] = left]
     /\ qlen' = [qlen EXCEPT ![c] = QlenAfter(c, n)]
     /\ blimit' = [blimit EXCEPT ![c] =
                     IF donelist[c] # <<>> /\ @ = INT_MAX /\ qlen[c] - n <= qlowmark
                       THEN Limit ELSE @]
     /\ sched' = IF left # <<>> THEN [sched EXCEPT ![c] = TRUE] ELSE sched
     /\ invoked' = invoked \cup (batched \cap Callback)
     /\ barwait' = barwait \ batched
     /\ barcount' = barcount - Cardinality(batched \cap CPU)
     /\ bar' = [bar EXCEPT !.done = @ \/ (batched \cap CPU # {} /\ barcount' = 0)]
     /\ Goto(c, "idle")
     /\ UNCHANGED <<rcp, qs, batch, nxtlist, curlist, ret, cpus, active, called, waits>>

-----------------------------------------------------------------------------
(* rcu_barrier(): on_each_cpu() keeps preemption off on the calling CPU      *)

\* Mutation: on_each_cpu() leaves preemption on.
PreemptLeftOn(c) == active' = active

PreemptOff(c) == active' = [active EXCEPT ![c] = {"task"}]

rcu_barrier(c) ==
  /\ work.barrier /\ bar.stage = "off"
  /\ Running(c, "task") /\ active[c] = {}
  /\ bar' = [stage |-> "ipi", cpu |-> c, todo |-> online, done |-> FALSE]
  /\ barcount' = 0
  /\ PreemptOff(c)
  /\ barwait' = {f \in Callback : Queued(f)}
  /\ UNCHANGED <<rcp, qs, lists, sched, pc, ret, cpus, called, invoked, waits>>

\* rcu_barrier_func(): by IPI on the other CPUs, on the calling CPU last.
rcu_barrier_func(c) ==
  /\ bar.stage = "ipi" /\ c \in bar.todo
  /\ IF c = bar.cpu THEN Running(c, "task") /\ bar.todo = {c}
                    ELSE "irq" \notin active[c]
  /\ Enqueue(c, c)
  /\ barcount' = barcount + 1
  /\ bar' = [bar EXCEPT !.todo = @ \ {c}]
  /\ UNCHANGED <<rcp, qs, sched, pc, ret, cpus, active, ghost>>

\* preempt_enable() at the end of on_each_cpu().
BarrierWait(c) ==
  /\ bar.stage = "ipi" /\ bar.todo = {} /\ c = bar.cpu /\ Running(c, "task")
  /\ bar' = [bar EXCEPT !.stage = "wait"]
  /\ Finish(c, "task")
  /\ UNCHANGED <<rcp, qs, lists, sched, pc, ret, cpus, barcount, called, invoked, barwait>>

\* wait_for_completion() returns.
BarrierReturn ==
  /\ bar.stage = "wait" /\ bar.done
  /\ bar' = [bar EXCEPT !.stage = "returned"]
  /\ UNCHANGED <<rcp, qs, lists, sched, pc, ret, cpus, active, barcount, ghost>>

-----------------------------------------------------------------------------
(* CPU hotplug *)

\* stop_machine_run() takes c out of cpu_online_map while no other CPU runs
\* anything that disables preemption.
CpuDie(c) ==
  /\ hp.stage = "none" /\ downs < work.downs
  /\ c \in online /\ online # {c}
  /\ \A d \in online : pc[d] = "idle" /\ active[d] = {}
  /\ online' = online \ {c}
  /\ \E d \in online' : hp' = [stage |-> "dying", cpu |-> c, this |-> d]
  /\ downs' = downs + 1
  /\ passed_quiesc' = [d \in CPU |-> d \in online \/ passed_quiesc[d]]
  /\ UNCHANGED <<rcp, quiescbatch, qs_pending, lists, sched, pc, ret, work, active, barrier,
                 ghost>>

\* Mutation: the dead CPU stays in cpumask.
DeadNotQuiet == UNCHANGED <<cpumask, completed>>

DeadQuiet == IF cur # completed THEN ClearMask(hp.cpu) ELSE UNCHANGED <<cpumask, completed>>

\* CPU_DEAD: __rcu_offline_cpu() ends the grace period if c held it up, with
\* get_cpu_var() keeping preemption off on hp.this and spin_lock_bh() its
\* tasklet, whose place the rcu_start_batch() of cpu_quiet() takes.
OfflineQuiet ==
  /\ hp.stage = "dying" /\ Running(hp.this, "task") /\ active[hp.this] = {}
  /\ lock = NoCPU
  /\ DeadQuiet
  /\ IF cur # completed /\ cpumask' = {}
       THEN /\ lock' = hp.this
            /\ Goto(hp.this, "startbatch") /\ ret' = [ret EXCEPT ![hp.this] = "idle"]
       ELSE UNCHANGED <<lock, pc, ret>>
  /\ hp' = [hp EXCEPT !.stage = "curlist"]
  /\ PreemptOff(hp.this)
  /\ UNCHANGED <<cur, next_pending, qs, lists, sched, online, downs, work, barrier, ghost>>

\* rcu_move_batch(): qlen does not move with the list.  Nobody reads the dead
\* CPU's lists until CPU_UP_PREPARE clears them; here they are empty at once.
Move(list) == nxtlist' = [nxtlist EXCEPT ![hp.this] = @ \o list[hp.cpu],
                                         ![hp.cpu] = IF hp.stage = "nxtlist" THEN <<>> ELSE @]

OfflineMove ==
  /\ hp.stage \in {"curlist", "nxtlist", "donelist"} /\ Running(hp.this, "task")
  /\ \/ /\ hp.stage = "curlist" /\ Move(curlist)
        /\ curlist' = [curlist EXCEPT ![hp.cpu] = <<>>] /\ UNCHANGED donelist
        /\ hp' = [hp EXCEPT !.stage = "nxtlist"]
        /\ UNCHANGED <<active, waits, sched>>
     \/ /\ hp.stage = "nxtlist" /\ Move(nxtlist)
        /\ hp' = [hp EXCEPT !.stage = "donelist"]
        /\ UNCHANGED <<curlist, donelist, active, waits, sched>>
     \/ /\ hp.stage = "donelist" /\ Move(donelist)
        /\ donelist' = [donelist EXCEPT ![hp.cpu] = <<>>] /\ UNCHANGED curlist
        /\ hp' = [stage |-> "none", cpu |-> NoCPU, this |-> NoCPU]
        /\ Finish(hp.this, "task")
        /\ sched' = [sched EXCEPT ![hp.cpu] = FALSE]
  /\ UNCHANGED <<rcp, qs, batch, qlen, blimit, pc, ret, online, downs, work, barrier,
                 called, invoked, barwait>>

\* The lists of CPU d once c's rdp->barrier is cleared while it is queued: the
\* list ends there, at a head that has no function to call.
Cut(list, c) ==
  [d \in CPU |-> IF d = c THEN <<>>
                ELSE LET at == {i \in 1..Len(list[d]) : list[d][i] = c}
                     IN  IF at = {} THEN list[d] ELSE SubSeq(list[d], 1, Min(at) - 1)]

\* CPU_UP_PREPARE: rcu_init_percpu_data() clears all of rcu_data, rdp->barrier
\* included; then the CPU comes online.
CpuUp(c) ==
  /\ hp.stage = "none" /\ c \notin online
  /\ online' = online \cup {c}
  /\ quiescbatch' = [quiescbatch EXCEPT ![c] = completed]
  /\ passed_quiesc' = [passed_quiesc EXCEPT ![c] = FALSE]
  /\ qs_pending' = [qs_pending EXCEPT ![c] = FALSE]
  /\ batch' = [batch EXCEPT ![c] = 0]
  /\ nxtlist' = Cut(nxtlist, c)
  /\ curlist' = Cut(curlist, c)
  /\ donelist' = Cut(donelist, c)
  /\ qlen' = [qlen EXCEPT ![c] = 0]
  /\ blimit' = [blimit EXCEPT ![c] = Limit]
  /\ UNCHANGED <<rcp, sched, pc, ret, hp, downs, work, active, barrier, ghost>>

-----------------------------------------------------------------------------
Tasklet(c) ==
  \/ Advance(c) \/ TakeNext(c) \/ NumberBatch(c) \/ ReadPending(c)
  \/ SetPending(c) \/ StartBatch(c) \/ IncrCur(c) \/ CheckQuiescent(c) \/ NoteBatch(c) \/ ReportQuiet(c)
  \/ rcu_do_batch(c)

Hotplug == OfflineQuiet \/ OfflineMove \/ \E c \in CPU : CpuDie(c) \/ CpuUp(c)

Barrier ==
  BarrierReturn \/ \E c \in CPU : rcu_barrier(c) \/ rcu_barrier_func(c) \/ BarrierWait(c)

Next ==
  \/ \E c \in CPU :
       \/ \E x \in work.reads : rcu_read_lock(c, x) \/ rcu_read_unlock(c, x)
       \/ \E f \in Callback : call_rcu(c, f)
       \/ ContextSwitch(c) \/ rcu_check_callbacks(c) \/ Tasklet(c)
  \/ Barrier \/ Hotplug

Spec == Init /\ [][Next]_vars

\* Read-side sections end, every CPU keeps taking timer ticks and switching
\* context, softirqs run.  The tasklet interrupts tasks again and again, hence strong fairness for what tasks do.
Fairness ==
  \A c \in CPU :
    /\ \A x \in Context : SF_vars(rcu_read_unlock(c, x))
    /\ SF_vars(ContextSwitch(c))
    /\ WF_vars(rcu_check_callbacks(c)) /\ WF_vars(Tasklet(c))

FairSpec == Spec /\ Fairness

-----------------------------------------------------------------------------
(* Properties *)

All(c) == nxtlist[c] \o curlist[c] \o donelist[c]

TypeOK ==
  /\ cur \in Int /\ completed \in Int /\ next_pending \in BOOLEAN
  /\ cpumask \subseteq CPU /\ lock \in CPU \cup {NoCPU} /\ online \subseteq CPU
  /\ quiescbatch \in [CPU -> Int] /\ batch \in [CPU -> Int]
  /\ passed_quiesc \in [CPU -> BOOLEAN] /\ qs_pending \in [CPU -> BOOLEAN]
  /\ nxtlist \in [CPU -> Seq(RcuHead)] /\ curlist \in [CPU -> Seq(RcuHead)]
  /\ donelist \in [CPU -> Seq(RcuHead)]
  /\ qlen \in [CPU -> Int] /\ blimit \in [CPU -> {Limit, INT_MAX}]
  /\ active \in [CPU -> SUBSET Context]
  /\ invoked \subseteq called /\ called \subseteq Callback
  /\ waits \in [Callback -> SUBSET Reader]

\* The grace-period guarantee of call_rcu(): its function is invoked "after
\* all currently executing RCU read-side critical sections have completed".
GracePeriod == \A f \in invoked : waits[f] = {}

\* No callback is lost or queued twice on its way through the lists, across
\* CPUs that go down: queued once or invoked, and never both.
NoneLost ==
  \A f \in Callback :
    LET places == UNION {{c} \X {i \in 1..Len(All(c)) : All(c)[i] = f} : c \in CPU}
    IN  Cardinality(places) = IF f \in called \ invoked THEN 1 ELSE 0

\* The batch numbers in use stay close together, so rcu_batch_before()'s
\* signed difference never wraps: a waiting batch is the running one, one of
\* its two neighbours, or the one that has just completed.
BatchWindow ==
  /\ cur - completed \in {0, 1}
  /\ \A c \in online : curlist[c] # <<>> /\ pc[c] # "number" =>
                         batch[c] - completed \in -1..2

\* A batch that has a number but has not started yet will be started:
\* next_pending is set and somebody will look at it (cpu_quiet() at the end
\* of the running grace period, or a rcu_start_batch() under way), or
\* somebody is about to set it or to start the batch.
BatchWillStart ==
  \A c \in online :
    curlist[c] # <<>> /\ (batch[c] > cur \/ pc[c] = "number") =>
      \/ next_pending /\ (cur # completed \/ \E d \in CPU : pc[d] = "startbatch")
      \/ pc[c] \in {"number", "pending", "setpending"}
      \/ \E d \in CPU : pc[d] = "incr"

\* A running grace period waits for somebody, and every CPU it waits for
\* still has its report to make: it has not noticed the grace period, has
\* yet to pass a quiescent state, or is on its way to rcp->lock; or it is
\* the dead CPU that rcu_offline_cpu() is about to take out.
NoForgottenCpu ==
  /\ cur # completed => cpumask # {}
  /\ \A c \in cpumask :
       \/ c \in online /\ (quiescbatch[c] # cur \/ qs_pending[c] \/ pc[c] = "quiet")
       \/ c = hp.cpu

\* rcu_barrier() waits for every callback queued before it was called.
BarrierComplete == bar.stage = "returned" => barwait = {}

\* rdp->qlen is what struct rcu_data says it is, the "# of queued callbacks".
QlenExact ==
  work.downs = 0 => \A c \in online : qlen[c] = Len(All(c))

\* Every callback handed to call_rcu() is invoked in the end.
AllInvoked == \A f \in Callback : f \in called ~> f \in invoked
-----------------------------------------------------------------------------
(* The inductive invariant behind the safety properties (RcuProofs)         *)

TaskletPc == {"idle", "next", "number", "pending", "setpending", "startbatch", "incr",
              "check", "note", "quiet", "invoke"}
HpStage == {"none", "dying", "curlist", "nxtlist", "donelist"}

ControlOK ==
  /\ TypeOK /\ work \in Workload /\ downs \in Nat
  /\ pc \in [CPU -> TaskletPc] /\ ret \in [CPU -> {"check", "invoke", "idle"}]
  /\ hp \in [stage : HpStage, cpu : CPU \cup {NoCPU}, this : CPU \cup {NoCPU}]

\* A CPU that is not online runs nothing; the one that is going down is out of
\* cpumask once cpu_quiet() has been called for it.
OfflineInv ==
  /\ \A c \in CPU \ online : pc[c] = "idle" /\ active[c] = {}
  /\ hp.stage = "none" => hp.cpu = NoCPU
  /\ hp.stage # "none" => hp.cpu \in CPU \ online
  /\ hp.stage \in {"curlist", "nxtlist", "donelist"} => hp.cpu \notin cpumask
  /\ work.downs = 0 => hp.stage = "none" /\ online = CPU

\* rcu_start_batch() runs with rcp->lock held, and between its stores no grace
\* period is running.
LockInv ==
  \A c \in CPU : /\ pc[c] \in {"startbatch", "incr"} => lock = c
                 /\ pc[c] = "incr" => completed = cur

\* A grace period is running exactly while it waits for a CPU; no CPU has
\* noted one that has not begun.
BatchInv ==
  /\ cur - completed \in {0, 1}
  /\ cpumask = {} <=> cur = completed
  /\ \A c \in CPU : /\ quiescbatch[c] <= cur
                    /\ curlist[c] # <<>> /\ pc[c] # "number" => batch[c] <= cur + 1

\* What a CPU's tasklet knows between its reads and writes of rcu_data.
QuietInv ==
  \A c \in CPU : /\ pc[c] = "note" => ~passed_quiesc[c] /\ qs_pending[c]
                 /\ pc[c] = "quiet" => passed_quiesc[c]

\* A CPU that has not moved on a batch whose grace period is over still holds
\* up the next one: its tasklet will take the batch off first.
StaleInv ==
  \A c \in online : curlist[c] # <<>> /\ pc[c] # "number" =>
    /\ completed <= batch[c]
    /\ cur > batch[c] =>
         /\ c \in cpumask
         /\ quiescbatch[c] = cur => \/ pc[c] \in {"idle", "invoke"}
                                    \/ pc[c] \in {"startbatch", "incr"} /\ ret[c] = "idle"

\* A request for a batch is being looked at, or will be when this one ends.
PendingInv == next_pending => cur # completed \/ \E d \in CPU : pc[d] = "startbatch"

\* The callbacks on the lists have been handed to call_rcu().
HeadInv ==
  \A c \in CPU : ToSet(nxtlist[c]) \cup ToSet(curlist[c]) \cup ToSet(donelist[c])
                   \subseteq called \cup CPU

\* A grace period that has to end before batch b may be done still waits for
\* CPU d, which has passed no quiescent state in it.
Outlives(b, d) ==
  /\ completed < b /\ cur <= b
  /\ cur = b => d \in cpumask /\ ~(quiescbatch[d] = cur /\ passed_quiesc[d])

\* A reader that a callback waits for is still running.
ReaderInv == \A f \in Callback : waits[f] \subseteq AllReaders

\* A callback on donelist waits for nobody any more.
DoneInv ==
  /\ GracePeriod
  /\ \A c \in CPU : \A f \in ToSet(donelist[c]) \cap Callback : waits[f] = {}

\* A reader that a callback on curlist waits for holds up its grace period.
WaitInv ==
  \A c \in CPU : pc[c] # "number" =>
    \A f \in ToSet(curlist[c]) \cap Callback : \A r \in waits[f] : Outlives(batch[c], r[1])

QlenInv ==
  work.downs = 0 =>
    \A c \in CPU : qlen[c] = Len(nxtlist[c]) + Len(curlist[c]) + Len(donelist[c])

\* Without rcu_barrier(), or without hotplug: CPU_UP_PREPARE clears no head that
\* is on a list.
Calm == work.barrier => work.downs = 0

\* Every head is on one list, once; the callbacks on the lists are those that
\* have been handed to call_rcu() and not invoked.
Heads(c) == ToSet(nxtlist[c]) \cup ToSet(curlist[c]) \cup ToSet(donelist[c])
Once(s) == \A i, k \in 1..Len(s) : s[i] = s[k] => i = k
Apart(s, r) == ToSet(s) \cap ToSet(r) = {}
OnceOn(c) ==
  /\ Once(nxtlist[c]) /\ Once(curlist[c]) /\ Once(donelist[c])
  /\ Apart(nxtlist[c], curlist[c]) /\ Apart(nxtlist[c], donelist[c])
  /\ Apart(curlist[c], donelist[c])
OnceInv ==
  Calm => /\ \A c \in CPU : OnceOn(c)
          /\ \A c, d \in CPU : c # d => Heads(c) \cap Heads(d) = {}
          /\ \A f \in Callback : f \in called \ invoked <=> \E c \in CPU : f \in Heads(c)

\* rdp->barrier is queued by rcu_barrier_func() only, and not before.
BarrierOK ==
  /\ bar \in [stage : {"off", "ipi", "wait", "returned"}, cpu : CPU \cup {NoCPU},
              todo : SUBSET CPU, done : BOOLEAN]
  /\ bar.stage # "off" => work.barrier
BarHeadInv == \A c, d \in CPU : c \in Heads(d) => bar.stage # "off" /\ c \notin bar.todo

\* What rcu_offline_cpu() has moved is gone from the dead CPU, and a CPU that is
\* down for good has nothing left.
GoneInv ==
  ~work.barrier =>
    \A c \in CPU \ online :
      /\ c # hp.cpu \/ hp.stage \in {"nxtlist", "donelist"} => curlist[c] = <<>>
      /\ c # hp.cpu \/ hp.stage = "donelist" => nxtlist[c] = <<>>
      /\ c # hp.cpu => donelist[c] = <<>>

\* rcu_barrier_func() queues the heads while the caller keeps preemption off: no
\* grace period that one of them waits for ends before all are queued.
PinInv ==
  work.downs = 0 /\ bar.stage = "ipi" =>
    /\ bar.cpu \in CPU /\ "task" \in active[bar.cpu]
    /\ \A c \in CPU :
         /\ ToSet(donelist[c]) \cap CPU = {}
         /\ pc[c] # "number" /\ ToSet(curlist[c]) \cap CPU # {} => Outlives(batch[c], bar.cpu)

\* rcu_barrier_cpu_count counts the heads that are queued, and each stands
\* behind what rcu_barrier() found on its CPU.
Queue(c) == donelist[c] \o curlist[c] \o nxtlist[c]
Before(q, f, h) == \E i, k \in 1..Len(q) : i < k /\ q[i] = f /\ q[k] = h
BarHeads == {c \in CPU : c \in Heads(c)}
CompleteInv ==
  work.downs = 0 =>
    /\ \A c, d \in CPU : c \in Heads(d) => c = d
    /\ bar.stage # "off" => barcount = Cardinality(BarHeads)
    /\ bar.stage \in {"wait", "returned"} => bar.todo = {}
    /\ bar.stage = "returned" => bar.done
    /\ bar.done => bar.stage \in {"wait", "returned"} /\ BarHeads = {}
    /\ \A f \in barwait : \E c \in CPU : f \in Heads(c) /\ (c \in bar.todo \/ Before(Queue(c), f, c))

IInv ==
  /\ ControlOK /\ OfflineInv /\ LockInv /\ BatchInv /\ QuietInv /\ NoForgottenCpu
  /\ StaleInv /\ PendingInv /\ BatchWillStart /\ HeadInv
  /\ ReaderInv /\ DoneInv /\ WaitInv /\ QlenInv
  /\ BarrierOK /\ BarHeadInv /\ GoneInv /\ OnceInv /\ PinInv /\ CompleteInv
=============================================================================
