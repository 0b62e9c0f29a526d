------------------------------ MODULE Tasklet ------------------------------
(***************************************************************************)
(* Softirqs and tasklets: kernel/softirq.c and include/linux/interrupt.h.  *)
(* Interrupts and tasks schedule tasklets on the CPU they run on; the      *)
(* softirq that runs them is processed when an interrupt or a section with *)
(* bottom halves disabled ends, or by the CPU's ksoftirqd.  Tasks disable, *)
(* enable and kill tasklets, and a CPU may die and come back.              *)
(*                                                                         *)
(* TASKLET_SOFTIRQ is the only softirq; HI_SOFTIRQ runs the same code over *)
(* a vector of its own.  A step that the code does with interrupts off is  *)
(* atomic on its CPU; what other CPUs can see in between is a step of its  *)
(* own.                                                                    *)
(***************************************************************************)
EXTENDS Integers, Sequences, FiniteSets

CONSTANTS
  Cpu, Tasklet, Task,
  RtTask,      \* tasks with a real-time policy
  RealTime,    \* CONFIG_MV_REAL_TIME
  MaxRestart,  \* MAX_SOFTIRQ_RESTART
  Workload,    \* what the tasks call, with which tasklets, and how often a CPU dies
  None

ASSUME TaskletAssumption ==
  /\ RtTask \subseteq Task /\ RealTime \in BOOLEAN /\ MaxRestart \in Nat \ {0}
  /\ None \notin Task /\ IsFiniteSet(Task) /\ Tasklet # {}
  /\ Workload \subseteq [calls : [Task -> SUBSET {"schedule", "bhoff", "disable", "kill"}],
                          tasklets : SUBSET Tasklet, downs : Nat]

VARIABLES
  cpu,    \* per CPU: the pending bit, tasklet_vec, the softirq in progress, ksoftirqd
  tl,     \* tasklet_struct: the bits SCHED and RUN, and count
  task,   \* the call each task is in, and its tasklet
  downs,  \* CPUs that have died
  work    \* the workload, chosen at the beginning

hotplug == <<downs, work>>
vars == <<cpu, tl, task, hotplug>>

\* vec: tasklet_vec.  softirq: where __do_softirq() is, list what tasklet_action()
\* has still to work off, left the restarts.  bh: the task that has disabled
\* bottom halves.  rt: the real-time task that is current, if one is.  kpc, kst: where ksoftirqd is and its state.
Booted == [online |-> "up", pending |-> FALSE, vec |-> <<>>, softirq |-> "none", list |-> <<>>,
           left |-> 0, bh |-> None, rt |-> None, kpc |-> "check", kst |-> "INTERRUPTIBLE"]
NoCall == [pc |-> "out", t |-> CHOOSE t \in Tasklet : TRUE]

Init ==
  /\ cpu = [c \in Cpu |-> Booted]
  /\ tl = [t \in Tasklet |-> [sched |-> FALSE, run |-> FALSE, count |-> 0]]
  /\ task = [k \in Task |-> NoCall] /\ downs = 0 /\ work \in Workload

-----------------------------------------------------------------------------
(* Raising and processing softirqs, as functions of a CPU's state *)

InInterrupt(x) == x.softirq # "none" \/ x.bh # None

wakeup_softirqd(x) == [x EXCEPT !.kst = "RUNNING"]

\* Mutation: nobody is woken outside interrupts.
RaiseOnly(x) == [x EXCEPT !.pending = TRUE]

\* Called by a task, or by a handler or with bottom halves off.
raise_softirq_irqoff(x) ==
  LET y == [x EXCEPT !.pending = TRUE] IN IF InInterrupt(x) THEN y ELSE wakeup_softirqd(y)

\* __do_softirq() begins; for a real-time task it is left to ksoftirqd.
__do_softirq(x) ==
  IF RealTime /\ x.rt # None THEN wakeup_softirqd(x)
  ELSE [x EXCEPT !.pending = FALSE, !.softirq = "action", !.left = MaxRestart]

\* do_softirq(), and irq_exit(), and the end of local_bh_enable().
do_softirq(x) == IF InInterrupt(x) \/ ~x.pending THEN x ELSE __do_softirq(x)

Queue(x, t) == [x EXCEPT !.vec = <<t>> \o @]

-----------------------------------------------------------------------------
(* Interrupts *)

\* A handler that calls tasklet_schedule(t), or none that does; irq_exit().
Irq(c) ==
  /\ cpu[c].online = "up"
  /\ \/ cpu' = [cpu EXCEPT ![c] = do_softirq(@)] /\ UNCHANGED tl
     \/ \E t \in work.tasklets :
          /\ ~tl[t].sched
          /\ tl' = [tl EXCEPT ![t].sched = TRUE]
          /\ cpu' = [cpu EXCEPT ![c] = do_softirq([Queue(@, t) EXCEPT !.pending = TRUE])]
  /\ UNCHANGED <<task, hotplug>>

-----------------------------------------------------------------------------
(* The softirq on CPU c *)

\* tasklet_action() takes the whole list.
TakeList(c) ==
  /\ cpu[c].softirq = "action"
  /\ cpu' = [cpu EXCEPT ![c].list = cpu[c].vec, ![c].vec = <<>>, ![c].softirq = "next"]
  /\ UNCHANGED <<tl, task, hotplug>>

\* Mutation: a tasklet that runs elsewhere is run here too.
TrylockAlways(t) == TRUE

tasklet_trylock(t) == ~tl[t].run

\* The next tasklet of the list: locked, or put back.
NextTasklet(c) ==
  LET t == Head(cpu[c].list) IN
  /\ cpu[c].softirq = "next" /\ cpu[c].list # <<>>
  /\ \/ /\ tasklet_trylock(t)
        /\ tl' = [tl EXCEPT ![t].run = TRUE] /\ cpu' = [cpu EXCEPT ![c].softirq = "count"]
     \/ /\ ~tasklet_trylock(t)
        /\ cpu' = [cpu EXCEPT ![c].softirq = "back"] /\ UNCHANGED tl
  /\ UNCHANGED <<task, hotplug>>

\* It is locked: run it unless it is disabled.
CheckCount(c) ==
  LET t == Head(cpu[c].list) IN
  /\ cpu[c].softirq = "count"
  /\ \/ /\ tl[t].count = 0
        /\ tl' = [tl EXCEPT ![t].sched = FALSE]
        /\ cpu' = [cpu EXCEPT ![c].softirq = "func"]
     \/ /\ tl[t].count # 0
        /\ tl' = [tl EXCEPT ![t].run = FALSE]
        /\ cpu' = [cpu EXCEPT ![c].softirq = "back"]
  /\ UNCHANGED <<task, hotplug>>

\* The function may schedule its own tasklet again; tasklet_unlock().
Func(c) ==
  LET t == Head(cpu[c].list)
      done == [cpu[c] EXCEPT !.list = Tail(@), !.softirq = "next"]
  IN
  /\ cpu[c].softirq = "func"
  /\ \/ tl' = [tl EXCEPT ![t].run = FALSE] /\ cpu' = [cpu EXCEPT ![c] = done]
     \/ /\ ~tl[t].sched
        /\ tl' = [tl EXCEPT ![t].run = FALSE, ![t].sched = TRUE]
        /\ cpu' = [cpu EXCEPT ![c] = [Queue(done, t) EXCEPT !.pending = TRUE]]
  /\ UNCHANGED <<task, hotplug>>

\* Not run: back on the list of this CPU.
PutBack(c) ==
  LET l == cpu[c].list IN
  /\ cpu[c].softirq = "back"
  /\ cpu' = [cpu EXCEPT ![c] = [Queue(@, Head(l)) EXCEPT
                                  !.pending = TRUE, !.list = Tail(l), !.softirq = "next"]]
  /\ UNCHANGED <<tl, task, hotplug>>

\* The list is done: restart for what has been raised meanwhile, or leave it
\* to ksoftirqd.
Restart(c) ==
  LET x == cpu[c]  out == [x EXCEPT !.softirq = "none", !.left = 0] IN
  /\ x.softirq = "next" /\ x.list = <<>>
  /\ cpu' = [cpu EXCEPT ![c] =
       IF ~x.pending THEN out
       ELSE IF x.left > 1 THEN [x EXCEPT !.pending = FALSE, !.softirq = "action", !.left = @ - 1]
       ELSE wakeup_softirqd(out)]
  /\ UNCHANGED <<tl, task, hotplug>>

Softirq(c) == TakeList(c) \/ NextTasklet(c) \/ CheckCount(c) \/ Func(c) \/ PutBack(c) \/ Restart(c)

-----------------------------------------------------------------------------
(* The scheduler, as far as it matters *)

\* CPU c runs tasks, not a softirq or code with bottom halves disabled, and
\* x may run there: nothing runs instead of a real-time task that wants to.
MayRun(c, x) ==
  cpu[c].online = "up" /\ ~InInterrupt(cpu[c]) /\ cpu[c].rt \in {None, x}

\* A task comes along to make a call; a real-time task stays on its CPU.
Begin(c, k, op, t) ==
  /\ MayRun(c, k) /\ task[k].pc = "out"
  /\ task' = [task EXCEPT ![k] = [pc |-> op, t |-> t]]
  /\ cpu' = [cpu EXCEPT ![c].rt = IF k \in RtTask THEN k ELSE @]
  /\ UNCHANGED <<tl, hotplug>>

-----------------------------------------------------------------------------
(* ksoftirqd *)

\* One turn of its loop: the state is set before the pending bit is tested, so
\* a wake-up in between lets schedule() return.
KsoftirqdStep(c) ==
  LET x == cpu[c]
      y == CASE x.kpc = "check" /\ x.pending -> [x EXCEPT !.kpc = "loop", !.kst = "RUNNING"]
             [] x.kpc = "check" /\ ~x.pending -> [x EXCEPT !.kpc = "schedule"]
             [] x.kpc = "schedule" /\ x.kst = "RUNNING" -> [x EXCEPT !.kpc = "loop"]
             [] x.kpc = "loop" /\ x.pending -> do_softirq(x)
             [] x.kpc = "loop" /\ ~x.pending -> [x EXCEPT !.kpc = "check", !.kst = "INTERRUPTIBLE"]
  IN
  /\ MayRun(c, None) /\ (x.kpc = "schedule" => x.kst = "RUNNING")
  /\ cpu' = [cpu EXCEPT ![c] = y]
  /\ UNCHANGED <<tl, task, hotplug>>

-----------------------------------------------------------------------------
(* Tasks: k runs on CPU c *)

Runs(c, k, pc) ==
  /\ task[k].pc = pc /\ (k \in RtTask => cpu[c].rt = k)
  /\ MayRun(c, k) \/ (cpu[c].bh = k /\ cpu[c].softirq = "none")
Goto(k, pc) == task' = [task EXCEPT ![k].pc = pc]

\* The call returns, and the task goes to sleep sooner or later.
Leave(k) == task' = [task EXCEPT ![k] = NoCall]
Off(x, k) == [x EXCEPT !.rt = IF @ = k THEN None ELSE @]
LeaveCpu(c, k) == Leave(k) /\ cpu' = [cpu EXCEPT ![c] = Off(@, k)]

\* tasklet_schedule(): test_and_set_bit(), then __tasklet_schedule().
tasklet_schedule(c, k) ==
  LET t == task[k].t IN
  /\ Runs(c, k, "schedule") /\ tl' = [tl EXCEPT ![t].sched = TRUE]
  /\ \/ tl[t].sched /\ LeaveCpu(c, k)
     \/ ~tl[t].sched /\ Goto(k, "link") /\ UNCHANGED cpu
  /\ UNCHANGED hotplug

__tasklet_schedule(c, k) ==
  /\ Runs(c, k, "link") /\ Leave(k)
  /\ cpu' = [cpu EXCEPT ![c] = Off(raise_softirq_irqoff(Queue(@, task[k].t)), k)]
  /\ UNCHANGED <<tl, hotplug>>

\* local_bh_disable(); tasklet_schedule(); and then local_bh_enable().
ScheduleBhOff(c, k) ==
  LET t == task[k].t  x == [cpu[c] EXCEPT !.bh = k] IN
  /\ Runs(c, k, "bhoff") /\ tl' = [tl EXCEPT ![t].sched = TRUE]
  /\ cpu' = [cpu EXCEPT ![c] = IF tl[t].sched THEN x ELSE raise_softirq_irqoff(Queue(x, t))]
  /\ Goto(k, "bhon")
  /\ UNCHANGED hotplug

local_bh_enable(c, k) ==
  /\ cpu[c].bh = k /\ Runs(c, k, "bhon") /\ Leave(k)
  /\ cpu' = [cpu EXCEPT ![c] = Off(do_softirq([@ EXCEPT !.bh = None]), k)]
  /\ UNCHANGED <<tl, hotplug>>

\* Mutation: do not wait.
UnlockWaitNot(t) == TRUE

tasklet_unlock_wait(t) == ~tl[t].run

\* tasklet_disable(), and tasklet_enable() when the caller is done.
tasklet_disable(c, k) ==
  LET t == task[k].t IN
  \/ /\ Runs(c, k, "disable")
     /\ tl' = [tl EXCEPT ![t].count = @ + 1] /\ Goto(k, "wait") /\ UNCHANGED <<cpu, hotplug>>
  \/ /\ Runs(c, k, "wait") /\ tasklet_unlock_wait(t)
     /\ Goto(k, "disabled") /\ UNCHANGED <<cpu, tl, hotplug>>

tasklet_enable(c, k) ==
  /\ Runs(c, k, "disabled") /\ LeaveCpu(c, k)
  /\ tl' = [tl EXCEPT ![task[k].t].count = @ - 1]
  /\ UNCHANGED hotplug

\* tasklet_kill(): wait, yielding, until the bit can be taken; wait for the
\* function; give the bit back.
tasklet_kill(c, k) ==
  LET t == task[k].t IN
  \/ /\ Runs(c, k, "kill") /\ ~tl[t].sched
     /\ tl' = [tl EXCEPT ![t].sched = TRUE] /\ Goto(k, "killwait") /\ UNCHANGED <<cpu, hotplug>>
  \/ /\ Runs(c, k, "killwait") /\ tasklet_unlock_wait(t)
     /\ Goto(k, "killed") /\ UNCHANGED <<cpu, tl, hotplug>>
  \/ /\ Runs(c, k, "killed") /\ LeaveCpu(c, k)
     /\ tl' = [tl EXCEPT ![t].sched = FALSE]
     /\ UNCHANGED hotplug

TaskStep(k) ==
  \E c \in Cpu : \/ tasklet_schedule(c, k) \/ __tasklet_schedule(c, k) \/ ScheduleBhOff(c, k)
                 \/ local_bh_enable(c, k) \/ tasklet_disable(c, k) \/ tasklet_enable(c, k)
                 \/ tasklet_kill(c, k)

-----------------------------------------------------------------------------
(* CPU hotplug *)

\* The machine is stopped and CPU c dies; its tasks move away.
CpuDead(c) ==
  /\ downs < work.downs /\ MayRun(c, None)
  /\ \E d \in Cpu \ {c} : cpu[d].online = "up"
  /\ cpu' = [cpu EXCEPT ![c].online = "dead"] /\ downs' = downs + 1
  /\ UNCHANGED <<tl, task, work>>

\* CPU_DEAD on another CPU: ksoftirqd is stopped, takeover_tasklets().
takeover_tasklets(c, d) ==
  /\ cpu[c].online = "dead" /\ MayRun(d, None)
  /\ cpu' = [cpu EXCEPT ![c].online = "down", ![c].vec = <<>>,
                        ![d] = raise_softirq_irqoff([cpu[d] EXCEPT !.vec = @ \o cpu[c].vec])]
  /\ UNCHANGED <<tl, task, hotplug>>

\* CPU_UP_PREPARE and CPU_ONLINE: a new ksoftirqd; the pending bit is as it was.
CpuOnline(c) ==
  /\ cpu[c].online = "down"
  /\ cpu' = [cpu EXCEPT ![c] = [Booted EXCEPT !.pending = cpu[c].pending]]
  /\ UNCHANGED <<tl, task, hotplug>>

-----------------------------------------------------------------------------
Next ==
  \/ \E c \in Cpu :
       \/ Irq(c) \/ Softirq(c) \/ KsoftirqdStep(c)
       \/ CpuDead(c) \/ CpuOnline(c) \/ \E d \in Cpu : takeover_tasklets(c, d)
       \/ \E k \in Task, t \in work.tasklets : \E op \in work.calls[k] : Begin(c, k, op, t)
  \/ \E k \in Task : TaskStep(k)

\* Softirqs are not preempted, nor are tasks for ever.  ksoftirqd and the
\* hotplug code run again and again if they can again and again: never instead
\* of a real-time task.
Fairness ==
  /\ \A c \in Cpu : WF_vars(Softirq(c)) /\ SF_vars(KsoftirqdStep(c))
  /\ \A k \in Task : WF_vars(TaskStep(k))
  /\ SF_vars(\E c, d \in Cpu : takeover_tasklets(c, d))

Spec == Init /\ [][Next]_vars /\ Fairness

-----------------------------------------------------------------------------
(* Properties *)

\* Where a scheduled tasklet may be: on a vector, on the list that a softirq
\* works off, with a task about to link it, or with one that kills it.
Queued(t) ==
  UNION {{<<c, "vec", i>> : i \in {n \in DOMAIN cpu[c].vec : cpu[c].vec[n] = t}}
         \cup {<<c, "list", i>> : i \in {n \in DOMAIN cpu[c].list :
                                           cpu[c].list[n] = t /\ (n = 1 => cpu[c].softirq # "func")}}
         : c \in Cpu}
Places(t) ==
  Queued(t) \cup {<<k, "task", 0>> : k \in {m \in Task : /\ task[m].t = t
                                                      /\ task[m].pc \in {"link", "killwait", "killed"}}}
Executing(c, t) == cpu[c].softirq = "func" /\ Head(cpu[c].list) = t
Locked(c, t) == Executing(c, t) \/ (cpu[c].softirq = "count" /\ Head(cpu[c].list) = t)

\* SCHED is set exactly while the tasklet is in one place, and RUN while one
\* CPU has it locked: it is neither lost nor queued twice, whatever interrupts,
\* tasks, kills and dying CPUs do, it never runs on two CPUs, and the BUG() of
\* tasklet_action() cannot be reached.
Serialized ==
  \A t \in Tasklet : /\ tl[t].sched <=> Places(t) # {}
                     /\ \A p, q \in Places(t) : p = q
                     /\ tl[t].run <=> \E c \in Cpu : Locked(c, t)
                     /\ \A c, d \in Cpu : Locked(c, t) /\ Locked(d, t) => c = d

\* When tasklet_kill() has waited the tasklet is neither queued nor running on
\* any CPU, and between tasklet_disable() and tasklet_enable() its function
\* does not run, even if a CPU had it locked when the count was raised.
Quiesced ==
  \A k \in Task, c \in Cpu :
    LET t == task[k].t IN
    /\ task[k].pc = "killed" => Queued(t) = {} /\ ~Locked(c, t)
    /\ task[k].pc = "disabled" => ~Executing(c, t)

\* "If tasklet_schedule() is called, then tasklet is guaranteed to be executed
\* on some cpu at least once after this", unless it is disabled: it leaves the
\* lists, which only the call of its function makes it do.
Executed == \A t \in Tasklet : Queued(t) # {} ~> (Queued(t) = {} \/ tl[t].count > 0)

-----------------------------------------------------------------------------
(* The inductive invariant behind the safety properties (TaskletProofs).    *)

CpuState ==
  [online : {"up", "dead", "down"}, pending : BOOLEAN, vec : Seq(Tasklet),
   softirq : {"none", "action", "next", "count", "func", "back"}, list : Seq(Tasklet),
   left : Nat, bh : Task \cup {None}, rt : Task \cup {None},
   kpc : {"check", "schedule", "loop"}, kst : {"RUNNING", "INTERRUPTIBLE"}]
TaskPc == {"out", "schedule", "link", "bhoff", "bhon", "disable", "wait", "disabled",
           "kill", "killwait", "killed"}

TypeOK ==
  /\ cpu \in [Cpu -> CpuState]
  /\ tl \in [Tasklet -> [sched : BOOLEAN, run : BOOLEAN, count : Int]]
  /\ task \in [Task -> [pc : TaskPc, t : Tasklet]]
  /\ downs \in Nat /\ work \in Workload

\* The list is there from tasklet_action() on, and a CPU that is not up has
\* neither a softirq nor, once its tasklets are taken over, a vector.
CpuOK(x) ==
  /\ x.softirq \in {"count", "func", "back"} => x.list # <<>>
  /\ x.softirq \in {"none", "action"} => x.list = <<>>
  /\ x.online # "up" => x.softirq = "none" /\ x.bh = None
  /\ x.online = "down" => x.vec = <<>>
CpuInv == \A c \in Cpu : CpuOK(cpu[c])

\* The tasklets that the softirq has still to run or to put back.
Rest(x) == IF x.softirq = "func" THEN Tail(x.list) ELSE x.list

In(t, s) == \E i \in 1..Len(s) : s[i] = t
NoRepeat(s) == \A m, n \in 1..Len(s) : s[m] = s[n] => m = n
InVec(c, t) == In(t, cpu[c].vec)
InList(c, t) == In(t, Rest(cpu[c]))
InTask(k, t) == task[k].t = t /\ task[k].pc \in {"link", "killwait", "killed"}

\* A tasklet is in one place at most, and in none exactly if SCHED is clear.
PlaceInv ==
  /\ \A c \in Cpu : NoRepeat(cpu[c].vec) /\ NoRepeat(Rest(cpu[c]))
  /\ \A t \in Tasklet :
       /\ \A c, d \in Cpu : /\ InVec(c, t) /\ InVec(d, t) => c = d
                            /\ InList(c, t) /\ InList(d, t) => c = d
                            /\ ~(InVec(c, t) /\ InList(d, t))
       /\ \A k, m \in Task : InTask(k, t) /\ InTask(m, t) => k = m
       /\ \A k \in Task, c \in Cpu : InTask(k, t) => ~InVec(c, t) /\ ~InList(c, t)
       /\ tl[t].sched <=> \/ \E c \in Cpu : InVec(c, t) \/ InList(c, t)
                          \/ \E k \in Task : InTask(k, t)

\* RUN is the lock of the CPU that has taken it.
RunInv ==
  \A t \in Tasklet : /\ tl[t].run <=> \E c \in Cpu : Locked(c, t)
                     /\ \A c, d \in Cpu : Locked(c, t) /\ Locked(d, t) => c = d

\* count is the number of callers between tasklet_disable() and tasklet_enable().
Disablers(t) == {k \in Task : task[k].t = t /\ task[k].pc \in {"wait", "disabled"}}
CountInv == \A t \in Tasklet : tl[t].count = Cardinality(Disablers(t))

\* What tasklet_kill() and tasklet_disable() have waited for stays so.
WaitedInv ==
  \A k \in Task, c \in Cpu, t \in Tasklet :
    /\ task[k].pc = "killed" /\ task[k].t = t => ~Locked(c, t)
    /\ task[k].pc = "disabled" /\ task[k].t = t => ~Executing(c, t)

IInv == TypeOK /\ CpuInv /\ PlaceInv /\ RunInv /\ CountInv /\ WaitedInv
=============================================================================
