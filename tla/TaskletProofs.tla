--------------------------- MODULE TaskletProofs ---------------------------
(***************************************************************************)
(* Proofs about kernel/softirq.c for any number of CPUs, tasklets and      *)
(* tasks: the inductive invariant IInv of module Tasklet and the safety    *)
(* properties it implies.                                                  *)
(***************************************************************************)
EXTENDS Tasklet, FiniteSetTheorems, SequenceTheorems, TLAPS


-----------------------------------------------------------------------------
(* Sequences of tasklets *)

\* Queueing at the front of tasklet_vec.
LEMMA InPrepend ==
  ASSUME NEW s \in Seq(Tasklet), NEW t \in Tasklet
  PROVE  /\ <<t>> \o s \in Seq(Tasklet)
         /\ \A u : In(u, <<t>> \o s) <=> u = t \/ In(u, s)
         /\ NoRepeat(s) /\ ~In(t, s) => NoRepeat(<<t>> \o s)
<1> DEFINE r == <<t>> \o s
<1>1. /\ r \in Seq(Tasklet) /\ Len(s) \in Nat /\ Len(r) = Len(s) + 1
      /\ r[1] = t /\ \A i \in 1..Len(s) : r[i + 1] = s[i]
  OBVIOUS
<1>2. \A i \in 2..Len(r) : i - 1 \in 1..Len(s) /\ r[i] = s[i - 1]
  <2> TAKE i \in 2..Len(r)
  <2>1. i - 1 \in 1..Len(s) /\ (i - 1) + 1 = i
    BY <1>1
  <2> QED
    BY <2>1, <1>1
<1> HIDE DEF r
<1>3. ASSUME NEW u PROVE In(u, r) <=> u = t \/ In(u, s)
  <2>1. ASSUME In(u, r) PROVE u = t \/ In(u, s)
    <3>1. PICK i \in 1..Len(r) : r[i] = u
      BY <2>1 DEF In
    <3>2. CASE i = 1
      BY <3>1, <3>2, <1>1
    <3>3. CASE i # 1
      <4>1. i \in 2..Len(r)
        BY <3>3, <1>1
      <4> QED
        BY <4>1, <3>1, <1>2 DEF In
    <3> QED
      BY <3>2, <3>3
  <2>2. ASSUME u = t PROVE In(u, r)
    BY <2>2, <1>1 DEF In
  <2>3. ASSUME In(u, s) PROVE In(u, r)
    <3>1. PICK i \in 1..Len(s) : s[i] = u
      BY <2>3 DEF In
    <3>2. i + 1 \in 1..Len(r) /\ r[i + 1] = u
      BY <3>1, <1>1
    <3> QED
      BY <3>2 DEF In
  <2> QED
    BY <2>1, <2>2, <2>3
<1>4. ASSUME NoRepeat(s), ~In(t, s), NEW m \in 1..Len(r), NEW n \in 1..Len(r), r[m] = r[n]
      PROVE  m = n
  <2>0. \A i \in 1..Len(r) : i = 1 \/ (r[i] # t /\ i \in 2..Len(r))
    <3> TAKE i \in 1..Len(r)
    <3>1. i = 1 \/ i \in 2..Len(r)
      BY <1>1
    <3> QED
      BY <3>1, <1>2, <1>4 DEF In
  <2>1. CASE m = 1 \/ n = 1
    BY <2>0, <1>1, <1>4, <2>1
  <2>2. CASE m # 1 /\ n # 1
    <3>1. m \in 2..Len(r) /\ n \in 2..Len(r)
      BY <2>2, <1>1
    <3>2. m - 1 = n - 1
      BY <3>1, <1>2, <1>4 DEF NoRepeat
    <3> QED
      BY <3>1, <3>2
  <2> QED
    BY <2>1, <2>2
<1>5. NoRepeat(s) /\ ~In(t, s) => NoRepeat(r)
  BY <1>4 DEF NoRepeat
<1> QED
  BY <1>1, <1>3, <1>5 DEF r

\* Working off the first of a list.
LEMMA InTail ==
  ASSUME NEW s \in Seq(Tasklet), s # <<>>
  PROVE  /\ Head(s) \in Tasklet /\ Tail(s) \in Seq(Tasklet) /\ In(Head(s), s)
         /\ \A u : In(u, s) <=> u = Head(s) \/ In(u, Tail(s))
         /\ NoRepeat(s) => NoRepeat(Tail(s)) /\ ~In(Head(s), Tail(s))
<1>1. /\ Head(s) \in Tasklet /\ Head(s) = s[1] /\ Len(s) \in Nat /\ Len(s) > 0
      /\ Tail(s) \in Seq(Tasklet) /\ Len(Tail(s)) = Len(s) - 1
      /\ \A i \in 1..Len(s) - 1 : Tail(s)[i] = s[i + 1]
  OBVIOUS
<1>2. \A i \in 2..Len(s) : i - 1 \in 1..Len(Tail(s)) /\ Tail(s)[i - 1] = s[i]
  <2> TAKE i \in 2..Len(s)
  <2>1. i - 1 \in 1..Len(s) - 1 /\ (i - 1) + 1 = i
    BY <1>1
  <2> QED
    BY <2>1, <1>1
<1>3. In(Head(s), s)
  BY <1>1 DEF In
<1>4. ASSUME NEW u, In(u, s) PROVE u = Head(s) \/ In(u, Tail(s))
  <2>1. PICK i \in 1..Len(s) : s[i] = u
    BY <1>4 DEF In
  <2>2. CASE i = 1
    BY <2>1, <2>2, <1>1
  <2>3. CASE i # 1
    <3>1. i \in 2..Len(s)
      BY <2>3, <1>1
    <3> QED
      BY <3>1, <2>1, <1>2 DEF In
  <2> QED
    BY <2>2, <2>3
<1>5. ASSUME NEW u, In(u, Tail(s)) PROVE In(u, s)
  <2>1. PICK i \in 1..Len(Tail(s)) : Tail(s)[i] = u
    BY <1>5 DEF In
  <2>2. i + 1 \in 1..Len(s) /\ s[i + 1] = u
    BY <2>1, <1>1
  <2> QED
    BY <2>2 DEF In
<1>6. ASSUME NoRepeat(s) PROVE NoRepeat(Tail(s)) /\ ~In(Head(s), Tail(s))
  <2>1. \A m, n \in 1..Len(s) : s[m] = s[n] => m = n
    BY <1>6 DEF NoRepeat
  <2>2. \A i \in 1..Len(Tail(s)) : i + 1 \in 1..Len(s) /\ Tail(s)[i] = s[i + 1]
    BY <1>1
  <2>3. NoRepeat(Tail(s))
    BY <2>1, <2>2, <1>1 DEF NoRepeat
  <2>4. ~In(Head(s), Tail(s))
    BY <2>1, <2>2, <1>1 DEF In
  <2> QED
    BY <2>3, <2>4
<1> QED
  BY <1>1, <1>3, <1>4, <1>5, <1>6

\* takeover_tasklets() appends the dead CPU's vector.
LEMMA InConcat ==
  ASSUME NEW s \in Seq(Tasklet), NEW r \in Seq(Tasklet)
  PROVE  /\ s \o r \in Seq(Tasklet)
         /\ \A u : In(u, s \o r) <=> In(u, s) \/ In(u, r)
         /\ NoRepeat(s) /\ NoRepeat(r) /\ (\A u : ~(In(u, s) /\ In(u, r))) => NoRepeat(s \o r)
<1> DEFINE q == s \o r
<1>1. /\ q \in Seq(Tasklet) /\ Len(q) = Len(s) + Len(r) /\ Len(s) \in Nat /\ Len(r) \in Nat
      /\ \A i \in 1..Len(q) : q[i] = IF i <= Len(s) THEN s[i] ELSE r[i - Len(s)]
  BY ConcatProperties, LenProperties
<1> HIDE DEF q
<1>2. \A i \in 1..Len(q) : \/ i \in 1..Len(s) /\ q[i] = s[i]
                           \/ i - Len(s) \in 1..Len(r) /\ q[i] = r[i - Len(s)]
  BY <1>1
<1>3. ASSUME NEW i \in 1..Len(s) PROVE i \in 1..Len(q) /\ q[i] = s[i]
  BY <1>1
<1>4. ASSUME NEW i \in 1..Len(r) PROVE Len(s) + i \in 1..Len(q) /\ q[Len(s) + i] = r[i]
  <2>1. Len(s) + i \in 1..Len(q) /\ ~(Len(s) + i <= Len(s)) /\ (Len(s) + i) - Len(s) = i
    BY <1>1
  <2> QED
    BY <2>1, <1>1
<1>5. ASSUME NEW u PROVE In(u, q) <=> In(u, s) \/ In(u, r)
  BY <1>2, <1>3, <1>4 DEF In
<1>6. ASSUME NoRepeat(s), NoRepeat(r), \A u : ~(In(u, s) /\ In(u, r)),
             NEW m \in 1..Len(q), NEW n \in 1..Len(q), q[m] = q[n]
      PROVE  m = n
  <2>1. CASE m \in 1..Len(s) /\ q[m] = s[m] /\ n \in 1..Len(s) /\ q[n] = s[n]
    BY <2>1, <1>6 DEF NoRepeat
  <2>2. CASE /\ m - Len(s) \in 1..Len(r) /\ q[m] = r[m - Len(s)]
             /\ n - Len(s) \in 1..Len(r) /\ q[n] = r[n - Len(s)]
    <3>1. m - Len(s) = n - Len(s)
      BY <2>2, <1>6 DEF NoRepeat
    <3> QED
      BY <3>1, <1>1
  <2>3. ~(In(q[m], s) /\ In(q[m], r))
    BY <1>6
  <2> QED
    BY <1>2, <1>6, <2>1, <2>2, <2>3 DEF In
<1>7. NoRepeat(s) /\ NoRepeat(r) /\ (\A u : ~(In(u, s) /\ In(u, r))) => NoRepeat(q)
  BY <1>6 DEF NoRepeat
<1> QED
  BY <1>1, <1>5, <1>7 DEF q

\* An empty list holds nothing.
LEMMA InEmpty == NoRepeat(<<>>) /\ \A u : ~In(u, <<>>)
  BY DEF NoRepeat, In

-----------------------------------------------------------------------------
(* One CPU *)

\* What leaves the tasklets of a CPU alone: y is x with another state of
\* ksoftirqd, another current task or a softirq that begins or ends.
Quiet(x, y) ==
  /\ y \in CpuState /\ y.vec = x.vec /\ y.list = x.list
  /\ y.softirq # x.softirq => {x.softirq, y.softirq} \cap {"count", "func"} = {}

\* do_softirq() at most begins a softirq where none is in progress.
LEMMA DoSoftirq ==
  ASSUME NEW x \in CpuState, NEW y, y = do_softirq(x)
  PROVE  /\ y \in CpuState /\ y.vec = x.vec /\ y.list = x.list
         /\ y.online = x.online /\ y.bh = x.bh
         /\ y.softirq = x.softirq \/ (x.softirq = "none" /\ y.softirq = "action")
<1>1. \/ y = x
      \/ y = wakeup_softirqd(x)
      \/ /\ x.softirq = "none"
         /\ y = [x EXCEPT !.pending = FALSE, !.softirq = "action", !.left = MaxRestart]
  BY DEF do_softirq, __do_softirq, InInterrupt
<1>2. CASE y = x
  BY <1>2
<1>3. CASE y = wakeup_softirqd(x)
  BY <1>3 DEF CpuState, wakeup_softirqd
<1>4. CASE /\ x.softirq = "none"
           /\ y = [x EXCEPT !.pending = FALSE, !.softirq = "action", !.left = MaxRestart]
  BY <1>4, TaskletAssumption DEF CpuState
<1> QED
  BY <1>1, <1>2, <1>3, <1>4

\* raise_softirq_irqoff() touches neither lists nor the softirq in progress.
LEMMA RaiseSoftirq ==
  ASSUME NEW x \in CpuState, NEW y, y = raise_softirq_irqoff(x)
  PROVE  /\ y \in CpuState /\ y.vec = x.vec /\ y.list = x.list
         /\ y.online = x.online /\ y.bh = x.bh /\ y.softirq = x.softirq
  BY DEF CpuState, raise_softirq_irqoff, wakeup_softirqd

\* Queueing a tasklet changes the vector only.
LEMMA QueueFront ==
  ASSUME NEW x \in CpuState, NEW t \in Tasklet, NEW y, y = Queue(x, t)
  PROVE  /\ y \in CpuState /\ y.vec = <<t>> \o x.vec /\ y.list = x.list
         /\ y.online = x.online /\ y.bh = x.bh /\ y.softirq = x.softirq
<1>1. x.vec \in Seq(Tasklet)
  BY DEF CpuState
<1>2. PICK v \in Seq(Tasklet) : v = <<t>> \o x.vec
  BY <1>1, InPrepend
<1>3. y = [x EXCEPT !.vec = v]
  BY <1>2 DEF Queue
<1> QED
  BY <1>2, <1>3 DEF CpuState

\* A real-time task that goes to sleep leaves the lists of its CPU alone.
LEMMA OffCpu ==
  ASSUME NEW x \in CpuState, NEW k \in Task, NEW y, y = Off(x, k)
  PROVE  /\ y \in CpuState /\ y.vec = x.vec /\ y.list = x.list
         /\ y.online = x.online /\ y.bh = x.bh /\ y.softirq = x.softirq
  BY DEF CpuState, Off

\* The places and the locks after a step.
LEMMA NextViews ==
  \A d \in Cpu, t \in Tasklet :
    /\ InVec(d, t)' <=> In(t, cpu'[d].vec)
    /\ InList(d, t)' <=> In(t, Rest(cpu'[d]))
    /\ Locked(d, t)' <=> cpu'[d].softirq \in {"count", "func"} /\ Head(cpu'[d].list) = t
    /\ Executing(d, t)' <=> cpu'[d].softirq = "func" /\ Head(cpu'[d].list) = t
<1>1. \A d \in Cpu, t \in Tasklet : InVec(d, t)' <=> In(t, cpu'[d].vec)
  BY DEF InVec, In
<1>2. \A d \in Cpu, t \in Tasklet : InList(d, t)' <=> In(t, Rest(cpu'[d]))
  BY DEF InList, In, Rest
<1>3. \A d \in Cpu, t \in Tasklet :
        Executing(d, t)' <=> cpu'[d].softirq = "func" /\ Head(cpu'[d].list) = t
  BY DEF Executing
<1>4. \A d \in Cpu, t \in Tasklet :
        Locked(d, t)' <=> cpu'[d].softirq \in {"count", "func"} /\ Head(cpu'[d].list) = t
  BY DEF Locked, Executing
<1> QED
  BY <1>1, <1>2, <1>3, <1>4

\* A step of one CPU, seen through the places and the locks of the tasklets.
LEMMA CpuUpdate ==
  ASSUME TypeOK, NEW c \in Cpu, NEW y \in CpuState, cpu' = [cpu EXCEPT ![c] = y]
  PROVE  /\ cpu' \in [Cpu -> CpuState] /\ cpu'[c] = y
         /\ \A d \in Cpu \ {c} : cpu'[d] = cpu[d]
         /\ \A d \in Cpu \ {c}, t \in Tasklet :
              /\ InVec(d, t)' <=> InVec(d, t)
              /\ InList(d, t)' <=> InList(d, t)
              /\ Locked(d, t)' <=> Locked(d, t)
              /\ Executing(d, t)' <=> Executing(d, t)
         /\ \A t \in Tasklet :
              /\ InVec(c, t)' <=> In(t, y.vec)
              /\ InList(c, t)' <=> In(t, Rest(y))
              /\ Locked(c, t)' <=> y.softirq \in {"count", "func"} /\ Head(y.list) = t
              /\ Executing(c, t)' <=> y.softirq = "func" /\ Head(y.list) = t
<1>1. cpu' \in [Cpu -> CpuState] /\ cpu'[c] = y /\ \A d \in Cpu \ {c} : cpu'[d] = cpu[d]
  BY DEF TypeOK
<1>6. \A d \in Cpu, t \in Tasklet :
        Locked(d, t) <=> cpu[d].softirq \in {"count", "func"} /\ Head(cpu[d].list) = t
  BY DEF Locked, Executing
<1>7. \A d \in Cpu \ {c}, t \in Tasklet :
              /\ InVec(d, t)' <=> InVec(d, t)
              /\ InList(d, t)' <=> InList(d, t)
  BY <1>1, NextViews DEF InVec, InList
<1>8. \A d \in Cpu \ {c}, t \in Tasklet :
              /\ Locked(d, t)' <=> Locked(d, t)
              /\ Executing(d, t)' <=> Executing(d, t)
  BY <1>1, <1>6, NextViews DEF Executing
<1>9. \A t \in Tasklet : /\ InVec(c, t)' <=> In(t, y.vec)
                         /\ InList(c, t)' <=> In(t, Rest(y))
  BY <1>1, NextViews
<1>10. \A t \in Tasklet :
         /\ Locked(c, t)' <=> y.softirq \in {"count", "func"} /\ Head(y.list) = t
         /\ Executing(c, t)' <=> y.softirq = "func" /\ Head(y.list) = t
  BY <1>1, NextViews
<1> HIDE DEF InVec, InList, Locked, Executing
<1>11. \A d \in Cpu \ {c}, t \in Tasklet :
              /\ InVec(d, t)' <=> InVec(d, t)
              /\ InList(d, t)' <=> InList(d, t)
              /\ Locked(d, t)' <=> Locked(d, t)
              /\ Executing(d, t)' <=> Executing(d, t)
  BY <1>7, <1>8
<1>12. \A t \in Tasklet :
              /\ InVec(c, t)' <=> In(t, y.vec)
              /\ InList(c, t)' <=> In(t, Rest(y))
              /\ Locked(c, t)' <=> y.softirq \in {"count", "func"} /\ Head(y.list) = t
              /\ Executing(c, t)' <=> y.softirq = "func" /\ Head(y.list) = t
  BY <1>9, <1>10
<1> QED
  BY <1>1, <1>11, <1>12

\* A step that is quiet on one CPU moves and locks no tasklet.
LEMMA QuietUpdate ==
  ASSUME TypeOK, NEW c \in Cpu, NEW y, Quiet(cpu[c], y), cpu' = [cpu EXCEPT ![c] = y]
  PROVE  \A d \in Cpu, t \in Tasklet :
           /\ InVec(d, t)' <=> InVec(d, t)
           /\ InList(d, t)' <=> InList(d, t)
           /\ Locked(d, t)' <=> Locked(d, t)
           /\ Executing(d, t)' <=> Executing(d, t)
           /\ cpu'[d].vec = cpu[d].vec /\ Rest(cpu'[d]) = Rest(cpu[d])
<1>1. y \in CpuState /\ y.vec = cpu[c].vec /\ y.list = cpu[c].list
  BY DEF Quiet
<1>2. Rest(y) = Rest(cpu[c])
  BY DEF Quiet, Rest
<1>3. y.softirq = cpu[c].softirq \/ {cpu[c].softirq, y.softirq} \cap {"count", "func"} = {}
  BY DEF Quiet
<1>4. \A t \in Tasklet : /\ InVec(c, t)' <=> InVec(c, t)
                         /\ InList(c, t)' <=> InList(c, t)
                         /\ Locked(c, t)' <=> Locked(c, t)
                         /\ Executing(c, t)' <=> Executing(c, t)
  BY <1>1, <1>2, <1>3, CpuUpdate DEF InVec, InList, Locked, Executing
<1>5. cpu'[c] = y /\ \A d \in Cpu \ {c} : cpu'[d] = cpu[d]
  BY <1>1, CpuUpdate
<1>6. \A d \in Cpu : cpu'[d].vec = cpu[d].vec /\ Rest(cpu'[d]) = Rest(cpu[d])
  BY <1>1, <1>2, <1>5
<1>7. \A d \in Cpu \ {c}, t \in Tasklet : /\ InVec(d, t)' <=> InVec(d, t)
                                          /\ InList(d, t)' <=> InList(d, t)
                                          /\ Locked(d, t)' <=> Locked(d, t)
                                          /\ Executing(d, t)' <=> Executing(d, t)
  BY <1>1, CpuUpdate
<1> QED
  BY <1>4, <1>6, <1>7

-----------------------------------------------------------------------------
(* Parts of the invariant that a step leaves alone *)

LEMMA CpuInvStep ==
  ASSUME TypeOK, CpuInv, NEW c \in Cpu, NEW y \in CpuState, CpuOK(y),
         cpu' = [cpu EXCEPT ![c] = y]
  PROVE  CpuInv'
<1>1. \A d \in Cpu : CpuOK(cpu'[d])
  BY CpuUpdate DEF CpuInv
<1> QED
  BY <1>1 DEF CpuInv, CpuOK

\* A step on one tasklet_struct, and one of one task.
LEMMA TlSched ==
  ASSUME TypeOK, NEW t \in Tasklet, NEW b \in BOOLEAN, tl' = [tl EXCEPT ![t].sched = b]
  PROVE  /\ tl' \in [Tasklet -> [sched : BOOLEAN, run : BOOLEAN, count : Int]]
         /\ \A u \in Tasklet : tl'[u].run = tl[u].run /\ tl'[u].count = tl[u].count
         /\ \A u \in Tasklet \ {t} : tl'[u].sched = tl[u].sched
         /\ tl'[t].sched = b
<1>1. tl \in [Tasklet -> [sched : BOOLEAN, run : BOOLEAN, count : Int]]
  BY DEF TypeOK
<1> QED
  BY <1>1

LEMMA TlRun ==
  ASSUME TypeOK, NEW t \in Tasklet, NEW b \in BOOLEAN, tl' = [tl EXCEPT ![t].run = b]
  PROVE  /\ tl' \in [Tasklet -> [sched : BOOLEAN, run : BOOLEAN, count : Int]]
         /\ \A u \in Tasklet : tl'[u].sched = tl[u].sched /\ tl'[u].count = tl[u].count
         /\ \A u \in Tasklet \ {t} : tl'[u].run = tl[u].run
         /\ tl'[t].run = b
<1>1. tl \in [Tasklet -> [sched : BOOLEAN, run : BOOLEAN, count : Int]]
  BY DEF TypeOK
<1> QED
  BY <1>1

LEMMA TaskUpdate ==
  ASSUME TypeOK, NEW k \in Task, NEW e \in [pc : TaskPc, t : Tasklet],
         task' = [task EXCEPT ![k] = e]
  PROVE  /\ task' \in [Task -> [pc : TaskPc, t : Tasklet]]
         /\ task'[k] = e /\ \A m \in Task \ {k} : task'[m] = task[m]
         /\ \A m \in Task \ {k}, t \in Tasklet : InTask(m, t)' <=> InTask(m, t)
         /\ \A t \in Tasklet : InTask(k, t)' <=> e.t = t /\ e.pc \in {"link", "killwait", "killed"}
<1>1. /\ task' \in [Task -> [pc : TaskPc, t : Tasklet]]
      /\ task'[k] = e /\ \A m \in Task \ {k} : task'[m] = task[m]
  BY DEF TypeOK
<1> QED
  BY <1>1 DEF InTask

\* The tasklet places are those of before if the lists and the SCHED bits are
\* and nobody starts or ends holding a tasklet.
LEMMA PlaceSame ==
  ASSUME PlaceInv,
         \A c \in Cpu : cpu'[c].vec = cpu[c].vec /\ Rest(cpu'[c]) = Rest(cpu[c]),
         \A c \in Cpu, t \in Tasklet : (InVec(c, t)' <=> InVec(c, t)) /\ (InList(c, t)' <=> InList(c, t)),
         \A k \in Task, t \in Tasklet : InTask(k, t)' <=> InTask(k, t),
         \A t \in Tasklet : tl'[t].sched = tl[t].sched
  PROVE  PlaceInv'
<1>1. \A c \in Cpu : NoRepeat(cpu'[c].vec) /\ NoRepeat(Rest(cpu'[c]))
  BY DEF PlaceInv
<1>2. \A c \in Cpu : (NoRepeat(cpu[c].vec) /\ NoRepeat(Rest(cpu[c])))'
  BY <1>1 DEF NoRepeat, Rest
<1> QED
  BY <1>2 DEF PlaceInv

LEMMA RunSame ==
  ASSUME RunInv, \A c \in Cpu, t \in Tasklet : Locked(c, t)' <=> Locked(c, t),
         \A t \in Tasklet : tl'[t].run = tl[t].run
  PROVE  RunInv'
  BY DEF RunInv

\* A task that is neither before nor after the step among those that hold,
\* kill or disable a tasklet.
Busy == {"link", "killwait", "killed", "wait", "disabled"}
TaskQuiet ==
  \/ task' = task
  \/ \E k \in Task, e \in [pc : TaskPc, t : Tasklet] :
       task' = [task EXCEPT ![k] = e] /\ task[k].pc \notin Busy /\ e.pc \notin Busy

LEMMA TaskQuietViews ==
  ASSUME TypeOK, TaskQuiet
  PROVE  /\ task' \in [Task -> [pc : TaskPc, t : Tasklet]]
         /\ \A k \in Task, t \in Tasklet : InTask(k, t)' <=> InTask(k, t)
         /\ \A t \in Tasklet : Disablers(t)' = Disablers(t)
         /\ \A k \in Task : task'[k].pc \in Busy => task'[k] = task[k]
<1>1. CASE task' = task
  BY <1>1 DEF TypeOK, InTask, Disablers
<1>2. ASSUME NEW k \in Task, NEW e \in [pc : TaskPc, t : Tasklet],
             task' = [task EXCEPT ![k] = e], task[k].pc \notin Busy, e.pc \notin Busy
      PROVE  /\ task' \in [Task -> [pc : TaskPc, t : Tasklet]]
             /\ \A m \in Task, t \in Tasklet : InTask(m, t)' <=> InTask(m, t)
             /\ \A t \in Tasklet : Disablers(t)' = Disablers(t)
             /\ \A m \in Task : task'[m].pc \in Busy => task'[m] = task[m]
  <2>1. task'[k] = e /\ \A m \in Task \ {k} : task'[m] = task[m]
    BY <1>2 DEF TypeOK
  <2>2. task' \in [Task -> [pc : TaskPc, t : Tasklet]]
    BY <1>2 DEF TypeOK
  <2> QED
    BY <2>1, <2>2, <1>2 DEF InTask, Disablers, Busy
<1> QED
  BY <1>1, <1>2 DEF TaskQuiet

LEMMA CountSame ==
  ASSUME CountInv, \A t \in Tasklet : Disablers(t)' = Disablers(t),
         \A t \in Tasklet : tl'[t].count = tl[t].count
  PROVE  CountInv'
  BY DEF CountInv

LEMMA WaitedSame ==
  ASSUME WaitedInv, TypeOK,
         \A k \in Task : task'[k].pc \in {"killed", "disabled"} => task'[k] = task[k],
         \A c \in Cpu, t \in Tasklet : /\ Locked(c, t)' => Locked(c, t)
                                       /\ Executing(c, t)' => Executing(c, t)
  PROVE  WaitedInv'
  BY DEF WaitedInv

-----------------------------------------------------------------------------
(* The steps of the code *)

\* A step that moves, locks and disables no tasklet.
LEMMA QuietStep ==
  ASSUME IInv, NEW c \in Cpu, NEW y, Quiet(cpu[c], y), CpuOK(y),
         cpu' = [cpu EXCEPT ![c] = y], tl' = tl, TaskQuiet, downs' \in Nat, work' = work
  PROVE  IInv'
<1>0. TypeOK /\ CpuInv /\ PlaceInv /\ RunInv /\ CountInv /\ WaitedInv
  BY DEF IInv
<1>1. y \in CpuState
  BY DEF Quiet
<1>2. TypeOK'
  BY <1>0, <1>1, CpuUpdate, TaskQuietViews DEF TypeOK
<1>3. CpuInv'
  BY <1>0, <1>1, CpuInvStep
<1>u. \A d \in Cpu, t \in Tasklet :
        /\ InVec(d, t)' <=> InVec(d, t)
        /\ InList(d, t)' <=> InList(d, t)
        /\ Locked(d, t)' <=> Locked(d, t)
        /\ Executing(d, t)' <=> Executing(d, t)
        /\ cpu'[d].vec = cpu[d].vec /\ Rest(cpu'[d]) = Rest(cpu[d])
  BY <1>0, QuietUpdate
<1>v. /\ \A k \in Task, t \in Tasklet : InTask(k, t)' <=> InTask(k, t)
      /\ \A t \in Tasklet : Disablers(t)' = Disablers(t)
      /\ \A k \in Task : task'[k].pc \in Busy => task'[k] = task[k]
  BY <1>0, TaskQuietViews
<1>4. PlaceInv'
  <2>1. /\ \A d \in Cpu : cpu'[d].vec = cpu[d].vec /\ Rest(cpu'[d]) = Rest(cpu[d])
        /\ \A d \in Cpu, t \in Tasklet :
             (InVec(d, t)' <=> InVec(d, t)) /\ (InList(d, t)' <=> InList(d, t))
    BY <1>u, TaskletAssumption
  <2>2. PlaceInv /\ \A t \in Tasklet : tl'[t].sched = tl[t].sched
    BY <1>0
  <2> QED
    BY <2>1, <2>2, <1>v, PlaceSame
<1>5. RunInv'
  BY <1>0, <1>u, RunSame
<1>6. CountInv'
  BY <1>0, <1>v, CountSame
<1>7. WaitedInv'
  BY <1>0, <1>u, <1>v, WaitedSame DEF Busy
<1> QED
  BY <1>2, <1>3, <1>4, <1>5, <1>6, <1>7 DEF IInv

\* tasklet_schedule() in one go, by a handler or with bottom halves off: a
\* tasklet that is not scheduled enters the vector.
LEMMA PushStep ==
  ASSUME IInv, NEW c \in Cpu, NEW t \in Tasklet, NEW y \in CpuState, CpuOK(y),
         y.vec = <<t>> \o cpu[c].vec, y.list = cpu[c].list,
         y.softirq # cpu[c].softirq => {cpu[c].softirq, y.softirq} \cap {"count", "func"} = {},
         cpu' = [cpu EXCEPT ![c] = y], ~tl[t].sched, tl' = [tl EXCEPT ![t].sched = TRUE],
         TaskQuiet, downs' \in Nat, work' = work
  PROVE  IInv'
<1>0. TypeOK /\ CpuInv /\ PlaceInv /\ RunInv /\ CountInv /\ WaitedInv
  BY DEF IInv
<1>1. /\ tl' \in [Tasklet -> [sched : BOOLEAN, run : BOOLEAN, count : Int]]
      /\ \A u \in Tasklet : /\ tl'[u].run = tl[u].run /\ tl'[u].count = tl[u].count
                            /\ tl'[u].sched <=> u = t \/ tl[u].sched
  BY <1>0, TlSched
<1>2. TypeOK'
  BY <1>0, <1>1, CpuUpdate, TaskQuietViews DEF TypeOK
<1>3. CpuInv'
  BY <1>0, CpuInvStep
<1>v. cpu[c].vec \in Seq(Tasklet)
  BY <1>0 DEF TypeOK, CpuState
<1>r. Rest(y) = Rest(cpu[c])
  BY DEF Rest
<1>u. /\ cpu'[c] = y /\ \A d \in Cpu \ {c} : cpu'[d] = cpu[d]
      /\ \A d \in Cpu, u \in Tasklet :
           /\ InVec(d, u)' <=> InVec(d, u) \/ (d = c /\ u = t)
           /\ InList(d, u)' <=> InList(d, u)
           /\ Locked(d, u)' <=> Locked(d, u)
           /\ Executing(d, u)' <=> Executing(d, u)
  <2>1. \A u \in Tasklet : /\ InVec(c, u)' <=> InVec(c, u) \/ u = t
                           /\ InList(c, u)' <=> InList(c, u)
    <3>1. \A u : In(u, y.vec) <=> u = t \/ In(u, cpu[c].vec)
      BY <1>v, InPrepend
    <3>2. \A u \in Tasklet : /\ InVec(c, u)' <=> In(u, y.vec)
                             /\ InList(c, u)' <=> In(u, Rest(y))
      BY <1>0, CpuUpdate
    <3> QED
      BY <3>1, <3>2, <1>r DEF InVec, InList
  <2>2. \A u \in Tasklet : /\ Locked(c, u)' <=> Locked(c, u)
                           /\ Executing(c, u)' <=> Executing(c, u)
    BY <1>0, CpuUpdate DEF Locked, Executing
  <2>3. \A d \in Cpu \ {c}, u \in Tasklet :
           /\ InVec(d, u)' <=> InVec(d, u)
           /\ InList(d, u)' <=> InList(d, u)
           /\ Locked(d, u)' <=> Locked(d, u)
           /\ Executing(d, u)' <=> Executing(d, u)
    BY <1>0, CpuUpdate
  <2>4. cpu'[c] = y /\ \A d \in Cpu \ {c} : cpu'[d] = cpu[d]
    BY <1>0, CpuUpdate
  <2> QED
    BY <2>1, <2>2, <2>3, <2>4
<1>4. PlaceInv'
  <2>1. \A d \in Cpu : ~InVec(d, t) /\ ~InList(d, t)
    BY <1>0 DEF PlaceInv
  <2>2. NoRepeat(y.vec)
    BY <2>1, <1>0, <1>v, InPrepend DEF PlaceInv, InVec
  <2>3. \A d \in Cpu : NoRepeat(cpu'[d].vec) /\ NoRepeat(Rest(cpu'[d]))
    BY <2>2, <1>u, <1>r, <1>0 DEF PlaceInv
  <2>4. \A d \in Cpu : (NoRepeat(cpu[d].vec) /\ NoRepeat(Rest(cpu[d])))'
    BY <2>3 DEF NoRepeat, Rest
  <2>5. \A k \in Task, u \in Tasklet : InTask(k, u)' <=> InTask(k, u)
    BY <1>0, TaskQuietViews
  <2> QED
    BY <2>1, <2>4, <2>5, <1>u, <1>1, <1>0 DEF PlaceInv
<1>5. RunInv'
  BY <1>0, <1>1, <1>u, RunSame
<1>6. CountInv'
  BY <1>0, <1>1, TaskQuietViews, CountSame
<1>7. WaitedInv'
  BY <1>0, <1>u, TaskQuietViews, WaitedSame DEF Busy
<1> QED
  BY <1>2, <1>3, <1>4, <1>5, <1>6, <1>7 DEF IInv

\* The lists of all CPUs are free of repetitions if those of the CPU that takes
\* the step are.
LEMMA CpuLists ==
  ASSUME TypeOK, PlaceInv, NEW c \in Cpu, NEW y \in CpuState, cpu' = [cpu EXCEPT ![c] = y],
         NoRepeat(y.vec), NoRepeat(Rest(y))
  PROVE  \A d \in Cpu : (NoRepeat(cpu[d].vec) /\ NoRepeat(Rest(cpu[d])))'
<1>1. \A d \in Cpu : NoRepeat(cpu'[d].vec) /\ NoRepeat(Rest(cpu'[d]))
  BY CpuUpdate DEF PlaceInv
<1> QED
  BY <1>1 DEF NoRepeat, Rest

\* tasklet_action() takes the whole vector.
LEMMA TakeListStep ==
  ASSUME IInv, NEW c \in Cpu, TakeList(c)
  PROVE  IInv'
<1>0. TypeOK /\ CpuInv /\ PlaceInv /\ RunInv /\ CountInv /\ WaitedInv
  BY DEF IInv
<1>a. cpu[c] \in CpuState /\ CpuOK(cpu[c]) /\ cpu[c].vec \in Seq(Tasklet)
  BY <1>0 DEF TypeOK, CpuInv, CpuState
<1>b. PICK y : y = [cpu[c] EXCEPT !.list = cpu[c].vec, !.vec = <<>>, !.softirq = "next"]
  OBVIOUS
<1>c. /\ y \in CpuState /\ y.list = cpu[c].vec /\ y.vec = <<>> /\ y.softirq = "next"
      /\ y.online = cpu[c].online /\ y.bh = cpu[c].bh
  <2>0. <<>> \in Seq(Tasklet)
    OBVIOUS
  <2>1. PICK v \in Seq(Tasklet) : v = <<>>
    BY <2>0
  <2>2. y = [cpu[c] EXCEPT !.list = cpu[c].vec, !.vec = v, !.softirq = "next"]
    BY <2>1, <1>b
  <2> QED
    BY <2>1, <2>2, <1>a DEF CpuState
<1>d. cpu' = [cpu EXCEPT ![c] = y]
  BY <1>0, <1>b DEF TakeList, TypeOK
<1>e. tl' = tl /\ TaskQuiet /\ downs' = downs /\ work' = work /\ cpu[c].softirq = "action"
  BY DEF TakeList, TaskQuiet, hotplug
<1>f. Rest(y) = cpu[c].vec /\ Rest(cpu[c]) = <<>>
  BY <1>a, <1>c, <1>e DEF Rest, CpuOK
<1>u. /\ \A u \in Tasklet : /\ ~InVec(c, u)' /\ ~InList(c, u)
                            /\ InList(c, u)' <=> InVec(c, u)
                            /\ ~Locked(c, u)' /\ ~Locked(c, u)
      /\ \A d \in Cpu \ {c}, u \in Tasklet :
           /\ InVec(d, u)' <=> InVec(d, u)
           /\ InList(d, u)' <=> InList(d, u)
           /\ Locked(d, u)' <=> Locked(d, u)
           /\ Executing(d, u)' <=> Executing(d, u)
      /\ \A u \in Tasklet : ~Executing(c, u)'
  <2>1. \A u \in Tasklet : /\ ~InVec(c, u)' /\ ~InList(c, u)
                           /\ InList(c, u)' <=> InVec(c, u)
    <3>1. \A u \in Tasklet : (InVec(c, u)' <=> In(u, y.vec)) /\ (InList(c, u)' <=> In(u, Rest(y)))
      BY <1>0, <1>c, <1>d, CpuUpdate
    <3>2. \A u \in Tasklet : ~InVec(c, u)'
      BY <3>1, <1>c, InEmpty
    <3>3. \A u \in Tasklet : ~InList(c, u)
      BY <1>f, InEmpty DEF InList
    <3>4. \A u \in Tasklet : InList(c, u)' <=> InVec(c, u)
      BY <3>1, <1>f DEF InVec
    <3> QED
      BY <3>2, <3>3, <3>4
  <2>2. \A u \in Tasklet : ~Locked(c, u)' /\ ~Locked(c, u) /\ ~Executing(c, u)'
    BY <1>0, <1>c, <1>d, <1>e, CpuUpdate DEF Locked, Executing
  <2> QED
    BY <2>1, <2>2, <1>0, <1>c, <1>d, CpuUpdate
<1>2. TypeOK'
  BY <1>0, <1>c, <1>d, <1>e, CpuUpdate, TaskQuietViews DEF TypeOK
<1>3. CpuInv'
  <2>1. CpuOK(y)
    BY <1>a, <1>c, <1>e DEF CpuOK
  <2> QED
    BY <2>1, <1>0, <1>c, <1>d, CpuInvStep
<1>4. PlaceInv'
  <2>1. NoRepeat(y.vec) /\ NoRepeat(Rest(y))
    BY <1>0, <1>c, <1>f, InEmpty DEF PlaceInv
  <2>2. \A d \in Cpu : (NoRepeat(cpu[d].vec) /\ NoRepeat(Rest(cpu[d])))'
    BY <2>1, <1>0, <1>c, <1>d, CpuLists
  <2>3. \A k \in Task, u \in Tasklet : InTask(k, u)' <=> InTask(k, u)
    BY <1>0, <1>e, TaskQuietViews
  <2> QED
    BY <2>2, <2>3, <1>u, <1>e, <1>0 DEF PlaceInv
<1>5. RunInv'
  BY <1>0, <1>e, <1>u, RunSame
<1>6. CountInv'
  BY <1>0, <1>e, TaskQuietViews, CountSame
<1>7. WaitedInv'
  BY <1>0, <1>e, <1>u, TaskQuietViews, WaitedSame DEF Busy
<1> QED
  BY <1>2, <1>3, <1>4, <1>5, <1>6, <1>7 DEF IInv

\* tasklet_trylock() takes RUN for the first of the list.  Nobody has killed
\* that tasklet, for it is on the list.
LEMMA LockStep ==
  ASSUME IInv, NEW c \in Cpu, NextTasklet(c), tasklet_trylock(Head(cpu[c].list))
  PROVE  IInv'
<1>0. TypeOK /\ CpuInv /\ PlaceInv /\ RunInv /\ CountInv /\ WaitedInv
  BY DEF IInv
<1> DEFINE t == Head(cpu[c].list)
<1>a. /\ cpu[c] \in CpuState /\ CpuOK(cpu[c]) /\ cpu[c].list \in Seq(Tasklet)
      /\ cpu[c].list # <<>> /\ cpu[c].softirq = "next" /\ t \in Tasklet
  BY <1>0 DEF TypeOK, CpuInv, CpuState, NextTasklet
<1>b. PICK y : y = [cpu[c] EXCEPT !.softirq = "count"]
  OBVIOUS
<1>c. /\ y \in CpuState /\ y.list = cpu[c].list /\ y.vec = cpu[c].vec /\ y.softirq = "count"
      /\ y.online = cpu[c].online /\ y.bh = cpu[c].bh
  BY <1>a, <1>b DEF CpuState
<1>d. cpu' = [cpu EXCEPT ![c] = y] /\ tl' = [tl EXCEPT ![t].run = TRUE] /\ ~tl[t].run
  BY <1>0, <1>b DEF NextTasklet, TypeOK, tasklet_trylock
<1>e. TaskQuiet /\ downs' = downs /\ work' = work
  BY DEF NextTasklet, TaskQuiet, hotplug
<1>f. Rest(y) = cpu[c].list /\ Rest(cpu[c]) = cpu[c].list
  BY <1>a, <1>c DEF Rest
<1> HIDE DEF t
<1>t. /\ tl' \in [Tasklet -> [sched : BOOLEAN, run : BOOLEAN, count : Int]]
      /\ \A u \in Tasklet : /\ tl'[u].sched = tl[u].sched /\ tl'[u].count = tl[u].count
                            /\ tl'[u].run <=> u = t \/ tl[u].run
  BY <1>0, <1>a, <1>d, TlRun
<1>u. /\ \A d \in Cpu, u \in Tasklet :
           /\ InVec(d, u)' <=> InVec(d, u)
           /\ InList(d, u)' <=> InList(d, u)
           /\ Executing(d, u)' <=> Executing(d, u)
           /\ Locked(d, u)' <=> Locked(d, u) \/ (d = c /\ u = t)
      /\ InList(c, t)
  <2>1. \A u \in Tasklet : /\ InVec(c, u)' <=> InVec(c, u)
                           /\ InList(c, u)' <=> InList(c, u)
    BY <1>0, <1>c, <1>d, <1>f, CpuUpdate DEF InVec, InList
  <2>2. \A u \in Tasklet : /\ Executing(c, u)' <=> Executing(c, u)
                           /\ Locked(c, u)' <=> Locked(c, u) \/ u = t
    BY <1>0, <1>a, <1>c, <1>d, CpuUpdate DEF Locked, Executing, t
  <2>3. InList(c, t)
    BY <1>a, <1>f, InTail DEF InList, t
  <2>4. \A d \in Cpu \ {c}, u \in Tasklet :
           /\ InVec(d, u)' <=> InVec(d, u)
           /\ InList(d, u)' <=> InList(d, u)
           /\ Locked(d, u)' <=> Locked(d, u)
           /\ Executing(d, u)' <=> Executing(d, u)
    BY <1>0, <1>c, <1>d, CpuUpdate
  <2> QED
    BY <2>1, <2>2, <2>3, <2>4
<1>2. TypeOK'
  BY <1>0, <1>c, <1>d, <1>e, <1>t, CpuUpdate, TaskQuietViews DEF TypeOK
<1>3. CpuInv'
  <2>1. CpuOK(y)
    BY <1>a, <1>c DEF CpuOK
  <2> QED
    BY <2>1, <1>0, <1>c, <1>d, CpuInvStep
<1>4. PlaceInv'
  <2>1. \A d \in Cpu : cpu'[d].vec = cpu[d].vec /\ Rest(cpu'[d]) = Rest(cpu[d])
    BY <1>0, <1>c, <1>d, <1>f, CpuUpdate
  <2> QED
    BY <2>1, <1>0, <1>e, <1>t, <1>u, TaskQuietViews, PlaceSame
<1>5. RunInv'
  BY <1>0, <1>a, <1>d, <1>t, <1>u DEF RunInv
<1>6. CountInv'
  BY <1>0, <1>e, <1>t, TaskQuietViews, CountSame
<1>7. WaitedInv'
  <2>1. \A k \in Task : ~InTask(k, t)
    BY <1>0, <1>a, <1>u DEF PlaceInv
  <2>2. \A k \in Task : task'[k].pc \in Busy => task'[k] = task[k]
    BY <1>0, <1>e, TaskQuietViews
  <2> QED
    BY <2>1, <2>2, <1>0, <1>u DEF WaitedInv, Busy, InTask
<1> QED
  BY <1>2, <1>3, <1>4, <1>5, <1>6, <1>7 DEF IInv

\* The list of a softirq that has a tasklet in hand.
LEMMA InHand ==
  ASSUME TypeOK, CpuInv, NEW c \in Cpu, cpu[c].softirq \in {"count", "func", "back"}
  PROVE  /\ cpu[c] \in CpuState /\ cpu[c].vec \in Seq(Tasklet) /\ cpu[c].list \in Seq(Tasklet)
         /\ cpu[c].list # <<>> /\ Head(cpu[c].list) \in Tasklet
         /\ Tail(cpu[c].list) \in Seq(Tasklet) /\ cpu[c].online = "up" /\ CpuOK(cpu[c])
<1>1. cpu[c] \in CpuState /\ CpuOK(cpu[c])
  BY DEF TypeOK, CpuInv
<1>2. cpu[c].vec \in Seq(Tasklet) /\ cpu[c].list \in Seq(Tasklet)
  BY <1>1 DEF CpuState
<1>3. cpu[c].list # <<>> /\ cpu[c].online = "up"
  BY <1>1 DEF CpuOK
<1> QED
  BY <1>1, <1>2, <1>3, InTail

\* tasklet_unlock(): the lists are left alone, RUN is cleared.
LEMMA UnlockStep ==
  ASSUME IInv, NEW c \in Cpu, NEW t \in Tasklet, NEW y \in CpuState, CpuOK(y),
         cpu[c].softirq \in {"count", "func"}, t = Head(cpu[c].list),
         y.vec = cpu[c].vec, Rest(y) = Rest(cpu[c]), y.softirq \notin {"count", "func"},
         cpu' = [cpu EXCEPT ![c] = y], tl' = [tl EXCEPT ![t].run = FALSE],
         TaskQuiet, downs' \in Nat, work' = work
  PROVE  IInv'
<1>0. TypeOK /\ CpuInv /\ PlaceInv /\ RunInv /\ CountInv /\ WaitedInv
  BY DEF IInv
<1>t. /\ tl' \in [Tasklet -> [sched : BOOLEAN, run : BOOLEAN, count : Int]]
      /\ \A u \in Tasklet : /\ tl'[u].sched = tl[u].sched /\ tl'[u].count = tl[u].count
                            /\ tl'[u].run <=> u # t /\ tl[u].run
  <2>1. /\ tl' \in [Tasklet -> [sched : BOOLEAN, run : BOOLEAN, count : Int]]
        /\ \A u \in Tasklet : tl'[u].sched = tl[u].sched /\ tl'[u].count = tl[u].count
        /\ \A u \in Tasklet \ {t} : tl'[u].run = tl[u].run
        /\ tl'[t].run = FALSE
    <3>1. TypeOK /\ FALSE \in BOOLEAN
      BY <1>0
    <3> QED
      BY <3>1, TlRun
  <2> QED
    BY <2>1
<1>u. \A d \in Cpu, u \in Tasklet :
           /\ InVec(d, u)' <=> InVec(d, u)
           /\ InList(d, u)' <=> InList(d, u)
           /\ Executing(d, u)' <=> d # c /\ Executing(d, u)
           /\ Locked(d, u)' <=> d # c /\ Locked(d, u)
  <2>1. \A u \in Tasklet : /\ InVec(c, u)' <=> InVec(c, u)
                           /\ InList(c, u)' <=> InList(c, u)
    BY <1>0, CpuUpdate DEF InVec, InList
  <2>2. \A u \in Tasklet : ~Executing(c, u)' /\ ~Locked(c, u)'
    BY <1>0, CpuUpdate
  <2>3. \A d \in Cpu \ {c}, u \in Tasklet :
           /\ InVec(d, u)' <=> InVec(d, u)
           /\ InList(d, u)' <=> InList(d, u)
           /\ Locked(d, u)' <=> Locked(d, u)
           /\ Executing(d, u)' <=> Executing(d, u)
    BY <1>0, CpuUpdate
  <2> QED
    BY <2>1, <2>2, <2>3
<1>l. \A u \in Tasklet : Locked(c, u) <=> u = t
  BY DEF Locked, Executing
<1>2. TypeOK'
  BY <1>0, <1>t, CpuUpdate, TaskQuietViews DEF TypeOK
<1>3. CpuInv'
  BY <1>0, CpuInvStep
<1>4. PlaceInv'
  <2>1. \A d \in Cpu : cpu'[d].vec = cpu[d].vec /\ Rest(cpu'[d]) = Rest(cpu[d])
    BY <1>0, CpuUpdate
  <2> QED
    BY <2>1, <1>0, <1>t, <1>u, TaskQuietViews, PlaceSame
<1>5. RunInv'
  BY <1>0, <1>t, <1>u, <1>l DEF RunInv
<1>6. CountInv'
  BY <1>0, <1>t, TaskQuietViews, CountSame
<1>7. WaitedInv'
  BY <1>0, <1>u, TaskQuietViews, WaitedSame DEF Busy
<1> QED
  BY <1>2, <1>3, <1>4, <1>5, <1>6, <1>7 DEF IInv

\* The count is zero: SCHED is cleared and the function called.  Nobody is
\* between tasklet_disable() and tasklet_enable().
LEMMA CallStep ==
  ASSUME IInv, NEW c \in Cpu, CheckCount(c), tl[Head(cpu[c].list)].count = 0
  PROVE  IInv'
<1>0. TypeOK /\ CpuInv /\ PlaceInv /\ RunInv /\ CountInv /\ WaitedInv
  BY DEF IInv
<1> DEFINE t == Head(cpu[c].list)
<1>a. /\ cpu[c] \in CpuState /\ CpuOK(cpu[c]) /\ cpu[c].list \in Seq(Tasklet)
      /\ cpu[c].list # <<>> /\ cpu[c].softirq = "count" /\ t \in Tasklet
      /\ Tail(cpu[c].list) \in Seq(Tasklet) /\ cpu[c].online = "up"
  BY <1>0, InHand DEF CheckCount
<1>b. PICK y : y = [cpu[c] EXCEPT !.softirq = "func"]
  OBVIOUS
<1>c. /\ y \in CpuState /\ y.list = cpu[c].list /\ y.vec = cpu[c].vec /\ y.softirq = "func"
      /\ y.online = cpu[c].online /\ y.bh = cpu[c].bh
  BY <1>a, <1>b DEF CpuState
<1>d. cpu' = [cpu EXCEPT ![c] = y] /\ tl' = [tl EXCEPT ![t].sched = FALSE] /\ tl[t].count = 0
  BY <1>0, <1>b DEF CheckCount, TypeOK
<1>e. TaskQuiet /\ downs' = downs /\ work' = work
  BY DEF CheckCount, TaskQuiet, hotplug
<1>f. Rest(y) = Tail(cpu[c].list) /\ Rest(cpu[c]) = cpu[c].list
  BY <1>a, <1>c DEF Rest
<1>n. NoRepeat(cpu[c].list) /\ NoRepeat(cpu[c].vec)
  BY <1>0, <1>f DEF PlaceInv
<1>h. /\ \A u : In(u, cpu[c].list) <=> u = t \/ In(u, Tail(cpu[c].list))
      /\ NoRepeat(Tail(cpu[c].list)) /\ ~In(t, Tail(cpu[c].list))
  BY <1>a, <1>n, InTail
<1> HIDE DEF t
<1>t. /\ tl' \in [Tasklet -> [sched : BOOLEAN, run : BOOLEAN, count : Int]]
      /\ \A u \in Tasklet : /\ tl'[u].run = tl[u].run /\ tl'[u].count = tl[u].count
                            /\ tl'[u].sched <=> u # t /\ tl[u].sched
  BY <1>0, <1>a, <1>d, TlSched
<1>u. /\ \A d \in Cpu, u \in Tasklet :
           /\ InVec(d, u)' <=> InVec(d, u)
           /\ InList(d, u)' <=> InList(d, u) /\ ~(d = c /\ u = t)
           /\ Locked(d, u)' <=> Locked(d, u)
           /\ Executing(d, u)' => Executing(d, u) \/ u = t
      /\ InList(c, t)
  <2>1. \A u \in Tasklet : InVec(c, u)' <=> InVec(c, u)
    BY <1>0, <1>c, <1>d, CpuUpdate DEF InVec
  <2>2. \A u \in Tasklet : InList(c, u)' <=> InList(c, u) /\ u # t
    <3>0. \A u \in Tasklet : InList(c, u)' <=> In(u, Rest(y))
      BY <1>0, <1>c, <1>d, CpuUpdate
    <3>1. \A u \in Tasklet : InList(c, u)' <=> In(u, Tail(cpu[c].list))
      BY <3>0, <1>f
    <3>2. \A u \in Tasklet : InList(c, u) <=> In(u, cpu[c].list)
      BY <1>f DEF InList
    <3> QED
      BY <3>1, <3>2, <1>h
  <2>3. \A u \in Tasklet : (Locked(c, u)' <=> u = t) /\ (Executing(c, u)' <=> u = t)
    <3>1. \A u \in Tasklet :
            /\ Locked(c, u)' <=> y.softirq \in {"count", "func"} /\ Head(y.list) = u
            /\ Executing(c, u)' <=> y.softirq = "func" /\ Head(y.list) = u
      BY <1>0, <1>c, <1>d, CpuUpdate
    <3>2. y.softirq = "func" /\ Head(y.list) = t
      BY <1>c DEF t
    <3> QED
      BY <3>1, <3>2
  <2>4. \A u \in Tasklet : Locked(c, u) <=> u = t
    BY <1>a DEF Locked, Executing, t
  <2>5. InList(c, t)
    BY <1>f, <1>h DEF InList
  <2>6. \A d \in Cpu \ {c}, u \in Tasklet :
           /\ InVec(d, u)' <=> InVec(d, u)
           /\ InList(d, u)' <=> InList(d, u)
           /\ Locked(d, u)' <=> Locked(d, u)
           /\ Executing(d, u)' <=> Executing(d, u)
    BY <1>0, <1>c, <1>d, CpuUpdate
  <2> QED
    BY <2>1, <2>2, <2>3, <2>4, <2>5, <2>6
<1>2. TypeOK'
  BY <1>0, <1>c, <1>d, <1>e, <1>t, CpuUpdate, TaskQuietViews DEF TypeOK
<1>3. CpuInv'
  <2>1. CpuOK(y)
    BY <1>a, <1>c DEF CpuOK
  <2> QED
    BY <2>1, <1>0, <1>c, <1>d, CpuInvStep
<1>4. PlaceInv'
  <2>2. \A d \in Cpu : (NoRepeat(cpu[d].vec) /\ NoRepeat(Rest(cpu[d])))'
    BY <1>n, <1>h, <1>f, <1>0, <1>c, <1>d, CpuLists
  <2>3. \A k \in Task, u \in Tasklet : InTask(k, u)' <=> InTask(k, u)
    BY <1>0, <1>e, TaskQuietViews
  <2> QED
    BY <2>2, <2>3, <1>a, <1>u, <1>t, <1>0 DEF PlaceInv
<1>5. RunInv'
  BY <1>0, <1>t, <1>u, RunSame
<1>6. CountInv'
  BY <1>0, <1>e, <1>t, TaskQuietViews, CountSame
<1>7. WaitedInv'
  <2>1. IsFiniteSet(Disablers(t))
    BY TaskletAssumption, FS_Subset DEF Disablers
  <2>2. Disablers(t) = {}
    BY <2>1, <1>0, <1>a, <1>d, FS_EmptySet DEF CountInv
  <2>3. \A k \in Task : task'[k].pc \in Busy => task'[k] = task[k]
    BY <1>0, <1>e, TaskQuietViews
  <2> QED
    BY <2>2, <2>3, <1>0, <1>u DEF WaitedInv, Busy, Disablers
<1> QED
  BY <1>2, <1>3, <1>4, <1>5, <1>6, <1>7 DEF IInv

\* Not run: the tasklet goes from the list back to the vector.
LEMMA PutBackStep ==
  ASSUME IInv, NEW c \in Cpu, PutBack(c)
  PROVE  IInv'
<1>0. TypeOK /\ CpuInv /\ PlaceInv /\ RunInv /\ CountInv /\ WaitedInv
  BY DEF IInv
<1> DEFINE t == Head(cpu[c].list)
           l == Tail(cpu[c].list)
           x == cpu[c]
<1>a. /\ x \in CpuState /\ CpuOK(x) /\ x.list \in Seq(Tasklet) /\ x.vec \in Seq(Tasklet)
      /\ x.list # <<>> /\ x.softirq = "back" /\ t \in Tasklet
      /\ l \in Seq(Tasklet) /\ x.online = "up"
  BY <1>0, InHand DEF PutBack
<1>b. PICK z : z = Queue(x, t)
  OBVIOUS
<1>z. /\ z \in CpuState /\ z.vec = <<t>> \o x.vec /\ z.list = x.list
      /\ z.online = x.online /\ z.bh = x.bh /\ z.softirq = x.softirq
  <2> HIDE DEF x, t
  <2> QED
    BY <1>a, <1>b, QueueFront
<1>y. PICK y : y = [Queue(x, t) EXCEPT !.pending = TRUE, !.list = l, !.softirq = "next"]
  OBVIOUS
<1>c. /\ y \in CpuState /\ y.list = l /\ y.vec = <<t>> \o x.vec /\ y.softirq = "next"
      /\ y.online = x.online /\ y.bh = x.bh
  <2>1. y = [z EXCEPT !.pending = TRUE, !.list = l, !.softirq = "next"]
    BY <1>b, <1>y, <1>z
  <2> HIDE DEF l, t
  <2> QED
    BY <2>1, <1>z, <1>a DEF CpuState
<1>d. cpu' = [cpu EXCEPT ![c] = y] /\ tl' = tl
  BY <1>y DEF PutBack
<1>e. TaskQuiet /\ downs' = downs /\ work' = work
  BY DEF PutBack, TaskQuiet, hotplug
<1>f. Rest(y) = l /\ Rest(x) = x.list
  BY <1>a, <1>c DEF Rest
<1>n. NoRepeat(x.list) /\ NoRepeat(x.vec)
  BY <1>0, <1>f DEF PlaceInv
<1>h. /\ \A u : In(u, x.list) <=> u = t \/ In(u, l)
      /\ NoRepeat(l) /\ ~In(t, l)
  BY <1>a, <1>n, InTail
<1>p. InList(c, t) /\ ~InVec(c, t)
  <2>1. InList(c, t)
    BY <1>f, <1>h DEF InList
  <2> QED
    BY <2>1, <1>0, <1>a DEF PlaceInv
<1>q. NoRepeat(y.vec) /\ \A u : In(u, y.vec) <=> u = t \/ In(u, x.vec)
  <2>1. ~In(t, x.vec)
    BY <1>p DEF InVec
  <2> HIDE DEF t
  <2> QED
    BY <2>1, <1>a, <1>c, <1>n, InPrepend
<1> HIDE DEF t, l
<1>u. \A d \in Cpu, u \in Tasklet :
           /\ InVec(d, u)' <=> InVec(d, u) \/ (d = c /\ u = t)
           /\ InList(d, u)' <=> InList(d, u) /\ ~(d = c /\ u = t)
           /\ Locked(d, u)' <=> Locked(d, u)
           /\ Executing(d, u)' <=> Executing(d, u)
  <2>0. \A u \in Tasklet : /\ InVec(c, u)' <=> In(u, y.vec)
                           /\ InList(c, u)' <=> In(u, Rest(y))
                           /\ ~Locked(c, u)' /\ ~Executing(c, u)'
    BY <1>0, <1>c, <1>d, CpuUpdate
  <2>1. \A u \in Tasklet : InVec(c, u)' <=> InVec(c, u) \/ u = t
    BY <2>0, <1>q DEF InVec
  <2>2. \A u \in Tasklet : InList(c, u)' <=> InList(c, u) /\ u # t
    <3>2. \A u \in Tasklet : InList(c, u) <=> In(u, cpu[c].list)
      BY <1>f DEF InList
    <3> QED
      BY <2>0, <3>2, <1>h, <1>f
  <2>3. \A u \in Tasklet : ~Locked(c, u) /\ ~Executing(c, u)
    BY <1>a DEF Locked, Executing
  <2>6. \A d \in Cpu \ {c}, u \in Tasklet :
           /\ InVec(d, u)' <=> InVec(d, u)
           /\ InList(d, u)' <=> InList(d, u)
           /\ Locked(d, u)' <=> Locked(d, u)
           /\ Executing(d, u)' <=> Executing(d, u)
    BY <1>0, <1>c, <1>d, CpuUpdate
  <2> QED
    BY <2>0, <2>1, <2>2, <2>3, <2>6
<1>2. TypeOK'
  BY <1>0, <1>c, <1>d, <1>e, CpuUpdate, TaskQuietViews DEF TypeOK
<1>3. CpuInv'
  <2>1. CpuOK(y)
    BY <1>a, <1>c DEF CpuOK
  <2> QED
    BY <2>1, <1>0, <1>c, <1>d, CpuInvStep
<1>4. PlaceInv'
  <2>2. \A d \in Cpu : (NoRepeat(cpu[d].vec) /\ NoRepeat(Rest(cpu[d])))'
    BY <1>q, <1>h, <1>f, <1>0, <1>c, <1>d, CpuLists
  <2>3. \A k \in Task, u \in Tasklet : InTask(k, u)' <=> InTask(k, u)
    BY <1>0, <1>e, TaskQuietViews
  <2> QED
    BY <2>2, <2>3, <1>a, <1>u, <1>p, <1>d, <1>0 DEF PlaceInv
<1>5. RunInv'
  BY <1>0, <1>d, <1>u, RunSame
<1>6. CountInv'
  BY <1>0, <1>d, <1>e, TaskQuietViews, CountSame
<1>7. WaitedInv'
  BY <1>0, <1>e, <1>u, TaskQuietViews, WaitedSame DEF Busy
<1> QED
  BY <1>2, <1>3, <1>4, <1>5, <1>6, <1>7 DEF IInv

\* The function schedules its own tasklet again before tasklet_unlock().
LEMMA AgainStep ==
  ASSUME IInv, NEW c \in Cpu, NEW t \in Tasklet, NEW y \in CpuState,
         cpu[c].softirq = "func", t = Head(cpu[c].list), ~tl[t].sched,
         y.vec = <<t>> \o cpu[c].vec, y.list = Tail(cpu[c].list), y.softirq = "next",
         CpuOK(y), cpu' = [cpu EXCEPT ![c] = y],
         tl' = [tl EXCEPT ![t].run = FALSE, ![t].sched = TRUE],
         TaskQuiet, downs' \in Nat, work' = work
  PROVE  IInv'
<1>0. TypeOK /\ CpuInv /\ PlaceInv /\ RunInv /\ CountInv /\ WaitedInv
  BY DEF IInv
<1>t. /\ tl' \in [Tasklet -> [sched : BOOLEAN, run : BOOLEAN, count : Int]]
      /\ \A u \in Tasklet : /\ tl'[u].count = tl[u].count
                            /\ tl'[u].run <=> u # t /\ tl[u].run
                            /\ tl'[u].sched <=> u = t \/ tl[u].sched
  <2>1. tl \in [Tasklet -> [sched : BOOLEAN, run : BOOLEAN, count : Int]]
    BY <1>0 DEF TypeOK
  <2>2. tl' \in [Tasklet -> [sched : BOOLEAN, run : BOOLEAN, count : Int]]
    BY <2>1
  <2>3. \A u \in Tasklet \ {t} : tl'[u] = tl[u]
    BY <2>1
  <2>4. tl'[t].count = tl[t].count /\ tl'[t].run = FALSE /\ tl'[t].sched = TRUE
    BY <2>1
  <2> QED
    BY <2>2, <2>3, <2>4
<1>a. cpu[c].vec \in Seq(Tasklet)
  BY <1>0, InHand
<1>f. Rest(y) = Rest(cpu[c])
  BY DEF Rest
<1>p. \A d \in Cpu : ~InVec(d, t) /\ ~InList(d, t)
  BY <1>0 DEF PlaceInv
<1>q. NoRepeat(y.vec) /\ \A u : In(u, y.vec) <=> u = t \/ In(u, cpu[c].vec)
  <2>1. ~In(t, cpu[c].vec) /\ NoRepeat(cpu[c].vec)
    BY <1>p, <1>0 DEF InVec, PlaceInv
  <2> QED
    BY <2>1, <1>a, InPrepend
<1>u. \A d \in Cpu, u \in Tasklet :
           /\ InVec(d, u)' <=> InVec(d, u) \/ (d = c /\ u = t)
           /\ InList(d, u)' <=> InList(d, u)
           /\ Locked(d, u)' <=> Locked(d, u) /\ d # c
           /\ Executing(d, u)' <=> Executing(d, u) /\ d # c
  <2>0. \A u \in Tasklet : /\ InVec(c, u)' <=> In(u, y.vec)
                           /\ InList(c, u)' <=> In(u, Rest(y))
                           /\ ~Locked(c, u)' /\ ~Executing(c, u)'
    BY <1>0, CpuUpdate
  <2>1. \A u \in Tasklet : InVec(c, u)' <=> InVec(c, u) \/ u = t
    BY <2>0, <1>q DEF InVec
  <2>2. \A u \in Tasklet : InList(c, u)' <=> InList(c, u)
    BY <2>0, <1>f DEF InList
  <2>6. \A d \in Cpu \ {c}, u \in Tasklet :
           /\ InVec(d, u)' <=> InVec(d, u)
           /\ InList(d, u)' <=> InList(d, u)
           /\ Locked(d, u)' <=> Locked(d, u)
           /\ Executing(d, u)' <=> Executing(d, u)
    BY <1>0, CpuUpdate
  <2> QED
    BY <2>0, <2>1, <2>2, <2>6
<1>l. \A u \in Tasklet : Locked(c, u) <=> u = t
  BY DEF Locked, Executing
<1>2. TypeOK'
  BY <1>0, <1>t, CpuUpdate, TaskQuietViews DEF TypeOK
<1>3. CpuInv'
  BY <1>0, CpuInvStep
<1>4. PlaceInv'
  <2>1. NoRepeat(Rest(y))
    BY <1>0, <1>f DEF PlaceInv
  <2>2. \A d \in Cpu : (NoRepeat(cpu[d].vec) /\ NoRepeat(Rest(cpu[d])))'
    BY <2>1, <1>q, <1>0, CpuLists
  <2>3. \A k \in Task, u \in Tasklet : InTask(k, u)' <=> InTask(k, u)
    BY <1>0, TaskQuietViews
  <2>4. ASSUME NEW u \in Tasklet
        PROVE  /\ \A d, e \in Cpu : /\ InVec(d, u)' /\ InVec(e, u)' => d = e
                                    /\ InList(d, u)' /\ InList(e, u)' => d = e
                                    /\ ~(InVec(d, u)' /\ InList(e, u)')
               /\ \A k, m \in Task : InTask(k, u)' /\ InTask(m, u)' => k = m
               /\ \A k \in Task, d \in Cpu : InTask(k, u)' => ~InVec(d, u)' /\ ~InList(d, u)'
               /\ tl'[u].sched <=> \/ \E d \in Cpu : InVec(d, u)' \/ InList(d, u)'
                                   \/ \E k \in Task : InTask(k, u)'
    <3>1. /\ \A d, e \in Cpu : /\ InVec(d, u) /\ InVec(e, u) => d = e
                               /\ InList(d, u) /\ InList(e, u) => d = e
                               /\ ~(InVec(d, u) /\ InList(e, u))
          /\ \A k, m \in Task : InTask(k, u) /\ InTask(m, u) => k = m
          /\ \A k \in Task, d \in Cpu : InTask(k, u) => ~InVec(d, u) /\ ~InList(d, u)
          /\ tl[u].sched <=> \/ \E d \in Cpu : InVec(d, u) \/ InList(d, u)
                             \/ \E k \in Task : InTask(k, u)
      BY <1>0 DEF PlaceInv
    <3>2. /\ \A d \in Cpu : InVec(d, u)' <=> InVec(d, u) \/ (d = c /\ u = t)
          /\ \A d \in Cpu : InList(d, u)' <=> InList(d, u)
          /\ \A k \in Task : InTask(k, u)' <=> InTask(k, u)
      BY <1>u, <2>3
    <3>3. tl'[u].sched <=> u = t \/ tl[u].sched
      BY <1>t
    <3>4. u = t => ~tl[u].sched
      OBVIOUS
    <3> QED
      BY <3>1, <3>2, <3>3, <3>4
  <2> QED
    BY <2>2, <2>4 DEF PlaceInv
<1>5. RunInv'
  <2>1. ASSUME NEW u \in Tasklet
        PROVE  /\ tl'[u].run <=> \E d \in Cpu : Locked(d, u)'
               /\ \A d, e \in Cpu : Locked(d, u)' /\ Locked(e, u)' => d = e
    <3>1. /\ tl[u].run <=> \E d \in Cpu : Locked(d, u)
          /\ \A d, e \in Cpu : Locked(d, u) /\ Locked(e, u) => d = e
      BY <1>0 DEF RunInv
    <3>2. \A d \in Cpu : Locked(d, u)' <=> Locked(d, u) /\ d # c
      BY <1>u
    <3>3. (tl'[u].run <=> u # t /\ tl[u].run) /\ (Locked(c, u) <=> u = t)
      BY <1>t, <1>l
    <3> QED
      BY <3>1, <3>2, <3>3
  <2> QED
    BY <2>1 DEF RunInv
<1>6. CountInv'
  BY <1>0, <1>t, TaskQuietViews, CountSame
<1>7. WaitedInv'
  BY <1>0, <1>u, TaskQuietViews, WaitedSame DEF Busy
<1> QED
  BY <1>2, <1>3, <1>4, <1>5, <1>6, <1>7 DEF IInv

\* A tasklet that is locked elsewhere will be put back; the end of the list.
LEMMA ListStep ==
  ASSUME IInv, NEW c \in Cpu,
         (NextTasklet(c) /\ ~tasklet_trylock(Head(cpu[c].list))) \/ Restart(c)
  PROVE  IInv'
<1>0. cpu[c] \in CpuState /\ CpuOK(cpu[c]) /\ cpu \in [Cpu -> CpuState] /\ downs \in Nat
  BY DEF IInv, TypeOK, CpuInv
<1>1. CASE NextTasklet(c) /\ ~tasklet_trylock(Head(cpu[c].list))
  <2>1. PICK y : y = [cpu[c] EXCEPT !.softirq = "back"]
    OBVIOUS
  <2>2. /\ cpu[c].softirq = "next" /\ cpu[c].list # <<>> /\ cpu' = [cpu EXCEPT ![c] = y]
        /\ tl' = tl /\ TaskQuiet /\ downs' = downs /\ work' = work
    BY <1>0, <1>1, <2>1 DEF NextTasklet, TaskQuiet, hotplug
  <2>3. /\ y \in CpuState /\ y.vec = cpu[c].vec /\ y.list = cpu[c].list /\ y.softirq = "back"
        /\ y.online = cpu[c].online /\ y.bh = cpu[c].bh
    BY <1>0, <2>1 DEF CpuState
  <2>4. Quiet(cpu[c], y) /\ CpuOK(y)
    BY <1>0, <2>2, <2>3 DEF Quiet, CpuOK
  <2> QED
    BY <1>0, <2>2, <2>4, QuietStep
<1>2. CASE Restart(c)
  <2> DEFINE x == cpu[c]
             out == [x EXCEPT !.softirq = "none", !.left = 0]
  <2>1. PICK y : y = IF ~x.pending THEN out
                     ELSE IF x.left > 1
                       THEN [x EXCEPT !.pending = FALSE, !.softirq = "action", !.left = @ - 1]
                     ELSE wakeup_softirqd(out)
    OBVIOUS
  <2>2. /\ x.softirq = "next" /\ x.list = <<>> /\ cpu' = [cpu EXCEPT ![c] = y]
        /\ tl' = tl /\ TaskQuiet /\ downs' = downs /\ work' = work
    BY <1>2, <2>1 DEF Restart, TaskQuiet, hotplug
  <2>3. /\ out \in CpuState /\ out.vec = x.vec /\ out.list = x.list /\ out.softirq = "none"
        /\ out.online = x.online /\ out.bh = x.bh
    BY <1>0 DEF CpuState
  <2>4. /\ y \in CpuState /\ y.vec = x.vec /\ y.list = x.list
        /\ y.softirq \in {"none", "action"} /\ y.online = x.online /\ y.bh = x.bh
    <3>1. CASE y = out
      BY <3>1, <2>3
    <3>2. CASE y = wakeup_softirqd(out)
      <4> HIDE DEF out
      <4> QED
        BY <3>2, <2>3 DEF wakeup_softirqd, CpuState
    <3>3. CASE /\ y = [x EXCEPT !.pending = FALSE, !.softirq = "action", !.left = @ - 1]
               /\ x.left > 1
      <4>1. x.left - 1 \in Nat
        BY <1>0, <3>3 DEF CpuState
      <4> QED
        BY <4>1, <1>0, <3>3 DEF CpuState
    <3> QED
      BY <2>1, <3>1, <3>2, <3>3
  <2>5. Quiet(x, y) /\ CpuOK(y)
    BY <1>0, <2>2, <2>4 DEF Quiet, CpuOK
  <2> QED
    BY <1>0, <2>2, <2>5, QuietStep
<1> QED
  BY <1>1, <1>2

\* A disabled tasklet is unlocked and will be put back.
LEMMA DisabledStep ==
  ASSUME IInv, NEW c \in Cpu, CheckCount(c), tl[Head(cpu[c].list)].count # 0
  PROVE  IInv'
<1>0. TypeOK /\ CpuInv /\ cpu[c].softirq = "count"
  BY DEF IInv, CheckCount
<1>1. /\ cpu[c] \in CpuState /\ CpuOK(cpu[c]) /\ cpu[c].list # <<>> /\ cpu[c].online = "up"
      /\ Head(cpu[c].list) \in Tasklet
  BY <1>0, InHand
<1>2. PICK y : y = [cpu[c] EXCEPT !.softirq = "back"]
  OBVIOUS
<1>3. /\ y \in CpuState /\ y.vec = cpu[c].vec /\ y.list = cpu[c].list /\ y.softirq = "back"
      /\ y.online = cpu[c].online /\ y.bh = cpu[c].bh
  BY <1>1, <1>2 DEF CpuState
<1>4. /\ cpu' = [cpu EXCEPT ![c] = y] /\ tl' = [tl EXCEPT ![Head(cpu[c].list)].run = FALSE]
      /\ TaskQuiet /\ downs' \in Nat /\ work' = work
  BY <1>0, <1>2 DEF CheckCount, TypeOK, TaskQuiet, hotplug
<1>5. CpuOK(y) /\ Rest(y) = Rest(cpu[c])
  BY <1>0, <1>1, <1>3 DEF CpuOK, Rest
<1> QED
  BY <1>0, <1>1, <1>3, <1>4, <1>5, UnlockStep

\* The function returns.
LEMMA FuncStep ==
  ASSUME IInv, NEW c \in Cpu, Func(c)
  PROVE  IInv'
<1>0. TypeOK /\ CpuInv /\ cpu[c].softirq = "func"
  BY DEF IInv, Func
<1> DEFINE t == Head(cpu[c].list)
<1>1. /\ cpu[c] \in CpuState /\ CpuOK(cpu[c]) /\ cpu[c].list # <<>> /\ cpu[c].online = "up"
      /\ t \in Tasklet /\ Tail(cpu[c].list) \in Seq(Tasklet)
  BY <1>0, InHand
<1>2. PICK done : done = [cpu[c] EXCEPT !.list = Tail(cpu[c].list), !.softirq = "next"]
  OBVIOUS
<1>3. /\ done \in CpuState /\ done.vec = cpu[c].vec /\ done.list = Tail(cpu[c].list)
      /\ done.softirq = "next" /\ done.online = cpu[c].online /\ done.bh = cpu[c].bh
  BY <1>1, <1>2 DEF CpuState
<1>4. TaskQuiet /\ downs' \in Nat /\ work' = work
  BY <1>0 DEF Func, TypeOK, TaskQuiet, hotplug
<1>5. \/ tl' = [tl EXCEPT ![t].run = FALSE] /\ cpu' = [cpu EXCEPT ![c] = done]
      \/ /\ ~tl[t].sched
         /\ tl' = [tl EXCEPT ![t].run = FALSE, ![t].sched = TRUE]
         /\ cpu' = [cpu EXCEPT ![c] = [Queue(done, t) EXCEPT !.pending = TRUE]]
  BY <1>2 DEF Func
<1>6. CASE tl' = [tl EXCEPT ![t].run = FALSE] /\ cpu' = [cpu EXCEPT ![c] = done]
  <2>1. CpuOK(done) /\ Rest(done) = Rest(cpu[c])
    BY <1>0, <1>1, <1>3 DEF CpuOK, Rest
  <2> HIDE DEF t
  <2>2. t = Head(cpu[c].list)
    BY DEF t
  <2> QED
    BY <2>1, <2>2, <1>0, <1>1, <1>3, <1>4, <1>6, UnlockStep
<1>7. CASE /\ ~tl[t].sched
           /\ tl' = [tl EXCEPT ![t].run = FALSE, ![t].sched = TRUE]
           /\ cpu' = [cpu EXCEPT ![c] = [Queue(done, t) EXCEPT !.pending = TRUE]]
  <2> HIDE DEF t
  <2>1. PICK z : z = Queue(done, t)
    OBVIOUS
  <2>2. /\ z \in CpuState /\ z.vec = <<t>> \o cpu[c].vec /\ z.list = Tail(cpu[c].list)
        /\ z.softirq = "next" /\ z.online = cpu[c].online /\ z.bh = cpu[c].bh
    <3>1. t \in Tasklet /\ done \in CpuState
      BY <1>1, <1>3
    <3>2. /\ z \in CpuState /\ z.vec = <<t>> \o done.vec /\ z.list = done.list
          /\ z.online = done.online /\ z.bh = done.bh /\ z.softirq = done.softirq
      BY <3>1, <2>1, QueueFront
    <3> QED
      BY <3>2, <1>3
  <2>3. PICK y : y = [Queue(done, t) EXCEPT !.pending = TRUE]
    OBVIOUS
  <2>e. y = [z EXCEPT !.pending = TRUE]
    BY <2>1, <2>3
  <2>4. /\ y \in CpuState /\ y.vec = <<t>> \o cpu[c].vec /\ y.list = Tail(cpu[c].list)
        /\ y.softirq = "next" /\ y.online = cpu[c].online /\ y.bh = cpu[c].bh
    BY <2>2, <2>e DEF CpuState
  <2>5. CpuOK(y) /\ t = Head(cpu[c].list)
    BY <2>4, <1>1 DEF CpuOK, t
  <2>6. cpu' = [cpu EXCEPT ![c] = y]
    BY <2>3, <1>7
  <2> QED
    BY <2>4, <2>5, <2>6, <1>0, <1>1, <1>4, <1>7, AgainStep
<1> QED
  BY <1>5, <1>6, <1>7

\* Every step of a softirq.
LEMMA SoftirqStep ==
  ASSUME IInv, NEW c \in Cpu, Softirq(c)
  PROVE  IInv'
  BY TakeListStep, LockStep, ListStep, CallStep, DisabledStep, FuncStep, PutBackStep
     DEF Softirq

-----------------------------------------------------------------------------
(* Interrupts, ksoftirqd and hotplug *)

LEMMA IrqStep ==
  ASSUME IInv, NEW c \in Cpu, Irq(c)
  PROVE  IInv'
<1>0. /\ cpu[c] \in CpuState /\ CpuOK(cpu[c]) /\ cpu[c].online = "up" /\ downs \in Nat
      /\ work \in Workload
  BY DEF IInv, TypeOK, CpuInv, Irq
<1>1. TaskQuiet /\ downs' \in Nat /\ work' = work
  BY <1>0 DEF Irq, TaskQuiet, hotplug
<1>2. CASE cpu' = [cpu EXCEPT ![c] = do_softirq(@)] /\ tl' = tl
  <2>1. PICK y : y = do_softirq(cpu[c])
    OBVIOUS
  <2>2. /\ y \in CpuState /\ y.vec = cpu[c].vec /\ y.list = cpu[c].list
        /\ y.online = cpu[c].online /\ y.bh = cpu[c].bh
        /\ y.softirq = cpu[c].softirq \/ (cpu[c].softirq = "none" /\ y.softirq = "action")
    BY <1>0, <2>1, DoSoftirq
  <2>3. Quiet(cpu[c], y) /\ CpuOK(y)
    BY <1>0, <2>2 DEF Quiet, CpuOK
  <2> QED
    BY <1>1, <1>2, <2>1, <2>3, QuietStep
<1>3. ASSUME NEW t \in work.tasklets, ~tl[t].sched, tl' = [tl EXCEPT ![t].sched = TRUE],
             cpu' = [cpu EXCEPT ![c] = do_softirq([Queue(@, t) EXCEPT !.pending = TRUE])]
      PROVE  IInv'
  <2>0. t \in Tasklet
    BY <1>0, <1>3, TaskletAssumption
  <2>1. PICK z : z = Queue(cpu[c], t)
    OBVIOUS
  <2>2. /\ z \in CpuState /\ z.vec = <<t>> \o cpu[c].vec /\ z.list = cpu[c].list
        /\ z.online = cpu[c].online /\ z.bh = cpu[c].bh /\ z.softirq = cpu[c].softirq
    <3>1. PICK x \in CpuState, u \in Tasklet : x = cpu[c] /\ u = t
      BY <1>0, <2>0
    <3>2. z = Queue(x, u)
      BY <3>1, <2>1
    <3>3. /\ z \in CpuState /\ z.vec = <<u>> \o x.vec /\ z.list = x.list
          /\ z.online = x.online /\ z.bh = x.bh /\ z.softirq = x.softirq
      BY <3>2, QueueFront
    <3> QED
      BY <3>1, <3>3
  <2>3. PICK w : w = [Queue(cpu[c], t) EXCEPT !.pending = TRUE]
    OBVIOUS
  <2>e. w = [z EXCEPT !.pending = TRUE]
    BY <2>1, <2>3
  <2>4. /\ w \in CpuState /\ w.vec = z.vec /\ w.list = z.list
        /\ w.online = z.online /\ w.bh = z.bh /\ w.softirq = z.softirq
    BY <2>2, <2>e DEF CpuState
  <2>5. PICK y : y = do_softirq(w)
    OBVIOUS
  <2>6. /\ y \in CpuState /\ y.vec = w.vec /\ y.list = w.list
        /\ y.online = w.online /\ y.bh = w.bh
        /\ y.softirq = w.softirq \/ (w.softirq = "none" /\ y.softirq = "action")
    BY <2>4, <2>5, DoSoftirq
  <2>7. CpuOK(y)
    BY <2>2, <2>4, <2>6, <1>0 DEF CpuOK
  <2>8. cpu' = [cpu EXCEPT ![c] = y]
    BY <2>3, <2>5, <1>3
  <2> QED
    <3>1. /\ y \in CpuState /\ y.vec = <<t>> \o cpu[c].vec /\ y.list = cpu[c].list
          /\ y.softirq # cpu[c].softirq => {cpu[c].softirq, y.softirq} \cap {"count", "func"} = {}
      BY <2>2, <2>4, <2>6
    <3> QED
      BY <3>1, <2>0, <2>7, <2>8, <1>1, <1>3, PushStep
<1> QED
  BY <1>2, <1>3 DEF Irq

\* ksoftirqd only changes its own state, or processes the softirq.
LEMMA KsoftirqdQuiet ==
  ASSUME IInv, NEW c \in Cpu, KsoftirqdStep(c)
  PROVE  IInv'
<1> DEFINE x == cpu[c]
<1>0. x \in CpuState /\ CpuOK(x) /\ x.online = "up" /\ downs \in Nat
  BY DEF IInv, TypeOK, CpuInv, KsoftirqdStep, MayRun
<1>1. TaskQuiet /\ downs' \in Nat /\ work' = work /\ tl' = tl
  BY <1>0 DEF KsoftirqdStep, TaskQuiet, hotplug
<1>2. x.kpc \in {"check", "schedule", "loop"} /\ x.pending \in BOOLEAN
  BY <1>0 DEF CpuState
<1>3. PICK y : /\ cpu' = [cpu EXCEPT ![c] = y]
               /\ \/ y = [x EXCEPT !.kpc = "loop", !.kst = "RUNNING"]
                  \/ y = [x EXCEPT !.kpc = "schedule"]
                  \/ y = [x EXCEPT !.kpc = "loop"]
                  \/ y = do_softirq(x)
                  \/ y = [x EXCEPT !.kpc = "check", !.kst = "INTERRUPTIBLE"]
  <2> DEFINE y == CASE x.kpc = "check" /\ x.pending -> [x EXCEPT !.kpc = "loop", !.kst = "RUNNING"]
                    [] x.kpc = "check" /\ ~x.pending -> [x EXCEPT !.kpc = "schedule"]
                    [] x.kpc = "schedule" /\ x.kst = "RUNNING" -> [x EXCEPT !.kpc = "loop"]
                    [] x.kpc = "loop" /\ x.pending -> do_softirq(x)
                    [] x.kpc = "loop" /\ ~x.pending -> [x EXCEPT !.kpc = "check", !.kst = "INTERRUPTIBLE"]
  <2>1. cpu' = [cpu EXCEPT ![c] = y] /\ (x.kpc = "schedule" => x.kst = "RUNNING")
    BY DEF KsoftirqdStep
  <2>2. \/ y = [x EXCEPT !.kpc = "loop", !.kst = "RUNNING"]
        \/ y = [x EXCEPT !.kpc = "schedule"]
        \/ y = [x EXCEPT !.kpc = "loop"]
        \/ y = do_softirq(x)
        \/ y = [x EXCEPT !.kpc = "check", !.kst = "INTERRUPTIBLE"]
    <3>1. CASE x.kpc = "check"
      BY <3>1, <1>2
    <3>2. CASE x.kpc = "schedule"
      BY <3>2, <2>1
    <3>3. CASE x.kpc = "loop"
      BY <3>3, <1>2
    <3> QED
      BY <1>2, <3>1, <3>2, <3>3
  <2> QED
    BY <2>1, <2>2
<1>4. /\ y \in CpuState /\ y.vec = x.vec /\ y.list = x.list /\ y.online = x.online
      /\ y.bh = x.bh /\ (y.softirq = x.softirq \/ (x.softirq = "none" /\ y.softirq = "action"))
  <2>1. CASE y = do_softirq(x)
    BY <1>0, <2>1, DoSoftirq
  <2>2. CASE y = [x EXCEPT !.kpc = "loop", !.kst = "RUNNING"]
    BY <1>0, <2>2 DEF CpuState
  <2>3. CASE y = [x EXCEPT !.kpc = "schedule"]
    BY <1>0, <2>3 DEF CpuState
  <2>4. CASE y = [x EXCEPT !.kpc = "loop"]
    BY <1>0, <2>4 DEF CpuState
  <2>5. CASE y = [x EXCEPT !.kpc = "check", !.kst = "INTERRUPTIBLE"]
    BY <1>0, <2>5 DEF CpuState
  <2> QED
    BY <1>3, <2>1, <2>2, <2>3, <2>4, <2>5
<1>5. Quiet(x, y) /\ CpuOK(y)
  BY <1>0, <1>4 DEF Quiet, CpuOK
<1> QED
  BY <1>1, <1>3, <1>5, QuietStep

\* A task begins a call.
LEMMA BeginQuiet ==
  ASSUME IInv, NEW c \in Cpu, NEW k \in Task, NEW t \in work.tasklets,
         NEW op \in work.calls[k], Begin(c, k, op, t)
  PROVE  IInv'
<1>0. /\ cpu[c] \in CpuState /\ CpuOK(cpu[c]) /\ cpu[c].online = "up" /\ downs \in Nat
      /\ work \in Workload /\ cpu \in [Cpu -> CpuState]
  BY DEF IInv, TypeOK, CpuInv, Begin, MayRun
<1>1. t \in Tasklet /\ op \in {"schedule", "bhoff", "disable", "kill"}
  BY <1>0, TaskletAssumption
<1>2. TaskQuiet
  <2>1. PICK e : e = [pc |-> op, t |-> t]
    OBVIOUS
  <2>2. e \in [pc : TaskPc, t : Tasklet] /\ e.pc = op
    BY <2>1, <1>1 DEF TaskPc
  <2>3. task' = [task EXCEPT ![k] = e] /\ task[k].pc = "out"
    BY <2>1 DEF Begin
  <2> QED
    BY <2>2, <2>3, <1>1 DEF TaskQuiet, Busy
<1>3. PICK y : y = [cpu[c] EXCEPT !.rt = IF k \in RtTask THEN k ELSE @]
  OBVIOUS
<1>4. /\ y \in CpuState /\ y.vec = cpu[c].vec /\ y.list = cpu[c].list
      /\ y.online = cpu[c].online /\ y.bh = cpu[c].bh /\ y.softirq = cpu[c].softirq
  BY <1>0, <1>3 DEF CpuState
<1>5. cpu' = [cpu EXCEPT ![c] = y] /\ tl' = tl /\ downs' = downs /\ work' = work
  BY <1>0, <1>3 DEF Begin, hotplug
<1>6. Quiet(cpu[c], y) /\ CpuOK(y)
  BY <1>0, <1>4 DEF Quiet, CpuOK
<1> QED
  BY <1>0, <1>2, <1>5, <1>6, QuietStep

\* A CPU dies with its vector, and comes back with an empty one.
LEMMA HotplugQuiet ==
  ASSUME IInv, NEW c \in Cpu, CpuDead(c) \/ CpuOnline(c)
  PROVE  IInv'
<1>0. /\ cpu[c] \in CpuState /\ CpuOK(cpu[c]) /\ downs \in Nat /\ cpu \in [Cpu -> CpuState]
  BY DEF IInv, TypeOK, CpuInv
<1>1. CASE CpuDead(c)
  <2>1. PICK y : y = [cpu[c] EXCEPT !.online = "dead"]
    OBVIOUS
  <2>2. /\ y \in CpuState /\ y.vec = cpu[c].vec /\ y.list = cpu[c].list
        /\ y.online = "dead" /\ y.bh = cpu[c].bh /\ y.softirq = cpu[c].softirq
    BY <1>0, <2>1 DEF CpuState
  <2>3. cpu[c].softirq = "none" /\ cpu[c].bh = None
    BY <1>1 DEF CpuDead, MayRun, InInterrupt
  <2>4. /\ cpu' = [cpu EXCEPT ![c] = y] /\ tl' = tl /\ downs' \in Nat /\ work' = work
        /\ TaskQuiet
    BY <1>0, <1>1, <2>1 DEF CpuDead, TaskQuiet
  <2>5. Quiet(cpu[c], y) /\ CpuOK(y)
    BY <1>0, <2>2, <2>3 DEF Quiet, CpuOK
  <2> QED
    BY <2>4, <2>5, QuietStep
<1>2. CASE CpuOnline(c)
  <2>1. PICK y : y = [Booted EXCEPT !.pending = cpu[c].pending]
    OBVIOUS
  <2>2. cpu[c].pending \in BOOLEAN
    BY <1>0 DEF CpuState
  <2>a. <<>> \in Seq(Tasklet)
    OBVIOUS
  <2>3. PICK e \in Seq(Tasklet) : e = <<>>
    BY <2>a
  <2>4. y = [online |-> "up", pending |-> cpu[c].pending, vec |-> e, softirq |-> "none",
             list |-> e, left |-> 0, bh |-> None, rt |-> None, kpc |-> "check",
             kst |-> "INTERRUPTIBLE"]
    BY <2>1, <2>3 DEF Booted
  <2>5. /\ y \in CpuState /\ y.vec = <<>> /\ y.list = <<>> /\ y.online = "up"
        /\ y.softirq = "none"
    BY <2>2, <2>3, <2>4 DEF CpuState
  <2>6. cpu[c].softirq = "none" /\ cpu[c].list = <<>> /\ cpu[c].vec = <<>>
    BY <1>0, <1>2 DEF CpuOnline, CpuOK
  <2>7. /\ cpu' = [cpu EXCEPT ![c] = y] /\ tl' = tl /\ downs' = downs /\ work' = work
        /\ TaskQuiet
    BY <1>2, <2>1 DEF CpuOnline, TaskQuiet, hotplug
  <2>8. Quiet(cpu[c], y) /\ CpuOK(y)
    BY <2>5, <2>6 DEF Quiet, CpuOK
  <2> QED
    BY <1>0, <2>7, <2>8, QuietStep
<1> QED
  BY <1>1, <1>2

\* takeover_tasklets() appends the vector of the dead CPU to that of the CPU
\* that handles CPU_DEAD.
LEMMA TakeoverStep ==
  ASSUME IInv, NEW c \in Cpu, NEW d \in Cpu, takeover_tasklets(c, d)
  PROVE  IInv'
<1>0. TypeOK /\ CpuInv /\ PlaceInv /\ RunInv /\ CountInv /\ WaitedInv
  BY DEF IInv
<1>a. /\ cpu[c] \in CpuState /\ cpu[d] \in CpuState /\ CpuOK(cpu[c]) /\ CpuOK(cpu[d])
      /\ cpu[c].online = "dead" /\ cpu[d].online = "up"
      /\ cpu \in [Cpu -> CpuState]
  BY <1>0 DEF TypeOK, CpuInv, takeover_tasklets, MayRun
<1>b. /\ c # d /\ cpu[c].softirq = "none" /\ cpu[c].list = <<>> /\ cpu[c].bh = None
      /\ cpu[c].vec \in Seq(Tasklet) /\ cpu[d].vec \in Seq(Tasklet)
  BY <1>a DEF CpuOK, CpuState
<1>e. tl' = tl /\ TaskQuiet /\ downs' = downs /\ work' = work
  BY DEF takeover_tasklets, TaskQuiet, hotplug
<1>n. ~\E u \in Tasklet : In(u, cpu[d].vec) /\ In(u, cpu[c].vec)
  BY <1>0, <1>b DEF PlaceInv, InVec
<1>m. NoRepeat(cpu[c].vec) /\ NoRepeat(cpu[d].vec) /\ NoRepeat(Rest(cpu[d]))
  BY <1>0 DEF PlaceInv
<1>v. PICK v \in Seq(Tasklet) :
        /\ v = cpu[d].vec \o cpu[c].vec /\ NoRepeat(v)
        /\ \A u : In(u, v) <=> In(u, cpu[d].vec) \/ In(u, cpu[c].vec)
  <2>1. \A u : ~(In(u, cpu[d].vec) /\ In(u, cpu[c].vec))
    <3>1. \A u : In(u, cpu[d].vec) => u \in Tasklet
      BY <1>b DEF In
    <3> QED
      BY <3>1, <1>n
  <2> QED
    BY <2>1, <1>b, <1>m, InConcat
<1>w. PICK w : w = [cpu[d] EXCEPT !.vec = cpu[d].vec \o cpu[c].vec]
  OBVIOUS
<1>x. /\ w \in CpuState /\ w.vec = v /\ w.list = cpu[d].list /\ w.online = "up"
      /\ w.bh = cpu[d].bh /\ w.softirq = cpu[d].softirq
  <2>1. w = [cpu[d] EXCEPT !.vec = v]
    BY <1>v, <1>w
  <2> QED
    BY <2>1, <1>a, <1>v DEF CpuState
<1>z. PICK z : z = raise_softirq_irqoff(w)
  OBVIOUS
<1>c. /\ z \in CpuState /\ z.vec = v /\ z.list = cpu[d].list /\ z.online = "up"
      /\ z.bh = cpu[d].bh /\ z.softirq = cpu[d].softirq
  BY <1>x, <1>z, RaiseSoftirq
<1>y. PICK y : y = [cpu[c] EXCEPT !.online = "down", !.vec = <<>>]
  OBVIOUS
<1>f. /\ y \in CpuState /\ y.vec = <<>> /\ y.list = <<>> /\ y.online = "down"
      /\ y.bh = None /\ y.softirq = "none"
  <2>1. <<>> \in Seq(Tasklet)
    OBVIOUS
  <2>2. PICK s \in Seq(Tasklet) : s = <<>>
    BY <2>1
  <2>3. y = [cpu[c] EXCEPT !.online = "down", !.vec = s]
    BY <2>2, <1>y
  <2> QED
    BY <2>2, <2>3, <1>a, <1>b DEF CpuState
<1>g. /\ cpu'[c] = y /\ cpu'[d] = z /\ \A e \in Cpu \ {c, d} : cpu'[e] = cpu[e]
      /\ cpu' \in [Cpu -> CpuState]
  <2>1. cpu' = [cpu EXCEPT ![c].online = "down", ![c].vec = <<>>,
                           ![d] = raise_softirq_irqoff([cpu[d] EXCEPT !.vec = @ \o cpu[c].vec])]
    BY DEF takeover_tasklets
  <2>2. z = raise_softirq_irqoff([cpu[d] EXCEPT !.vec = @ \o cpu[c].vec])
    BY <1>w, <1>z
  <2>3. cpu' = [cpu EXCEPT ![c].online = "down", ![c].vec = <<>>, ![d] = z]
    BY <2>1, <2>2
  <2>4. cpu' = [[cpu EXCEPT ![c] = y] EXCEPT ![d] = z]
    BY <2>3, <1>y, <1>a, <1>b
  <2> QED
    BY <2>4, <1>a, <1>b, <1>c, <1>f
<1>r. Rest(z) = Rest(cpu[d]) /\ Rest(y) = <<>> /\ Rest(cpu[c]) = <<>>
  BY <1>b, <1>c, <1>f DEF Rest
<1>h. \A e \in Cpu, u \in Tasklet :
        /\ InVec(e, u)' <=> In(u, cpu'[e].vec)
        /\ InList(e, u)' <=> In(u, Rest(cpu'[e]))
        /\ Locked(e, u)' <=> cpu'[e].softirq \in {"count", "func"} /\ Head(cpu'[e].list) = u
        /\ Executing(e, u)' <=> cpu'[e].softirq = "func" /\ Head(cpu'[e].list) = u
  BY NextViews
<1>u. \A e \in Cpu, u \in Tasklet :
        /\ InVec(e, u)' <=> e # c /\ (InVec(e, u) \/ (e = d /\ InVec(c, u)))
        /\ InList(e, u)' <=> InList(e, u)
        /\ Locked(e, u)' <=> Locked(e, u)
        /\ Executing(e, u)' <=> Executing(e, u)
  <2>1. \A u \in Tasklet : InVec(d, u)' <=> InVec(d, u) \/ InVec(c, u)
    BY <1>h, <1>g, <1>c, <1>v DEF InVec
  <2>2. \A u \in Tasklet : ~InVec(c, u)'
    BY <1>h, <1>g, <1>f, InEmpty
  <2>3. \A e \in Cpu \ {c, d}, u \in Tasklet : InVec(e, u)' <=> InVec(e, u)
    BY <1>h, <1>g DEF InVec
  <2>4. \A e \in Cpu : Rest(cpu'[e]) = Rest(cpu[e])
    BY <1>g, <1>r
  <2>5. \A e \in Cpu, u \in Tasklet : InList(e, u)' <=> InList(e, u)
    BY <2>4, <1>h DEF InList
  <2>6. \A e \in Cpu : cpu'[e].softirq = cpu[e].softirq /\ cpu'[e].list = cpu[e].list
    BY <1>g, <1>b, <1>c, <1>f
  <2>7. \A e \in Cpu, u \in Tasklet : /\ Locked(e, u)' <=> Locked(e, u)
                                      /\ Executing(e, u)' <=> Executing(e, u)
    BY <2>6, <1>h DEF Locked, Executing
  <2> QED
    BY <2>1, <2>2, <2>3, <2>5, <2>7, <1>b
<1>2. TypeOK'
  BY <1>0, <1>g, <1>e, TaskQuietViews DEF TypeOK
<1>3. CpuInv'
  <2>1. CpuOK(y) /\ CpuOK(z)
    BY <1>a, <1>c, <1>f DEF CpuOK
  <2>2. \A e \in Cpu : CpuOK(cpu'[e])
    BY <2>1, <1>g, <1>0 DEF CpuInv
  <2> QED
    BY <2>2 DEF CpuInv, CpuOK
<1>4. PlaceInv'
  <2>1. \A e \in Cpu : NoRepeat(cpu'[e].vec) /\ NoRepeat(Rest(cpu'[e]))
    <3>1. NoRepeat(y.vec) /\ NoRepeat(Rest(y)) /\ NoRepeat(z.vec) /\ NoRepeat(Rest(z))
      BY <1>c, <1>f, <1>m, <1>r, <1>v, InEmpty
    <3> QED
      BY <3>1, <1>0, <1>g DEF PlaceInv
  <2>2. \A e \in Cpu : (NoRepeat(cpu[e].vec) /\ NoRepeat(Rest(cpu[e])))'
    BY <2>1 DEF NoRepeat, Rest
  <2>3. \A k \in Task, u \in Tasklet : InTask(k, u)' <=> InTask(k, u)
    BY <1>0, <1>e, TaskQuietViews
  <2> QED
    BY <2>2, <2>3, <1>b, <1>u, <1>e, <1>0 DEF PlaceInv
<1>5. RunInv'
  BY <1>0, <1>e, <1>u, RunSame
<1>6. CountInv'
  BY <1>0, <1>e, TaskQuietViews, CountSame
<1>7. WaitedInv'
  BY <1>0, <1>e, <1>u, TaskQuietViews, WaitedSame DEF Busy
<1> QED
  BY <1>2, <1>3, <1>4, <1>5, <1>6, <1>7 DEF IInv

-----------------------------------------------------------------------------
(* Tasks *)

\* The tasklets of a CPU whose state changes but for its lists and its softirq.
LEMMA CpuAway ==
  ASSUME IInv, NEW c \in Cpu, NEW k \in Task, cpu' = [cpu EXCEPT ![c] = Off(@, k)]
  PROVE  \E y : Quiet(cpu[c], y) /\ CpuOK(y) /\ y \in CpuState /\ cpu' = [cpu EXCEPT ![c] = y]
<1>0. cpu[c] \in CpuState /\ CpuOK(cpu[c])
  BY DEF IInv, TypeOK, CpuInv
<1>1. PICK y : y = Off(cpu[c], k)
  OBVIOUS
<1>2. /\ y \in CpuState /\ y.vec = cpu[c].vec /\ y.list = cpu[c].list
      /\ y.online = cpu[c].online /\ y.bh = cpu[c].bh /\ y.softirq = cpu[c].softirq
  BY <1>0, <1>1, OffCpu
<1>3. Quiet(cpu[c], y) /\ CpuOK(y)
  BY <1>0, <1>2 DEF Quiet, CpuOK
<1> QED
  BY <1>1, <1>2, <1>3

LEMMA NoCallType == NoCall \in [pc : TaskPc, t : Tasklet] /\ NoCall.pc = "out"
<1>1. (CHOOSE t \in Tasklet : TRUE) \in Tasklet
  BY TaskletAssumption
<1> QED
  BY <1>1 DEF NoCall, TaskPc

\* Goto() changes the pc only.
LEMMA GotoTask ==
  ASSUME TypeOK, NEW k \in Task, NEW pc \in TaskPc, Goto(k, pc)
  PROVE  \E e \in [pc : TaskPc, t : Tasklet] :
           task' = [task EXCEPT ![k] = e] /\ e.pc = pc /\ e.t = task[k].t
<1>1. task \in [Task -> [pc : TaskPc, t : Tasklet]]
  BY DEF TypeOK
<1>2. PICK e : e = [task[k] EXCEPT !.pc = pc]
  OBVIOUS
<1>3. e \in [pc : TaskPc, t : Tasklet] /\ e.pc = pc /\ e.t = task[k].t
  BY <1>1, <1>2
<1>4. task' = [task EXCEPT ![k] = e]
  BY <1>1, <1>2 DEF Goto
<1> QED
  BY <1>3, <1>4

\* The lists of all CPUs are left alone.
LEMMA CpuSameViews ==
  ASSUME cpu' = cpu
  PROVE  \A d \in Cpu, u \in Tasklet :
           /\ InVec(d, u)' <=> InVec(d, u)
           /\ InList(d, u)' <=> InList(d, u)
           /\ Locked(d, u)' <=> Locked(d, u)
           /\ Executing(d, u)' <=> Executing(d, u)
           /\ cpu'[d].vec = cpu[d].vec /\ Rest(cpu'[d]) = Rest(cpu[d])
  BY DEF InVec, InList, Locked, Executing

\* A task sets SCHED, to link the tasklet or to kill it.
LEMMA HoldStep ==
  ASSUME IInv, NEW k \in Task, NEW t \in Tasklet, NEW e \in [pc : TaskPc, t : Tasklet],
         task[k].pc \in {"schedule", "kill"}, task[k].t = t,
         e.pc \in {"link", "killwait"}, e.t = t, task' = [task EXCEPT ![k] = e],
         ~tl[t].sched, tl' = [tl EXCEPT ![t].sched = TRUE],
         cpu' = cpu, downs' = downs, work' = work
  PROVE  IInv'
<1>0. TypeOK /\ CpuInv /\ PlaceInv /\ RunInv /\ CountInv /\ WaitedInv
  BY DEF IInv
<1>t. /\ tl' \in [Tasklet -> [sched : BOOLEAN, run : BOOLEAN, count : Int]]
      /\ \A u \in Tasklet : /\ tl'[u].run = tl[u].run /\ tl'[u].count = tl[u].count
                            /\ tl'[u].sched <=> u = t \/ tl[u].sched
  BY <1>0, TlSched
<1>k. /\ task' \in [Task -> [pc : TaskPc, t : Tasklet]]
      /\ task'[k] = e /\ \A m \in Task \ {k} : task'[m] = task[m]
  BY <1>0, TaskUpdate
<1>v. \A m \in Task, u \in Tasklet : InTask(m, u)' <=> InTask(m, u) \/ (m = k /\ u = t)
  BY <1>k DEF InTask
<1>d. \A u \in Tasklet : Disablers(u)' = Disablers(u)
  BY <1>k DEF Disablers
<1>2. TypeOK'
  BY <1>0, <1>t, <1>k DEF TypeOK
<1>3. CpuInv'
  BY <1>0 DEF CpuInv
<1>4. PlaceInv'
  <2>1. \A d \in Cpu : ~InVec(d, t) /\ ~InList(d, t)
    BY <1>0 DEF PlaceInv
  <2>2. \A m \in Task : ~InTask(m, t)
    BY <1>0 DEF PlaceInv
  <2>3. \A d \in Cpu : (NoRepeat(cpu[d].vec) /\ NoRepeat(Rest(cpu[d])))'
    BY <1>0 DEF PlaceInv, NoRepeat, Rest
  <2> QED
    BY <2>1, <2>2, <2>3, <1>v, <1>t, <1>0, CpuSameViews DEF PlaceInv
<1>5. RunInv'
  BY <1>0, <1>t, CpuSameViews, RunSame
<1>6. CountInv'
  BY <1>0, <1>d, <1>t, CountSame
<1>7. WaitedInv'
  BY <1>0, <1>k, CpuSameViews, WaitedSame
<1> QED
  BY <1>2, <1>3, <1>4, <1>5, <1>6, <1>7 DEF IInv

\* tasklet_kill() gives SCHED back.
LEMMA ReleaseStep ==
  ASSUME IInv, NEW k \in Task, NEW t \in Tasklet, NEW c \in Cpu,
         task[k].pc = "killed", task[k].t = t, LeaveCpu(c, k),
         tl' = [tl EXCEPT ![t].sched = FALSE], downs' = downs, work' = work
  PROVE  IInv'
<1>0. TypeOK /\ CpuInv /\ PlaceInv /\ RunInv /\ CountInv /\ WaitedInv
  BY DEF IInv
<1>y. PICK y : Quiet(cpu[c], y) /\ CpuOK(y) /\ y \in CpuState /\ cpu' = [cpu EXCEPT ![c] = y]
  BY CpuAway DEF LeaveCpu
<1>t. /\ tl' \in [Tasklet -> [sched : BOOLEAN, run : BOOLEAN, count : Int]]
      /\ \A u \in Tasklet : /\ tl'[u].run = tl[u].run /\ tl'[u].count = tl[u].count
                            /\ tl'[u].sched <=> u # t /\ tl[u].sched
  <2>1. /\ tl' \in [Tasklet -> [sched : BOOLEAN, run : BOOLEAN, count : Int]]
        /\ \A u \in Tasklet \ {t} : tl'[u] = tl[u]
        /\ tl'[t].count = tl[t].count /\ ~tl'[t].sched /\ tl'[t].run = tl[t].run
    BY <1>0, TlSched
  <2> QED
    BY <2>1
<1>k. /\ task' \in [Task -> [pc : TaskPc, t : Tasklet]] /\ task'[k] = NoCall
      /\ \A m \in Task \ {k} : task'[m] = task[m]
  BY <1>0, NoCallType, TaskUpdate DEF LeaveCpu, Leave
<1>v. \A m \in Task, u \in Tasklet : InTask(m, u)' <=> InTask(m, u) /\ m # k
  BY <1>k, NoCallType DEF InTask
<1>w. \A u \in Tasklet : InTask(k, u) <=> u = t
  BY DEF InTask
<1>d. \A u \in Tasklet : Disablers(u)' = Disablers(u)
  BY <1>k, NoCallType DEF Disablers
<1>u. \A d \in Cpu, u \in Tasklet :
           /\ InVec(d, u)' <=> InVec(d, u)
           /\ InList(d, u)' <=> InList(d, u)
           /\ Locked(d, u)' <=> Locked(d, u)
           /\ Executing(d, u)' <=> Executing(d, u)
           /\ cpu'[d].vec = cpu[d].vec /\ Rest(cpu'[d]) = Rest(cpu[d])
  BY <1>0, <1>y, QuietUpdate
<1>2. TypeOK'
  BY <1>0, <1>t, <1>k, <1>y, CpuUpdate DEF TypeOK
<1>3. CpuInv'
  BY <1>0, <1>y, CpuInvStep
<1>4. PlaceInv'
  <2>1. \A d \in Cpu : NoRepeat(cpu'[d].vec) /\ NoRepeat(Rest(cpu'[d]))
    <3>1. Rest(y) = Rest(cpu[c]) /\ y.vec = cpu[c].vec
      BY <1>y DEF Quiet, Rest
    <3>2. cpu'[c] = y /\ \A d \in Cpu \ {c} : cpu'[d] = cpu[d]
      BY <1>0, <1>y, CpuUpdate
    <3> QED
      BY <3>1, <3>2, <1>0 DEF PlaceInv
  <2>2. \A d \in Cpu : (NoRepeat(cpu[d].vec) /\ NoRepeat(Rest(cpu[d])))'
    BY <2>1 DEF NoRepeat, Rest
  <2> QED
    BY <2>2, <1>v, <1>w, <1>t, <1>u, <1>0 DEF PlaceInv
<1>5. RunInv'
  BY <1>0, <1>t, <1>u, RunSame
<1>6. CountInv'
  BY <1>0, <1>d, <1>t, CountSame
<1>7. WaitedInv'
  BY <1>0, <1>k, <1>u, NoCallType, WaitedSame
<1> QED
  BY <1>2, <1>3, <1>4, <1>5, <1>6, <1>7 DEF IInv

\* tasklet_unlock_wait() has seen RUN clear.
LEMMA WaitedStep ==
  ASSUME IInv, NEW k \in Task, NEW t \in Tasklet, NEW e \in [pc : TaskPc, t : Tasklet],
         task[k].t = t, e.t = t, task' = [task EXCEPT ![k] = e], ~tl[t].run,
         \/ task[k].pc = "wait" /\ e.pc = "disabled"
         \/ task[k].pc = "killwait" /\ e.pc = "killed",
         cpu' = cpu, tl' = tl, downs' = downs, work' = work
  PROVE  IInv'
<1>0. TypeOK /\ CpuInv /\ PlaceInv /\ RunInv /\ CountInv /\ WaitedInv
  BY DEF IInv
<1>k. /\ task' \in [Task -> [pc : TaskPc, t : Tasklet]]
      /\ task'[k] = e /\ \A m \in Task \ {k} : task'[m] = task[m]
  BY <1>0, TaskUpdate
<1>v. \A m \in Task, u \in Tasklet : InTask(m, u)' <=> InTask(m, u)
  BY <1>k DEF InTask
<1>d. \A u \in Tasklet : Disablers(u)' = Disablers(u)
  BY <1>k DEF Disablers
<1>2. TypeOK'
  BY <1>0, <1>k DEF TypeOK
<1>3. CpuInv'
  BY <1>0 DEF CpuInv
<1>4. PlaceInv'
  BY <1>0, <1>v, CpuSameViews, PlaceSame
<1>5. RunInv'
  BY <1>0, CpuSameViews, RunSame
<1>6. CountInv'
  BY <1>0, <1>d, CountSame
<1>7. WaitedInv'
  <2>1. \A c \in Cpu : ~Locked(c, t) /\ ~Executing(c, t)
    BY <1>0 DEF RunInv, Locked
  <2> QED
    BY <2>1, <1>0, <1>k, CpuSameViews DEF WaitedInv
<1> QED
  BY <1>2, <1>3, <1>4, <1>5, <1>6, <1>7 DEF IInv

\* __tasklet_schedule(): the tasklet goes from the task to the vector.
LEMMA LinkStep ==
  ASSUME IInv, NEW c \in Cpu, NEW k \in Task, __tasklet_schedule(c, k)
  PROVE  IInv'
<1>0. TypeOK /\ CpuInv /\ PlaceInv /\ RunInv /\ CountInv /\ WaitedInv
  BY DEF IInv
<1> DEFINE t == task[k].t
           x == cpu[c]
<1>a. /\ x \in CpuState /\ CpuOK(x) /\ x.vec \in Seq(Tasklet) /\ x.list \in Seq(Tasklet)
      /\ t \in Tasklet /\ task[k].pc = "link"
  BY <1>0 DEF TypeOK, CpuInv, CpuState, __tasklet_schedule, Runs
<1>b. /\ cpu' = [cpu EXCEPT ![c] = Off(raise_softirq_irqoff(Queue(x, t)), k)]
      /\ task' = [task EXCEPT ![k] = NoCall] /\ tl' = tl /\ downs' = downs /\ work' = work
  BY DEF __tasklet_schedule, Leave, hotplug
<1> HIDE DEF t, x
<1>1. PICK y : y = Off(raise_softirq_irqoff(Queue(x, t)), k)
  OBVIOUS
<1>c. /\ y \in CpuState /\ y.vec = <<t>> \o x.vec /\ y.list = x.list
      /\ y.online = x.online /\ y.bh = x.bh /\ y.softirq = x.softirq
  <2>1. PICK z : z = Queue(x, t)
    OBVIOUS
  <2>2. /\ z \in CpuState /\ z.vec = <<t>> \o x.vec /\ z.list = x.list
        /\ z.online = x.online /\ z.bh = x.bh /\ z.softirq = x.softirq
    BY <2>1, <1>a, QueueFront
  <2>3. PICK w : w = raise_softirq_irqoff(z)
    OBVIOUS
  <2>4. /\ w \in CpuState /\ w.vec = z.vec /\ w.list = z.list
        /\ w.online = z.online /\ w.bh = z.bh /\ w.softirq = z.softirq
    BY <2>2, <2>3, RaiseSoftirq
  <2>5. y = Off(w, k)
    BY <2>1, <2>3, <1>1
  <2>6. /\ y \in CpuState /\ y.vec = w.vec /\ y.list = w.list
        /\ y.online = w.online /\ y.bh = w.bh /\ y.softirq = w.softirq
    BY <2>4, <2>5, OffCpu
  <2> QED
    BY <2>2, <2>4, <2>6
<1>d. cpu' = [cpu EXCEPT ![c] = y]
  BY <1>1, <1>b
<1>k. /\ task' \in [Task -> [pc : TaskPc, t : Tasklet]] /\ task'[k] = NoCall
      /\ \A m \in Task \ {k} : task'[m] = task[m]
  BY <1>0, <1>b, NoCallType, TaskUpdate
<1>v. \A m \in Task, u \in Tasklet : InTask(m, u)' <=> InTask(m, u) /\ m # k
  BY <1>k, NoCallType DEF InTask
<1>w. \A u \in Tasklet : InTask(k, u) <=> u = t
  BY <1>a DEF InTask, t
<1>e. \A u \in Tasklet : Disablers(u)' = Disablers(u)
  BY <1>a, <1>k, NoCallType DEF Disablers
<1>f. Rest(y) = Rest(x)
  BY <1>c DEF Rest
<1>p. \A d \in Cpu : ~InVec(d, t) /\ ~InList(d, t)
  BY <1>0, <1>a, <1>w DEF PlaceInv
<1>q. NoRepeat(y.vec) /\ \A u : In(u, y.vec) <=> u = t \/ In(u, x.vec)
  <2>1. ~In(t, x.vec) /\ NoRepeat(x.vec)
    BY <1>p, <1>0 DEF InVec, PlaceInv, x
  <2> QED
    BY <2>1, <1>a, <1>c, InPrepend
<1>u. \A d \in Cpu, u \in Tasklet :
           /\ InVec(d, u)' <=> InVec(d, u) \/ (d = c /\ u = t)
           /\ InList(d, u)' <=> InList(d, u)
           /\ Locked(d, u)' <=> Locked(d, u)
           /\ Executing(d, u)' <=> Executing(d, u)
  <2>0. \A u \in Tasklet :
          /\ InVec(c, u)' <=> In(u, y.vec)
          /\ InList(c, u)' <=> In(u, Rest(y))
          /\ Locked(c, u)' <=> y.softirq \in {"count", "func"} /\ Head(y.list) = u
          /\ Executing(c, u)' <=> y.softirq = "func" /\ Head(y.list) = u
    BY <1>0, <1>c, <1>d, CpuUpdate
  <2>1. \A u \in Tasklet : InVec(c, u)' <=> InVec(c, u) \/ u = t
    BY <2>0, <1>q DEF InVec, x
  <2>2. \A u \in Tasklet : InList(c, u)' <=> InList(c, u)
    BY <2>0, <1>f DEF InList, x
  <2>3. \A u \in Tasklet : /\ Locked(c, u)' <=> Locked(c, u)
                           /\ Executing(c, u)' <=> Executing(c, u)
    BY <2>0, <1>c DEF Locked, Executing, x
  <2>6. \A d \in Cpu \ {c}, u \in Tasklet :
           /\ InVec(d, u)' <=> InVec(d, u)
           /\ InList(d, u)' <=> InList(d, u)
           /\ Locked(d, u)' <=> Locked(d, u)
           /\ Executing(d, u)' <=> Executing(d, u)
    BY <1>0, <1>c, <1>d, CpuUpdate
  <2> QED
    BY <2>1, <2>2, <2>3, <2>6
<1>2. TypeOK'
  BY <1>0, <1>b, <1>c, <1>d, <1>k, CpuUpdate DEF TypeOK
<1>3. CpuInv'
  <2>1. CpuOK(y)
    <3>1. x.online # "down"
      BY <1>a, TaskletAssumption DEF __tasklet_schedule, Runs, MayRun, CpuOK, x
    <3> QED
      BY <3>1, <1>a, <1>c DEF CpuOK
  <2> QED
    BY <2>1, <1>0, <1>c, <1>d, CpuInvStep
<1>4. PlaceInv'
  <2>1. NoRepeat(Rest(y))
    BY <1>0, <1>f DEF PlaceInv, x
  <2>2. \A d \in Cpu : (NoRepeat(cpu[d].vec) /\ NoRepeat(Rest(cpu[d])))'
    BY <2>1, <1>q, <1>0, <1>c, <1>d, CpuLists
  <2> QED
    BY <2>2, <1>a, <1>b, <1>p, <1>u, <1>v, <1>w, <1>0 DEF PlaceInv
<1>5. RunInv'
  BY <1>0, <1>b, <1>u, RunSame
<1>6. CountInv'
  BY <1>0, <1>b, <1>e, CountSame
<1>7. WaitedInv'
  BY <1>0, <1>k, <1>u, NoCallType, WaitedSame
<1> QED
  BY <1>2, <1>3, <1>4, <1>5, <1>6, <1>7 DEF IInv

\* tasklet_disable() begins: one more caller, and the count one higher.
LEMMA DisableStep ==
  ASSUME IInv, NEW k \in Task, NEW t \in Tasklet, NEW e \in [pc : TaskPc, t : Tasklet],
         task[k].t = t, e.t = t, task' = [task EXCEPT ![k] = e],
         task[k].pc = "disable", e.pc = "wait", tl' = [tl EXCEPT ![t].count = @ + 1],
         cpu' = cpu, downs' = downs, work' = work
  PROVE  IInv'
<1>0. TypeOK /\ CpuInv /\ PlaceInv /\ RunInv /\ CountInv /\ WaitedInv
  BY DEF IInv
<1>t. /\ tl' \in [Tasklet -> [sched : BOOLEAN, run : BOOLEAN, count : Int]]
      /\ \A u \in Tasklet : tl'[u].sched = tl[u].sched /\ tl'[u].run = tl[u].run
      /\ \A u \in Tasklet \ {t} : tl'[u].count = tl[u].count
      /\ tl'[t].count = tl[t].count + 1
  <2>1. tl \in [Tasklet -> [sched : BOOLEAN, run : BOOLEAN, count : Int]]
    BY <1>0 DEF TypeOK
  <2>2. tl[t].count + 1 \in Int
    BY <2>1
  <2> QED
    BY <2>1, <2>2
<1>k. /\ task' \in [Task -> [pc : TaskPc, t : Tasklet]]
      /\ task'[k] = e /\ \A m \in Task \ {k} : task'[m] = task[m]
  BY <1>0, TaskUpdate
<1>v. \A m \in Task, u \in Tasklet : InTask(m, u)' <=> InTask(m, u)
  BY <1>k DEF InTask
<1>d. /\ \A u \in Tasklet \ {t} : Disablers(u)' = Disablers(u)
      /\ Disablers(t)' = Disablers(t) \cup {k} /\ k \notin Disablers(t)
  BY <1>k DEF Disablers
<1>2. TypeOK'
  BY <1>0, <1>k, <1>t DEF TypeOK
<1>3. CpuInv'
  BY <1>0 DEF CpuInv
<1>4. PlaceInv'
  BY <1>0, <1>t, <1>v, CpuSameViews, PlaceSame
<1>5. RunInv'
  BY <1>0, <1>t, CpuSameViews, RunSame
<1>6. CountInv'
  <2>1. IsFiniteSet(Disablers(t))
    BY TaskletAssumption, FS_Subset DEF Disablers
  <2>2. Cardinality(Disablers(t)') = Cardinality(Disablers(t)) + 1
    BY <2>1, <1>d, FS_AddElement
  <2>3. tl'[t].count = Cardinality(Disablers(t)')
    BY <2>2, <1>0, <1>t DEF CountInv
  <2>4. \A u \in Tasklet \ {t} : tl'[u].count = Cardinality(Disablers(u)')
    BY <1>0, <1>d, <1>t DEF CountInv
  <2>5. \A u \in Tasklet : tl'[u].count = Cardinality(Disablers(u)')
    BY <2>3, <2>4
  <2> QED
    BY <2>5 DEF CountInv
<1>7. WaitedInv'
  BY <1>0, <1>k, CpuSameViews, WaitedSame
<1> QED
  BY <1>2, <1>3, <1>4, <1>5, <1>6, <1>7 DEF IInv

\* tasklet_enable(): one caller less, and the count one lower.
LEMMA EnableStep ==
  ASSUME IInv, NEW k \in Task, NEW t \in Tasklet, NEW c \in Cpu,
         task[k].pc = "disabled", task[k].t = t, LeaveCpu(c, k),
         tl' = [tl EXCEPT ![t].count = @ - 1], downs' = downs, work' = work
  PROVE  IInv'
<1>0. TypeOK /\ CpuInv /\ PlaceInv /\ RunInv /\ CountInv /\ WaitedInv
  BY DEF IInv
<1>y. PICK y : Quiet(cpu[c], y) /\ CpuOK(y) /\ y \in CpuState /\ cpu' = [cpu EXCEPT ![c] = y]
  BY CpuAway DEF LeaveCpu
<1>t. /\ tl' \in [Tasklet -> [sched : BOOLEAN, run : BOOLEAN, count : Int]]
      /\ \A u \in Tasklet : tl'[u].sched = tl[u].sched /\ tl'[u].run = tl[u].run
      /\ \A u \in Tasklet \ {t} : tl'[u].count = tl[u].count
      /\ tl'[t].count = tl[t].count - 1
  <2>1. tl \in [Tasklet -> [sched : BOOLEAN, run : BOOLEAN, count : Int]]
    BY <1>0 DEF TypeOK
  <2>2. tl[t].count - 1 \in Int
    BY <2>1
  <2> QED
    BY <2>1, <2>2
<1>k. /\ task' \in [Task -> [pc : TaskPc, t : Tasklet]] /\ task'[k] = NoCall
      /\ \A m \in Task \ {k} : task'[m] = task[m]
  BY <1>0, NoCallType, TaskUpdate DEF LeaveCpu, Leave
<1>v. \A m \in Task, u \in Tasklet : InTask(m, u)' <=> InTask(m, u)
  BY <1>k, NoCallType DEF InTask
<1>d. /\ \A u \in Tasklet \ {t} : Disablers(u)' = Disablers(u)
      /\ Disablers(t)' = Disablers(t) \ {k} /\ k \in Disablers(t)
  BY <1>k, NoCallType DEF Disablers
<1>u. \A d \in Cpu, u \in Tasklet :
           /\ InVec(d, u)' <=> InVec(d, u)
           /\ InList(d, u)' <=> InList(d, u)
           /\ Locked(d, u)' <=> Locked(d, u)
           /\ Executing(d, u)' <=> Executing(d, u)
           /\ cpu'[d].vec = cpu[d].vec /\ Rest(cpu'[d]) = Rest(cpu[d])
  BY <1>0, <1>y, QuietUpdate
<1>2. TypeOK'
  BY <1>0, <1>t, <1>k, <1>y, CpuUpdate DEF TypeOK
<1>3. CpuInv'
  BY <1>0, <1>y, CpuInvStep
<1>4. PlaceInv'
  BY <1>0, <1>t, <1>u, <1>v, PlaceSame
<1>5. RunInv'
  BY <1>0, <1>t, <1>u, RunSame
<1>6. CountInv'
  <2>1. IsFiniteSet(Disablers(t))
    BY TaskletAssumption, FS_Subset DEF Disablers
  <2>2. Cardinality(Disablers(t)') = Cardinality(Disablers(t)) - 1
    <3>1. Cardinality(Disablers(t) \ {k}) = Cardinality(Disablers(t)) - 1
      BY <2>1, <1>d, FS_RemoveElement
    <3> QED
      BY <3>1, <1>d
  <2>3. tl'[t].count = Cardinality(Disablers(t)')
    BY <2>2, <1>0, <1>t DEF CountInv
  <2>4. \A u \in Tasklet \ {t} : tl'[u].count = Cardinality(Disablers(u)')
    BY <1>0, <1>d, <1>t DEF CountInv
  <2>5. \A u \in Tasklet : tl'[u].count = Cardinality(Disablers(u)')
    BY <2>3, <2>4
  <2> QED
    BY <2>5 DEF CountInv
<1>7. WaitedInv'
  BY <1>0, <1>k, <1>u, NoCallType, WaitedSame
<1> QED
  BY <1>2, <1>3, <1>4, <1>5, <1>6, <1>7 DEF IInv

\* A task runs on a CPU that is up.
LEMMA RunsUp ==
  ASSUME IInv, NEW c \in Cpu, NEW k \in Task, NEW pc, Runs(c, k, pc)
  PROVE  cpu[c].online = "up" /\ cpu[c] \in CpuState /\ CpuOK(cpu[c]) /\ task[k].pc = pc
<1>1. cpu[c] \in CpuState /\ CpuOK(cpu[c])
  BY DEF IInv, TypeOK, CpuInv
<1> QED
  BY <1>1, TaskletAssumption DEF Runs, MayRun, CpuOK

LEMMA ScheduleStep ==
  ASSUME IInv, NEW c \in Cpu, NEW k \in Task, tasklet_schedule(c, k)
  PROVE  IInv'
<1> DEFINE t == task[k].t
<1>0. TypeOK /\ t \in Tasklet /\ task[k].pc = "schedule"
  BY DEF IInv, TypeOK, tasklet_schedule, Runs
<1>1. /\ tl' = [tl EXCEPT ![t].sched = TRUE] /\ downs' = downs /\ work' = work
      /\ \/ tl[t].sched /\ LeaveCpu(c, k)
         \/ ~tl[t].sched /\ Goto(k, "link") /\ cpu' = cpu
  BY DEF tasklet_schedule, hotplug
<1> HIDE DEF t
<1>2. CASE tl[t].sched /\ LeaveCpu(c, k)
  <2>1. PICK y : Quiet(cpu[c], y) /\ CpuOK(y) /\ y \in CpuState /\ cpu' = [cpu EXCEPT ![c] = y]
    BY <1>2, CpuAway DEF LeaveCpu
  <2>2. tl' = tl
    BY <1>0, <1>1, <1>2 DEF TypeOK
  <2>3. TaskQuiet
    BY <1>0, <1>2, NoCallType DEF LeaveCpu, Leave, TaskQuiet, Busy
  <2> QED
    BY <2>1, <2>2, <2>3, <1>0, <1>1, QuietStep DEF TypeOK
<1>3. CASE ~tl[t].sched /\ Goto(k, "link") /\ cpu' = cpu
  <2>1. "link" \in TaskPc
    BY DEF TaskPc
  <2>2. PICK e \in [pc : TaskPc, t : Tasklet] :
          task' = [task EXCEPT ![k] = e] /\ e.pc = "link" /\ e.t = t
    BY <2>1, <1>0, <1>3, GotoTask DEF t
  <2>3. task[k].t = t
    BY DEF t
  <2> QED
    BY <2>2, <2>3, <1>0, <1>1, <1>3, HoldStep
<1> QED
  BY <1>1, <1>2, <1>3

LEMMA BhOffStep ==
  ASSUME IInv, NEW c \in Cpu, NEW k \in Task, ScheduleBhOff(c, k)
  PROVE  IInv'
<1> DEFINE t == task[k].t
<1>0. /\ TypeOK /\ t \in Tasklet /\ task[k].pc = "bhoff" /\ cpu[c].online = "up"
      /\ cpu[c] \in CpuState /\ CpuOK(cpu[c])
  BY RunsUp DEF IInv, TypeOK, ScheduleBhOff
<1>1. PICK x : x = [cpu[c] EXCEPT !.bh = k]
  OBVIOUS
<1>2. /\ x \in CpuState /\ x.vec = cpu[c].vec /\ x.list = cpu[c].list
      /\ x.online = cpu[c].online /\ x.softirq = cpu[c].softirq
  BY <1>0, <1>1 DEF CpuState
<1>3. /\ tl' = [tl EXCEPT ![t].sched = TRUE] /\ downs' = downs /\ work' = work
      /\ cpu' = [cpu EXCEPT ![c] = IF tl[t].sched THEN x ELSE raise_softirq_irqoff(Queue(x, t))]
      /\ Goto(k, "bhon")
  BY <1>1 DEF ScheduleBhOff, hotplug
<1> HIDE DEF t
<1>4. TaskQuiet
  <2>1. "bhon" \in TaskPc
    BY DEF TaskPc
  <2>2. PICK e \in [pc : TaskPc, t : Tasklet] : task' = [task EXCEPT ![k] = e] /\ e.pc = "bhon"
    BY <2>1, <1>0, <1>3, GotoTask
  <2> QED
    BY <2>2, <1>0 DEF TaskQuiet, Busy
<1>5. CASE tl[t].sched
  <2>1. tl' = tl
    BY <1>0, <1>3, <1>5 DEF TypeOK
  <2>2. Quiet(cpu[c], x) /\ CpuOK(x)
    BY <1>0, <1>2 DEF Quiet, CpuOK
  <2>3. cpu' = [cpu EXCEPT ![c] = x]
    BY <1>3, <1>5
  <2> QED
    BY <2>1, <2>2, <2>3, <1>0, <1>3, <1>4, QuietStep DEF TypeOK
<1>6. CASE ~tl[t].sched
  <2>1. PICK z : z = Queue(x, t)
    OBVIOUS
  <2>2. /\ z \in CpuState /\ z.vec = <<t>> \o x.vec /\ z.list = x.list
        /\ z.online = x.online /\ z.bh = x.bh /\ z.softirq = x.softirq
    BY <2>1, <1>0, <1>2, QueueFront
  <2>3. PICK y : y = raise_softirq_irqoff(z)
    OBVIOUS
  <2>4. /\ y \in CpuState /\ y.vec = z.vec /\ y.list = z.list
        /\ y.online = z.online /\ y.bh = z.bh /\ y.softirq = z.softirq
    BY <2>2, <2>3, RaiseSoftirq
  <2>5. /\ y.vec = <<t>> \o cpu[c].vec /\ y.list = cpu[c].list /\ y.softirq = cpu[c].softirq
        /\ y.online = "up"
    BY <2>2, <2>4, <1>0, <1>2
  <2>6. CpuOK(y)
    BY <2>5, <1>0 DEF CpuOK
  <2>7. cpu' = [cpu EXCEPT ![c] = y]
    BY <2>1, <2>3, <1>3, <1>6
  <2>8. downs' \in Nat
    BY <1>0, <1>3 DEF TypeOK
  <2> QED
    BY <2>4, <2>5, <2>6, <2>7, <2>8, <1>0, <1>3, <1>4, <1>6, PushStep
<1> QED
  BY <1>5, <1>6

LEMMA BhOnStep ==
  ASSUME IInv, NEW c \in Cpu, NEW k \in Task, local_bh_enable(c, k)
  PROVE  IInv'
<1>0. /\ TypeOK /\ task[k].pc = "bhon" /\ cpu[c].online = "up"
      /\ cpu[c] \in CpuState /\ CpuOK(cpu[c]) /\ downs \in Nat
  BY RunsUp DEF IInv, TypeOK, local_bh_enable
<1>1. PICK x : x = [cpu[c] EXCEPT !.bh = None]
  OBVIOUS
<1>2. /\ x \in CpuState /\ x.vec = cpu[c].vec /\ x.list = cpu[c].list
      /\ x.online = cpu[c].online /\ x.softirq = cpu[c].softirq
  BY <1>0, <1>1 DEF CpuState
<1>3. PICK w : w = do_softirq(x)
  OBVIOUS
<1>4. /\ w \in CpuState /\ w.vec = x.vec /\ w.list = x.list
      /\ w.online = x.online /\ w.bh = x.bh
      /\ w.softirq = x.softirq \/ (x.softirq = "none" /\ w.softirq = "action")
  BY <1>2, <1>3, DoSoftirq
<1>5. PICK y : y = Off(w, k)
  OBVIOUS
<1>6. /\ y \in CpuState /\ y.vec = w.vec /\ y.list = w.list
      /\ y.online = w.online /\ y.bh = w.bh /\ y.softirq = w.softirq
  BY <1>4, <1>5, OffCpu
<1>7. Quiet(cpu[c], y) /\ CpuOK(y)
  BY <1>0, <1>2, <1>4, <1>6 DEF Quiet, CpuOK
<1>8. cpu' = [cpu EXCEPT ![c] = y] /\ tl' = tl /\ downs' = downs /\ work' = work
  BY <1>1, <1>3, <1>5 DEF local_bh_enable, hotplug
<1>9. TaskQuiet
  BY <1>0, NoCallType DEF local_bh_enable, Leave, TaskQuiet, Busy
<1> QED
  BY <1>0, <1>7, <1>8, <1>9, QuietStep

LEMMA DisableEnableStep ==
  ASSUME IInv, NEW c \in Cpu, NEW k \in Task, tasklet_disable(c, k) \/ tasklet_enable(c, k)
  PROVE  IInv'
<1> DEFINE t == task[k].t
<1>0. TypeOK /\ t \in Tasklet /\ {"wait", "disabled"} \subseteq TaskPc
  BY DEF IInv, TypeOK, TaskPc
<1>1. CASE Runs(c, k, "disable") /\ tasklet_disable(c, k)
  <2>1. /\ tl' = [tl EXCEPT ![t].count = @ + 1] /\ Goto(k, "wait")
        /\ task[k].pc = "disable" /\ cpu' = cpu /\ downs' = downs /\ work' = work
    BY <1>1 DEF tasklet_disable, Runs, hotplug
  <2> HIDE DEF t
  <2>2. PICK e \in [pc : TaskPc, t : Tasklet] :
          task' = [task EXCEPT ![k] = e] /\ e.pc = "wait" /\ e.t = t /\ task[k].t = t
    BY <2>1, <1>0, GotoTask DEF t
  <2> QED
    BY <2>1, <2>2, <1>0, DisableStep
<1>2. CASE Runs(c, k, "wait") /\ tasklet_disable(c, k)
  <2>1. /\ ~tl[t].run /\ tl' = tl /\ Goto(k, "disabled")
        /\ task[k].pc = "wait" /\ cpu' = cpu /\ downs' = downs /\ work' = work
    BY <1>2 DEF tasklet_disable, tasklet_unlock_wait, Runs, hotplug
  <2> HIDE DEF t
  <2>2. PICK e \in [pc : TaskPc, t : Tasklet] :
          task' = [task EXCEPT ![k] = e] /\ e.pc = "disabled" /\ e.t = t /\ task[k].t = t
    BY <2>1, <1>0, GotoTask DEF t
  <2> QED
    BY <2>1, <2>2, <1>0, WaitedStep
<1>3. CASE tasklet_enable(c, k)
  <2>1. /\ tl' = [tl EXCEPT ![t].count = @ - 1] /\ LeaveCpu(c, k)
        /\ task[k].pc = "disabled" /\ downs' = downs /\ work' = work
    BY <1>3 DEF tasklet_enable, Runs, hotplug
  <2> HIDE DEF t
  <2>2. task[k].t = t
    BY DEF t
  <2> QED
    BY <2>1, <2>2, <1>0, EnableStep
<1> QED
  BY <1>1, <1>2, <1>3 DEF tasklet_disable

LEMMA KillStep ==
  ASSUME IInv, NEW c \in Cpu, NEW k \in Task, tasklet_kill(c, k)
  PROVE  IInv'
<1> DEFINE t == task[k].t
<1>0. TypeOK /\ t \in Tasklet /\ {"killwait", "killed"} \subseteq TaskPc
  BY DEF IInv, TypeOK, TaskPc
<1>1. CASE Runs(c, k, "kill")
  <2>1. /\ tl' = [tl EXCEPT ![t].sched = TRUE] /\ ~tl[t].sched /\ Goto(k, "killwait")
        /\ task[k].pc = "kill" /\ cpu' = cpu /\ downs' = downs /\ work' = work
    BY <1>1 DEF tasklet_kill, Runs, hotplug
  <2> HIDE DEF t
  <2>2. PICK e \in [pc : TaskPc, t : Tasklet] :
          task' = [task EXCEPT ![k] = e] /\ e.pc = "killwait" /\ e.t = t /\ task[k].t = t
    BY <2>1, <1>0, GotoTask DEF t
  <2> QED
    BY <2>1, <2>2, <1>0, HoldStep
<1>2. CASE Runs(c, k, "killwait")
  <2>1. /\ ~tl[t].run /\ tl' = tl /\ Goto(k, "killed")
        /\ task[k].pc = "killwait" /\ cpu' = cpu /\ downs' = downs /\ work' = work
    BY <1>2 DEF tasklet_kill, tasklet_unlock_wait, Runs, hotplug
  <2> HIDE DEF t
  <2>2. PICK e \in [pc : TaskPc, t : Tasklet] :
          task' = [task EXCEPT ![k] = e] /\ e.pc = "killed" /\ e.t = t /\ task[k].t = t
    BY <2>1, <1>0, GotoTask DEF t
  <2> QED
    BY <2>1, <2>2, <1>0, WaitedStep
<1>3. CASE Runs(c, k, "killed")
  <2>1. /\ tl' = [tl EXCEPT ![t].sched = FALSE] /\ LeaveCpu(c, k)
        /\ task[k].pc = "killed" /\ downs' = downs /\ work' = work
    BY <1>3 DEF tasklet_kill, Runs, hotplug
  <2> HIDE DEF t
  <2>2. task[k].t = t
    BY DEF t
  <2> QED
    BY <2>1, <2>2, <1>0, ReleaseStep
<1> QED
  BY <1>1, <1>2, <1>3 DEF tasklet_kill

LEMMA TaskStepInv ==
  ASSUME IInv, NEW k \in Task, TaskStep(k)
  PROVE  IInv'
  BY ScheduleStep, LinkStep, BhOffStep, BhOnStep, DisableEnableStep, KillStep DEF TaskStep

-----------------------------------------------------------------------------
(* The inductive invariant *)

LEMMA InitInv == Init => IInv
<1> SUFFICES ASSUME Init PROVE IInv
  OBVIOUS
<1>a. <<>> \in Seq(Tasklet)
  OBVIOUS
<1>b. Booted \in CpuState /\ CpuOK(Booted) /\ Booted.vec = <<>> /\ Booted.list = <<>>
      /\ Booted.softirq = "none"
  BY <1>a DEF Booted, CpuState, CpuOK
<1>c. \A c \in Cpu : cpu[c] = Booted
  BY DEF Init
<1>d. \A k \in Task : task[k].pc = "out"
  BY NoCallType DEF Init
<1>e. \A c \in Cpu, t \in Tasklet : ~InVec(c, t) /\ ~InList(c, t) /\ ~Locked(c, t) /\ ~Executing(c, t)
  BY <1>b, <1>c, InEmpty DEF InVec, InList, Locked, Executing, Rest
<1>f. \A k \in Task, t \in Tasklet : ~InTask(k, t)
  BY <1>d DEF InTask
<1>1. TypeOK
  BY <1>b, NoCallType DEF Init, TypeOK
<1>2. CpuInv
  BY <1>b, <1>c DEF CpuInv
<1>3. PlaceInv
  <2>1. \A c \in Cpu : NoRepeat(cpu[c].vec) /\ NoRepeat(Rest(cpu[c]))
    BY <1>b, <1>c, InEmpty DEF Rest
  <2>2. \A t \in Tasklet : ~tl[t].sched
    BY DEF Init
  <2> QED
    BY <2>1, <2>2, <1>e, <1>f DEF PlaceInv
<1>4. RunInv
  <2>1. \A t \in Tasklet : ~tl[t].run
    BY DEF Init
  <2> QED
    BY <2>1, <1>e DEF RunInv
<1>5. CountInv
  <2>1. \A t \in Tasklet : Disablers(t) = {}
    BY <1>d DEF Disablers
  <2>2. \A t \in Tasklet : tl[t].count = 0
    BY DEF Init
  <2> QED
    BY <2>1, <2>2, FS_EmptySet DEF CountInv
<1>6. WaitedInv
  BY <1>e DEF WaitedInv
<1> QED
  BY <1>1, <1>2, <1>3, <1>4, <1>5, <1>6 DEF IInv

LEMMA NextInv == IInv /\ [Next]_vars => IInv'
<1> SUFFICES ASSUME IInv, [Next]_vars PROVE IInv'
  OBVIOUS
<1>1. ASSUME NEW c \in Cpu, Irq(c) PROVE IInv'
  BY <1>1, IrqStep
<1>2. ASSUME NEW c \in Cpu, Softirq(c) PROVE IInv'
  BY <1>2, SoftirqStep
<1>3. ASSUME NEW c \in Cpu, KsoftirqdStep(c) PROVE IInv'
  BY <1>3, KsoftirqdQuiet
<1>4. ASSUME NEW c \in Cpu, CpuDead(c) \/ CpuOnline(c) PROVE IInv'
  BY <1>4, HotplugQuiet
<1>5. ASSUME NEW c \in Cpu, NEW d \in Cpu, takeover_tasklets(c, d) PROVE IInv'
  BY <1>5, TakeoverStep
<1>6. ASSUME NEW c \in Cpu, NEW k \in Task, NEW t \in work.tasklets, NEW op \in work.calls[k],
             Begin(c, k, op, t)
      PROVE  IInv'
  BY <1>6, BeginQuiet
<1>7. ASSUME NEW k \in Task, TaskStep(k) PROVE IInv'
  BY <1>7, TaskStepInv
<1>8. CASE UNCHANGED vars
  <2>0. cpu' = cpu /\ tl' = tl /\ task' = task /\ downs' = downs /\ work' = work
    BY <1>8 DEF vars, hotplug
  <2>1. TypeOK /\ CpuInv /\ PlaceInv /\ RunInv /\ CountInv /\ WaitedInv /\ TaskQuiet
    BY <2>0 DEF IInv, TaskQuiet
  <2>2. TypeOK' /\ CpuInv'
    BY <2>0, <2>1 DEF TypeOK, CpuInv
  <2>3. PlaceInv' /\ RunInv'
    BY <2>0, <2>1, CpuSameViews, TaskQuietViews, PlaceSame, RunSame
  <2>4. CountInv' /\ WaitedInv'
    BY <2>0, <2>1, CpuSameViews, TaskQuietViews, CountSame, WaitedSame
  <2> QED
    BY <2>2, <2>3, <2>4 DEF IInv
<1> QED
  BY <1>1, <1>2, <1>3, <1>4, <1>5, <1>6, <1>7, <1>8 DEF Next

-----------------------------------------------------------------------------
(* The safety properties *)

\* The index of a tasklet on a vector, and on the list of a softirq.
VecAt(c, t, i) == i \in DOMAIN cpu[c].vec /\ cpu[c].vec[i] = t
ListAt(c, t, i) ==
  i \in DOMAIN cpu[c].list /\ cpu[c].list[i] = t /\ (i = 1 => cpu[c].softirq # "func")

LEMMA VecIndex ==
  ASSUME TypeOK, PlaceInv, NEW c \in Cpu, NEW t \in Tasklet
  PROVE  /\ InVec(c, t) <=> \E i : VecAt(c, t, i)
         /\ \A i, j : VecAt(c, t, i) /\ VecAt(c, t, j) => i = j
<1>1. cpu[c].vec \in Seq(Tasklet)
  BY DEF TypeOK, CpuState
<1>2. DOMAIN cpu[c].vec = 1..Len(cpu[c].vec)
  BY <1>1
<1>3. NoRepeat(cpu[c].vec)
  BY DEF PlaceInv
<1> QED
  BY <1>2, <1>3 DEF VecAt, InVec, In, NoRepeat

LEMMA ListIndex ==
  ASSUME TypeOK, CpuInv, PlaceInv, NEW c \in Cpu, NEW t \in Tasklet
  PROVE  /\ InList(c, t) <=> \E i : ListAt(c, t, i)
         /\ \A i, j : ListAt(c, t, i) /\ ListAt(c, t, j) => i = j
<1> DEFINE l == cpu[c].list
<1>1. l \in Seq(Tasklet) /\ Len(l) \in Nat
  BY DEF TypeOK, CpuState
<1>2. DOMAIN l = 1..Len(l)
  BY <1>1
<1>3. NoRepeat(Rest(cpu[c]))
  BY DEF PlaceInv
<1>4. CASE cpu[c].softirq # "func"
  BY <1>2, <1>3, <1>4 DEF ListAt, InList, In, NoRepeat, Rest
<1>5. CASE cpu[c].softirq = "func"
  <2>1. l # <<>> /\ Rest(cpu[c]) = Tail(l)
    BY <1>5 DEF CpuInv, CpuOK, Rest
  <2>2. /\ Len(l) > 0 /\ Len(Tail(l)) = Len(l) - 1
        /\ \A i \in 1..Len(l) - 1 : Tail(l)[i] = l[i + 1]
    BY <1>1, <2>1
  <2>3. ASSUME NEW i, ListAt(c, t, i) PROVE i - 1 \in 1..Len(Tail(l)) /\ Tail(l)[i - 1] = t /\ i \in Int
    <3>1. i \in 1..Len(l) /\ l[i] = t /\ i # 1
      BY <2>3, <1>2, <1>5 DEF ListAt
    <3>2. i - 1 \in 1..Len(l) - 1 /\ (i - 1) + 1 = i
      BY <3>1, <1>1
    <3>3. Tail(l)[i - 1] = l[i]
      BY <3>2, <2>2
    <3> QED
      BY <3>1, <3>2, <3>3, <2>2
  <2>4. ASSUME NEW i \in 1..Len(Tail(l)), Tail(l)[i] = t PROVE ListAt(c, t, i + 1)
    <3>1. i + 1 \in 1..Len(l) /\ i + 1 # 1
      BY <2>2, <1>1
    <3>2. l[i + 1] = t
      BY <2>4, <2>2
    <3> QED
      BY <3>1, <3>2, <1>2 DEF ListAt
  <2>5. InList(c, t) <=> \E i : ListAt(c, t, i)
    <3>1. InList(c, t) <=> \E i \in 1..Len(Tail(l)) : Tail(l)[i] = t
      BY <2>1 DEF InList, In
    <3> QED
      BY <3>1, <2>3, <2>4
  <2>6. ASSUME NEW i, NEW j, ListAt(c, t, i), ListAt(c, t, j) PROVE i = j
    <3>1. i - 1 = j - 1
      BY <2>1, <2>3, <2>6, <1>3 DEF NoRepeat
    <3> QED
      BY <3>1, <2>3, <2>6
  <2> QED
    BY <2>5, <2>6
<1> QED
  BY <1>4, <1>5

\* The places of a tasklet, one kind at a time.
LEMMA PlaceKinds ==
  ASSUME NEW t \in Tasklet
  PROVE  /\ \A p : p \in Queued(t) <=>
              \E c \in Cpu : \E i : \/ VecAt(c, t, i) /\ p = <<c, "vec", i>>
                                    \/ ListAt(c, t, i) /\ p = <<c, "list", i>>
         /\ \A p : p \in Places(t) <=>
              \/ p \in Queued(t)
              \/ \E k \in Task : InTask(k, t) /\ p = <<k, "task", 0>>
<1>1. ASSUME NEW p
      PROVE  p \in Queued(t) <=>
               \E c \in Cpu : \E i : \/ VecAt(c, t, i) /\ p = <<c, "vec", i>>
                                     \/ ListAt(c, t, i) /\ p = <<c, "list", i>>
  <2> DEFINE V(c) == {<<c, "vec", i>> : i \in {n \in DOMAIN cpu[c].vec : cpu[c].vec[n] = t}}
             L(c) == {<<c, "list", i>> : i \in {n \in DOMAIN cpu[c].list :
                                           cpu[c].list[n] = t /\ (n = 1 => cpu[c].softirq # "func")}}
  <2>1. p \in Queued(t) <=> \E c \in Cpu : p \in V(c) \/ p \in L(c)
    <3> DEFINE Q(c) == V(c) \cup L(c)
    <3>1. Queued(t) = UNION {Q(c) : c \in Cpu}
      BY DEF Queued
    <3>2. \A c \in Cpu : p \in Q(c) <=> p \in V(c) \/ p \in L(c)
      OBVIOUS
    <3> HIDE DEF Q
    <3>3. p \in Queued(t) <=> \E c \in Cpu : p \in Q(c)
      BY <3>1
    <3> QED
      BY <3>2, <3>3
  <2>2. \A c : p \in V(c) <=> \E i : VecAt(c, t, i) /\ p = <<c, "vec", i>>
    BY Zenon DEF VecAt
  <2>3. \A c : p \in L(c) <=> \E i : ListAt(c, t, i) /\ p = <<c, "list", i>>
    BY Zenon DEF ListAt
  <2> HIDE DEF V, L
  <2> QED
    BY <2>1, <2>2, <2>3
<1>2. ASSUME NEW p
      PROVE  p \in Places(t) <=>
              \/ p \in Queued(t)
              \/ \E k \in Task : InTask(k, t) /\ p = <<k, "task", 0>>
  BY Zenon DEF Places, InTask
<1> QED
  BY <1>1, <1>2

LEMMA SerializedInv == IInv => Serialized
<1> SUFFICES ASSUME IInv, NEW t \in Tasklet
             PROVE  /\ tl[t].sched <=> Places(t) # {}
                    /\ \A p, q \in Places(t) : p = q
                    /\ tl[t].run <=> \E c \in Cpu : Locked(c, t)
                    /\ \A c, d \in Cpu : Locked(c, t) /\ Locked(d, t) => c = d
  BY DEF Serialized
<1>0. TypeOK /\ CpuInv /\ PlaceInv /\ RunInv
  BY DEF IInv
<1>1. tl[t].sched <=> Places(t) # {}
  <2>1. tl[t].sched <=> \/ \E c \in Cpu : InVec(c, t) \/ InList(c, t)
                        \/ \E k \in Task : InTask(k, t)
    BY <1>0 DEF PlaceInv
  <2>2. (\E c \in Cpu : InVec(c, t) \/ InList(c, t)) <=> \E p : p \in Queued(t)
    <3>1. \A c \in Cpu : /\ InVec(c, t) <=> \E i : VecAt(c, t, i)
                         /\ InList(c, t) <=> \E i : ListAt(c, t, i)
      BY <1>0, VecIndex, ListIndex
    <3>2. \A p : p \in Queued(t) <=>
              \E c \in Cpu : \E i : \/ VecAt(c, t, i) /\ p = <<c, "vec", i>>
                                    \/ ListAt(c, t, i) /\ p = <<c, "list", i>>
      BY PlaceKinds
    <3>3. (\E p : p \in Queued(t)) <=> \E c \in Cpu : \E i : VecAt(c, t, i) \/ ListAt(c, t, i)
      BY <3>2, Zenon
    <3> QED
      BY <3>1, <3>3
  <2>3. (\E p : p \in Places(t)) <=> \/ \E p : p \in Queued(t)
                                     \/ \E k \in Task : InTask(k, t)
    BY PlaceKinds
  <2> QED
    BY <2>1, <2>2, <2>3
<1>2. ASSUME NEW p \in Places(t), NEW q \in Places(t) PROVE p = q
  <2>1. \A c, d \in Cpu : /\ InVec(c, t) /\ InVec(d, t) => c = d
                          /\ InList(c, t) /\ InList(d, t) => c = d
                          /\ ~(InVec(c, t) /\ InList(d, t))
    BY <1>0 DEF PlaceInv
  <2>2. /\ \A k, m \in Task : InTask(k, t) /\ InTask(m, t) => k = m
        /\ \A k \in Task, c \in Cpu : InTask(k, t) => ~InVec(c, t) /\ ~InList(c, t)
    BY <1>0 DEF PlaceInv
  <2>3. \A c \in Cpu : \A i : /\ VecAt(c, t, i) => InVec(c, t)
                              /\ ListAt(c, t, i) => InList(c, t)
    BY <1>0, VecIndex, ListIndex
  <2>4. \A c \in Cpu : /\ \A i, j : VecAt(c, t, i) /\ VecAt(c, t, j) => i = j
                       /\ \A i, j : ListAt(c, t, i) /\ ListAt(c, t, j) => i = j
    BY <1>0, VecIndex, ListIndex
  <2>5. ASSUME NEW c \in Cpu, NEW i, VecAt(c, t, i), p = <<c, "vec", i>> PROVE p = q
    BY <2>1, <2>2, <2>3, <2>4, <2>5, PlaceKinds
  <2>6. ASSUME NEW c \in Cpu, NEW i, ListAt(c, t, i), p = <<c, "list", i>> PROVE p = q
    BY <2>1, <2>2, <2>3, <2>4, <2>6, PlaceKinds
  <2>7. ASSUME NEW k \in Task, InTask(k, t), p = <<k, "task", 0>> PROVE p = q
    BY <2>2, <2>3, <2>7, PlaceKinds
  <2> QED
    BY <2>5, <2>6, <2>7, PlaceKinds
<1>3. /\ tl[t].run <=> \E c \in Cpu : Locked(c, t)
      /\ \A c, d \in Cpu : Locked(c, t) /\ Locked(d, t) => c = d
  BY <1>0 DEF RunInv
<1> QED
  BY <1>1, <1>2, <1>3

LEMMA QuiescedInv == IInv => Quiesced
<1> SUFFICES ASSUME IInv, NEW k \in Task, NEW c \in Cpu, NEW t \in Tasklet, t = task[k].t
             PROVE  /\ task[k].pc = "killed" => Queued(t) = {} /\ ~Locked(c, t)
                    /\ task[k].pc = "disabled" => ~Executing(c, t)
  BY DEF Quiesced, IInv, TypeOK
<1>0. TypeOK /\ CpuInv /\ PlaceInv /\ WaitedInv
  BY DEF IInv
<1>1. ASSUME task[k].pc = "killed" PROVE Queued(t) = {}
  <2>1. InTask(k, t)
    BY <1>1 DEF InTask
  <2>2. \A d \in Cpu : ~InVec(d, t) /\ ~InList(d, t)
    BY <2>1, <1>0 DEF PlaceInv
  <2>3. \A p : p \notin Queued(t)
    BY <2>2, <1>0, VecIndex, ListIndex, PlaceKinds
  <2> QED
    BY <2>3
<1>2. /\ task[k].pc = "killed" => ~Locked(c, t)
      /\ task[k].pc = "disabled" => ~Executing(c, t)
  BY <1>0 DEF WaitedInv
<1> QED
  BY <1>1, <1>2

\* The inductive invariant holds in every state of kernel/softirq.c, whatever
\* the number of CPUs, tasklets and tasks, with and without CONFIG_MV_REAL_TIME.
THEOREM Invariance == Spec => []IInv
<1>1. Init => IInv
  BY InitInv
<1>2. IInv /\ [Next]_vars => IInv'
  BY NextInv
<1> QED
  BY <1>1, <1>2, PTL DEF Spec

\* A tasklet is in exactly one place while SCHED is set, and locked by exactly
\* one CPU while RUN is: tasklet_schedule(), tasklet_action(), tasklet_kill()
\* and takeover_tasklets() neither lose it nor queue or run it twice.
THEOREM TaskletSerialized == Spec => []Serialized
  BY Invariance, SerializedInv, PTL

\* After tasklet_kill() the tasklet is neither queued nor running, and between
\* tasklet_disable() and tasklet_enable() its function does not run.
THEOREM TaskletQuiesced == Spec => []Quiesced
  BY Invariance, QuiescedInv, PTL
=============================================================================
